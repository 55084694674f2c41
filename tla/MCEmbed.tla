------------------------------- MODULE MCEmbed -------------------------------
(* Loads for TLC: two sessions; one whose output outgrows what is retained, *)
(* with a supervisor that may fail; one with input and a descendant that    *)
(* holds the pipe; a terminal with input and resizes, and a boot that may   *)
(* fail; and a shutdown.                                                    *)
EXTENDS Embed

Pair == [reqs |-> {1, 2}, kinds |-> {"none"}, out |-> 0, writes |-> 0, uses |-> {}]
Stream == [reqs |-> {1}, kinds |-> {"none"}, out |-> 2, writes |-> 0,
           uses |-> {"spawn_fails", "crash", "timeout"}]
Piped == [reqs |-> {1}, kinds |-> {"none", "stdin"}, out |-> 1, writes |-> 1,
          uses |-> {"daemon", "Write"}]
Terminal == [reqs |-> {1}, kinds |-> {"tty"}, out |-> 1, writes |-> 1,
             uses |-> {"Write", "Resize", "hup"}]
Stop == [reqs |-> {1}, kinds |-> {"none"}, out |-> 1, writes |-> 0,
         uses |-> {"shutdown", "spawn_fails"}]

PassingLoads == {Pair, Stream, Piped, Terminal, Stop}
Long == {[reqs |-> {1}, kinds |-> {"none"}, out |-> 2, writes |-> 0, uses |-> {}]}
==============================================================================
