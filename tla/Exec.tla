-------------------------------- MODULE Exec ---------------------------------
(***************************************************************************)
(* execve (kernel/exec.c): the files, buffers and locks taken on the way,  *)
(* every place where it may fail, and the variables put into the new       *)
(* program's environment.                                                  *)
(***************************************************************************)
EXTENDS Integers, Sequences, FiniteSets, SequencesExt

CONSTANTS NULL, MaxFails, EnvRoom, ExecLoads

VARIABLES xload,    \* the files and environments there are, never changes
          ex,       \* the call in progress
          held,     \* files opened and buffers allocated by it
          task,     \* what the call changes of its process
          env,      \* environment and arguments of the call: before and after the injection
          fails     \* failures left to happen

vars == <<xload, ex, held, task, env, fails>>

\* What the code below forces into an environment.  The variable that is looked
\* for with its value is PYTHONDONTWRITEBYTECODE: its prefix is one too long.
Injected == << [var |-> "forced", exact |-> FALSE, mode |-> 1],
               [var |-> "default", exact |-> FALSE, mode |-> 0],
               [var |-> "bytecode", exact |-> TRUE, mode |-> 0] >>
Matches(kv, e) == kv.var = e.var /\ (e.exact => kv.val = "injected")
\* One round of the loop: the last match counts.  A forced variable is taken out
\* first; the new one is appended when the buffer has room.
inject_env(envp, e) ==
    LET at == SelectLastInSeq(envp, LAMBDA kv : Matches(kv, e))
        base == IF at # 0 /\ e.mode = 1 THEN RemoveAt(envp, at) ELSE envp
        add == at = 0 \/ e.mode = 1
    IN  IF add /\ Len(base) < EnvRoom THEN Append(base, [var |-> e.var, val |-> "injected"])
        ELSE base
inject_envs(envp) == FoldLeft(inject_env, envp, Injected)

\* For node: flags, and the shims that are installed.  Each goes right behind the
\* program's name unless it is there already, as far as the buffer has room.
inject_args == <<"jitless">> \o SelectSeq(<<"wasm", "fetch">>, LAMBDA a : xload.files[a].exists)
\* Mutant: the argument is not looked for.
inject_arg_again(argv, a) == IF Len(argv) >= EnvRoom THEN argv ELSE InsertAt(argv, 2, a)
inject_arg(argv, a) ==
    IF Contains(argv, a) \/ Len(argv) >= EnvRoom THEN argv ELSE InsertAt(argv, 2, a)
node_args(argv, envp) ==
    IF \E i \in DOMAIN envp : envp[i].var = "no_args" THEN argv
    ELSE FoldLeft(inject_arg, argv, inject_args)
ld_preload(envp) ==
    IF /\ xload.files["zero_free"].exists /\ Len(envp) < EnvRoom
       /\ \A i \in DOMAIN envp : envp[i].var # "preload"
    THEN Append(envp, [var |-> "preload", val |-> "injected"])
    ELSE envp

At(pc) == ex.pc = pc
Step(pc) == ex' = [ex EXCEPT !.pc = pc]
Ret(err) == ex' = [ex EXCEPT !.pc = "idle", !.err = err]
Take(x) == held' = held \cup {x}
Drop(X) == held' = held \ X
Fail == fails > 0 /\ fails' = fails - 1
Fine == UNCHANGED fails
File == xload.files[ex.file]
\* free(envp); free(argv)
out == {"argv", "envp"}
------------------------------------------------------------------------------
\* The arguments are copied in, then variables added; a registered program is
\* handed to the host, which comes back here only when that fails.
sys_execve ==
    \E f \in xload.programs, e \in xload.envs, a \in xload.args :
        LET node == f = "node"
            envp == inject_envs(e)
        IN
        /\ At("idle") /\ ex.calls < xload.calls /\ task.mm # "lost"
        /\ \/ /\ Fail /\ ex' = [ex EXCEPT !.err = "args", !.calls = @ + 1]
              /\ UNCHANGED <<held, env>>
           \/ /\ Fine /\ held' = held \cup out
              /\ env' = [before |-> e, after |-> IF node THEN ld_preload(envp) ELSE envp,
                         args |-> a, argv |-> IF node THEN node_args(a, envp) ELSE a, node |-> node]
              /\ ex' = [ex EXCEPT !.pc = "open", !.file = f, !.err = NULL, !.calls = @ + 1,
                                  !.script = FALSE, !.main = f]
        /\ task' = [task EXCEPT !.stage = "old"]
        /\ UNCHANGED xload
__do_execve ==
    /\ At("open")
    /\ \/ Fail /\ Ret("open") /\ Drop(out)
       \/ /\ Fine
          /\ IF ~File.exists THEN Ret("ENOENT") /\ Drop(out)
             ELSE IF ~File.exec THEN Ret("EACCES") /\ Drop(out)
             ELSE Step("header") /\ Take("file")
    /\ UNCHANGED <<xload, task, env>>
\* What format_exec and shebang_exec return goes back to the end of __do_execve.
Files == IF ex.script THEN {"file", "interpreter", "new_argv"} ELSE {"file"}
Failed(err, X) == Ret(err) /\ Drop(X \cup Files \cup out)
\* A file that is no program is looked at as a script, once.
read_header ==
    /\ At("header")
    /\ \/ Fail /\ Failed("EIO", {})
       \/ /\ Fine
          /\ IF File.kind = "elf" THEN Step("ph") /\ UNCHANGED held
             ELSE IF ex.script \/ File.kind # "script" THEN Failed("ENOEXEC", {})
             ELSE Step("shebang") /\ UNCHANGED held
    /\ UNCHANGED <<xload, task, env>>
shebang_exec ==
    /\ At("shebang")
    /\ \/ Fail /\ Failed("E2BIG", {})
       \/ /\ Fine
          /\ IF ~xload.files[File.interp].exists THEN Failed("ENOENT", {})
             ELSE /\ ex' = [ex EXCEPT !.pc = "header", !.file = File.interp, !.script = TRUE]
                  /\ held' = held \cup {"interpreter", "new_argv"}
    /\ UNCHANGED <<xload, task, env>>
read_prg_headers ==
    /\ At("ph")
    /\ \/ Fail /\ Failed("EIO", {})
       \/ Fine /\ Take("ph") /\ Step(IF File.interp = NULL THEN "release" ELSE "interp")
    /\ UNCHANGED <<xload, task, env>>
\* The dynamic linker's name, file and headers.
interp ==
    /\ At("interp")
    /\ \/ Fail /\ Failed("ENOMEM", {"ph"})
       \/ Fine /\ Take("interp_name") /\ Step("interp_fd")
    /\ UNCHANGED <<xload, task, env>>
interp_open ==
    /\ At("interp_fd")
    /\ \/ Fail /\ Failed("EIO", {"ph", "interp_name"})
       \/ /\ Fine
          /\ IF ~xload.files[File.interp].exists THEN Failed("ENOENT", {"ph", "interp_name"})
             ELSE IF xload.files[File.interp].kind # "elf" THEN Failed("ELIBBAD", {"ph", "interp_name"})
             ELSE held' = held \cup {"interp_fd", "interp_ph"} /\ Step("release")
    /\ UNCHANGED <<xload, task, env>>
Elf == {"ph", "interp_name", "interp_fd", "interp_ph"}
\* From here on there is no way back: the old program's memory is gone.
elf_exec ==
    /\ At("release") /\ Fine
    /\ task' = [task EXCEPT !.mm = "lost", !.lock = @ + 1, !.stage = "lost"]
    /\ Step("load") /\ UNCHANGED <<xload, held, env>>
\* beyond_hope: the lock is given up and everything freed.
beyond_hope(err) ==
    Failed(err, Elf) /\ task' = [task EXCEPT !.lock = @ - 1]
load_entry ==
    /\ At("load")
    /\ \/ Fail /\ beyond_hope("ENOMEM")
       \/ /\ Fine /\ Step("bss") /\ UNCHANGED held
          /\ task' = [task EXCEPT !.lock = @ - 1]
       \/ /\ Fine /\ Step("args") /\ UNCHANGED held
          /\ task' = [task EXCEPT !.lock = @ - 1]
    /\ UNCHANGED <<xload, env>>
\* The rest of a page behind a segment is cleared without the lock.
user_memset ==
    /\ At("bss") /\ Fine /\ Step("load")
    /\ task' = [task EXCEPT !.lock = @ + 1]
    /\ UNCHANGED <<xload, held, env>>
\* Strings, then pointers, then the auxiliary vector, on the new stack.
args_copy ==
    /\ At("args")
    /\ \/ Fail /\ Failed("EFAULT", Elf)
       \/ Fine /\ Step("pointers") /\ UNCHANGED held
    /\ UNCHANGED <<xload, task, env>>
put_pointers ==
    /\ At("pointers")
    /\ \/ Fail /\ Failed("EFAULT", {})
       \/ Fine /\ Step("aux") /\ UNCHANGED held
    /\ UNCHANGED <<xload, task, env>>
put_aux ==
    /\ At("aux")
    /\ \/ Fail /\ beyond_hope("EFAULT")
       \/ Fine /\ Step("commit") /\ Drop(Elf) /\ UNCHANGED task
    /\ UNCHANGED <<xload, env>>
\* The end of __do_execve: credentials of the file named, close-on-exec files,
\* handlers, and the parent of a vfork is released.
commit ==
    /\ At("commit") /\ Fine
    /\ task' = [task EXCEPT !.mm = "new", !.stage = "new", !.euid = xload.files[ex.main].suid,
                            !.cloexec = 0, !.handlers = 0, !.vforked = FALSE]
    /\ ex' = [ex EXCEPT !.pc = "idle", !.err = "ok"]
    /\ Drop(Files \cup out)
    /\ UNCHANGED <<xload, env>>

Next ==
    \/ sys_execve \/ __do_execve \/ read_header \/ shebang_exec \/ read_prg_headers \/ interp
    \/ interp_open \/ elf_exec \/ load_entry \/ user_memset \/ args_copy \/ put_pointers
    \/ put_aux \/ commit
Init ==
    /\ xload \in ExecLoads
    /\ ex = [pc |-> "idle", err |-> NULL, file |-> NULL, main |-> NULL, script |-> FALSE, calls |-> 0]
    /\ held = {} /\ fails = MaxFails /\ env = [before |-> <<>>, after |-> <<>>,
                                            args |-> <<>>, argv |-> <<>>, node |-> FALSE]
    /\ task = [mm |-> "old", lock |-> 0, stage |-> "old", euid |-> NULL, cloexec |-> 1,
               handlers |-> 1, vforked |-> TRUE]
Spec == Init /\ [][Next]_vars
------------------------------------------------------------------------------
\* A call that is over holds no file, no buffer and no lock.  The pointers of
\* the arguments that cannot be stored are the exception (put_pointers).
Returned == At("idle") /\ ex.err # NULL
ExecCleansUp ==
    Returned => /\ held \subseteq Elf /\ (ex.err # "EFAULT" => held = {})
                /\ ex.err # "EFAULT" => task.lock = 0
\* The same without the exception.
ExecFreesAll == Returned => held = {} /\ task.lock = 0

\* A call that fails before the point of no return changes nothing, one that
\* succeeds changes everything, and a vfork parent is not released before its
\* memory is no longer in use.
ExecAllOrNothing ==
    /\ Returned /\ ex.err = "ok" =>
         task.mm = "new" /\ task.cloexec = 0 /\ task.handlers = 0 /\ ~task.vforked
    /\ task.stage = "old" /\ ex.calls <= 1 =>
         task.mm = "old" /\ task.cloexec = 1 /\ task.handlers = 1 /\ task.vforked
    /\ task.vforked \/ task.mm # "old"
\* A process whose memory is gone does not go on.
FailedExecKills == ~(Returned /\ task.mm = "lost")

\* The environment: a forced variable has the forced value, last; a default
\* gives way to what the caller set; nothing of the caller's is lost otherwise.
Of(e, v) == SelectSeq(e, LAMBDA kv : kv.var = v)
EnvInjected ==
    ~At("idle") =>
    LET b == env.before  a == env.after IN
    /\ Len(a) <= EnvRoom
    /\ \A v \in {"other", "default"} : Of(b, v) # <<>> => Of(a, v) = Of(b, v)
    /\ Len(b) + 3 <= EnvRoom =>
         /\ Of(a, "forced") # <<>> /\ Last(Of(a, "forced")).val = "injected"
         /\ Of(a, "default") # <<>>
    /\ Len(Of(b, "forced")) <= 1 => Len(Of(a, "forced")) <= 1
\* The arguments: the program's name stays first, the caller's arguments stay as
\* they are behind what was put in, and nothing is there twice.
ArgsInjected ==
    LET b == env.args  a == env.argv  n == Len(a) - Len(b) IN
    /\ b # <<>> => Head(a) = Head(b) /\ SubSeq(a, n + 2, Len(a)) = Tail(b)
    /\ IsInjective(SubSeq(a, 2, n + 1)) /\ ToSet(SubSeq(a, 2, n + 1)) \cap ToSet(b) = {}
    /\ env.node /\ b # <<>> /\ Len(b) + 3 <= EnvRoom /\ Of(env.before, "no_args") = <<>> =>
         ToSet(inject_args) \subseteq ToSet(a)
\* The four together.
ExecSound == ExecCleansUp /\ ExecAllOrNothing /\ EnvInjected /\ ArgsInjected
\* "WebAssembly shim (must load first)"
ShimFirst ==
    \A i, j \in DOMAIN env.argv : env.argv[i] = "wasm" /\ env.argv[j] = "fetch" => i < j
\* inject only if not present
DefaultsGiveWay ==
    ~At("idle") => \A v \in {"default", "bytecode"} :
        Of(env.before, v) # <<>> => Of(env.after, v) = Of(env.before, v)
==============================================================================
