-------------------------------- MODULE Sock ---------------------------------
(***************************************************************************)
(* Local sockets (fs/sock.c): every socket has a socket of the host under  *)
(* it and a pointer to the socket at the other end, for which connect      *)
(* sends its own address through the host socket; descriptors in flight    *)
(* wait in a list of the receiving socket while a dummy travels.  A socket *)
(* is bound to a file or to an abstract name, either of which stands for   *)
(* the number the host's address is made of.  fs/sockrestart.c brings back *)
(* listening sockets after the device has slept.                           *)
(***************************************************************************)
EXTENDS Integers, Sequences, FiniteSets

CONSTANTS Sockers,     \* threads
          NULL, MaxSocks, Names, SockLoads    \* which names are paths is a load's choice

VARIABLES kload,       \* never changes
          thr,         \* the call each thread is in
          sk,          \* sockets
          hfd,         \* descriptors of the host: the socket each one is, or NULL
          peer_lock, sockrestart_lock,
          names,       \* abstract names: references, and the number each stands for
          leaked,      \* of these references, the ones nobody will give back
          file, inode, \* the inode a path leads to; inodes in use, and their numbers
          next_id,
          scm,         \* sets of descriptors in flight, by number
          listen_fds, saved, awake,
          holes        \* what has gone wrong

vars == <<kload, thr, sk, hfd, peer_lock, sockrestart_lock, names, leaked, file, inode,
          next_id, scm, listen_fds, saved, awake, holes>>
restart == <<sockrestart_lock, listen_fds, saved, awake>>
naming == <<names, leaked, file, inode, next_id>>

Socks == 1 .. MaxSocks
Unused == [st |-> "none", of |-> NULL, refs |-> 0, real |-> NULL, peer |-> NULL, other |-> NULL,
           chan |-> <<>>, unix_scm |-> <<>>, backlog |-> <<>>, name |-> NULL, ino |-> NULL, addr |-> 0,
           cred |-> NULL, shut |-> FALSE, host |-> "plain"]
New(t, real) == [Unused EXCEPT !.st = "open", !.of = kload.proc[t], !.refs = 1, !.real = real]
Spare == {s \in Socks : sk[s].st = "none"}
Least(S) == CHOOSE x \in S : \A y \in S : x <= y
Free == {n \in DOMAIN hfd : hfd[n] = NULL}
Own(t) == {s \in Socks : sk[s].st = "open" /\ sk[s].of = kload.proc[t]}
\* The host's end is open until the last step of close.
Connected(s) ==
    /\ sk[s].other # NULL
    /\ sk[sk[s].other].st \in {"open", "closing"}

Idle(t) == thr[t].pc = "idle"
Call(t, do) == Idle(t) /\ do \in kload.calls /\ thr[t].left > 0
In(t, pc) == thr[t].pc = pc
Goto(t, pc, a, b) == thr' = [thr EXCEPT ![t] = [pc |-> pc, a |-> a, b |-> b,
                                       left |-> IF @.pc = "idle" THEN @.left - 1 ELSE @.left]]
Return(t) == Goto(t, "idle", NULL, NULL)
Hole(h) == holes' = holes \cup {h}
------------------------------------------------------------------------------
\* sock_fd_create may find the table full: f_install closes the socket, and with
\* it the descriptor of the host, which the caller closes once more.
sys_socket(t) ==
    LET s == Least(Spare)  n == Least(Free) IN
    /\ Call(t, "socket") /\ Spare # {} /\ Free # {}
    /\ \/ sk' = [sk EXCEPT ![s] = New(t, n)] /\ hfd' = [hfd EXCEPT ![n] = s] /\ Return(t)
       \/ kload.full /\ Goto(t, "close_again", n, NULL) /\ UNCHANGED <<sk, hfd>>
    /\ UNCHANGED <<kload, peer_lock, naming, scm, restart, holes>>
close_again(t) ==
    LET n == thr[t].a IN
    /\ In(t, "close_again") /\ Return(t)
    /\ hfd' = [hfd EXCEPT ![n] = NULL]
    /\ IF hfd[n] # NULL THEN Hole("closed_other") ELSE UNCHANGED holes
    /\ UNCHANGED <<kload, sk, peer_lock, naming, scm, restart>>
sys_socketpair(t) ==
    LET a == Least(Spare)  b == Least(Spare \ {a})  m == Least(Free)  n == Least(Free \ {m}) IN
    /\ Call(t, "socketpair") /\ peer_lock = NULL /\ Cardinality(Spare) > 1 /\ Cardinality(Free) > 1
    /\ sk' = [sk EXCEPT ![a] = [New(t, m) EXCEPT !.peer = b, !.other = b],
                        ![b] = [New(t, n) EXCEPT !.peer = a, !.other = a]]
    /\ hfd' = [hfd EXCEPT ![m] = a, ![n] = b] /\ Return(t)
    /\ UNCHANGED <<kload, peer_lock, naming, scm, restart, holes>>

\* Abstract names.  One that is in use can not be bound.
unix_abstract_get(n) ==
    [names EXCEPT ![n] = [refs |-> @.refs + 1, id |-> IF @.refs = 0 THEN next_id ELSE @.id]]
unix_abstract_release(n) == [names EXCEPT ![n].refs = @ - 1]
\* The number of a file is kept with its inode as long as a socket is bound to it.
unix_socket_get(i) == IF inode[i].refs = 0 THEN next_id ELSE inode[i].id
inode_release(i) ==
    IF i = NULL THEN inode
    ELSE [inode EXCEPT ![i] = IF @.refs = 1 THEN [refs |-> 0, id |-> 0] ELSE [@ EXCEPT !.refs = @ - 1]]
Forget(n) == IF n = NULL THEN leaked ELSE [leaked EXCEPT ![n] = @ + 1]
\* The host refuses to bind a socket twice: then the new name goes, and the old
\* one is forgotten.
sys_bind(t, s, n) ==
    /\ Call(t, "bind") /\ s \in Own(t) /\ sk[s].other = NULL /\ n \notin kload.paths /\ Return(t)
    /\ IF names[n].refs > 0 THEN UNCHANGED <<sk, naming>>
       ELSE IF sk[s].host = "plain"
       THEN /\ names' = unix_abstract_get(n) /\ next_id' = next_id + 1
            /\ sk' = [sk EXCEPT ![s].name = n, ![s].host = "bound", ![s].addr = next_id]
            /\ UNCHANGED <<leaked, file, inode>>
       ELSE /\ sk' = [sk EXCEPT ![s].name = NULL, ![s].ino = NULL] /\ next_id' = next_id + 1
            /\ leaked' = Forget(sk[s].name)
            /\ inode' = inode_release(sk[s].ino)
            /\ UNCHANGED <<names, file>>
    /\ UNCHANGED <<kload, hfd, peer_lock, scm, restart, holes>>
bind_path(t, s, n) ==
    /\ Call(t, "bind") /\ s \in Own(t) /\ sk[s].other = NULL /\ n \in kload.paths
    /\ IF file[n] # NULL THEN Return(t) ELSE Goto(t, "mknod", s, n)
    /\ UNCHANGED <<kload, sk, hfd, peer_lock, naming, scm, restart, holes>>
\* Whoever made the file meanwhile keeps it.  A failure of the host's bind lets
\* go of an abstract name as well, of the first bind.
bind_mknod(t) ==
    LET s == thr[t].a  n == thr[t].b  i == Len(inode) + 1 IN
    /\ In(t, "mknod") /\ Return(t)
    /\ IF file[n] # NULL \/ sk[s].st # "open" THEN UNCHANGED <<sk, naming>>
       ELSE /\ file' = [file EXCEPT ![n] = i] /\ next_id' = next_id + 1
            /\ IF sk[s].host = "plain"
               THEN /\ inode' = Append(inode, [refs |-> 1, id |-> next_id])
                    /\ sk' = [sk EXCEPT ![s].ino = i, ![s].host = "bound", ![s].addr = next_id]
                    /\ UNCHANGED <<names, leaked>>
               ELSE /\ inode' = Append(inode, [refs |-> 0, id |-> 0])
                    /\ names' = IF sk[s].name = NULL THEN names ELSE unix_abstract_release(sk[s].name)
                    /\ sk' = [sk EXCEPT ![s].ino = NULL, ![s].name = NULL] /\ UNCHANGED leaked
    /\ IF sk[s].st # "open" THEN Hole("bind_closed") ELSE UNCHANGED holes
    /\ UNCHANGED <<kload, hfd, peer_lock, scm, restart>>
unlink(t, n) ==
    /\ Call(t, "unlink") /\ file[n] # NULL /\ file' = [file EXCEPT ![n] = NULL] /\ Return(t)
    /\ UNCHANGED <<kload, sk, hfd, peer_lock, names, leaked, inode, next_id, scm, restart, holes>>
\* Every call of listen enters the socket into the list.
sys_listen(t, s) ==
    /\ Call(t, "listen") /\ s \in Own(t) /\ sk[s].host \in {"bound", "listen"} /\ sockrestart_lock = NULL
    /\ sk' = [sk EXCEPT ![s].host = "listen"]
    /\ listen_fds' = <<s>> \o listen_fds
    /\ IF \E i \in DOMAIN listen_fds : listen_fds[i] = s THEN Hole("listen_twice") ELSE UNCHANGED holes
    /\ Return(t)
    /\ UNCHANGED <<kload, hfd, peer_lock, naming, scm, sockrestart_lock, saved, awake>>

\* The number an address given to connect, or to sendto, stands for; 0 for none.
\* The lookup of an abstract name takes a reference that nobody gives back.
sockaddr_read(n) ==
    IF n \in kload.paths THEN IF file[n] = NULL THEN 0 ELSE unix_socket_get(file[n])
    ELSE IF names[n].refs = 0 THEN 0 ELSE names[n].id
Bound(id) == {x \in Socks : sk[x].st = "open" /\ sk[x].addr = id /\ id # 0}
LookedUp(n) ==
    /\ names' = IF n \in kload.paths \/ names[n].refs = 0 THEN names ELSE unix_abstract_get(n)
    /\ leaked' = IF n \in kload.paths \/ names[n].refs = 0 THEN leaked ELSE Forget(n)
    /\ next_id' = IF sockaddr_read(n) = next_id THEN next_id + 1 ELSE next_id
    /\ UNCHANGED <<file, inode>>
sys_connect(t, s, n) ==
    LET l == {x \in Bound(sockaddr_read(n)) : sk[x].host = "listen"} IN
    /\ Call(t, "connect") /\ s \in Own(t) /\ sk[s].host = "plain" /\ sk[s].other = NULL
    /\ \A x \in Socks : \A i \in DOMAIN sk[x].backlog : sk[x].backlog[i].from # s
    /\ LookedUp(n)
    /\ IF l = {} THEN Return(t) /\ UNCHANGED sk
       ELSE /\ sk' = [sk EXCEPT ![Least(l)].backlog = Append(@, [from |-> s, wrote |-> FALSE])]
            /\ Goto(t, "write", s, Least(l))
    /\ UNCHANGED <<kload, hfd, peer_lock, scm, restart, holes>>
\* The caller's credentials are noted, and the socket's own address goes through
\* the host's connection.
Wrote(q, s) == [i \in DOMAIN q |-> IF q[i].from = s THEN [q[i] EXCEPT !.wrote = TRUE] ELSE q[i]]
connect_write(t) ==
    LET s == thr[t].a  l == thr[t].b
        taken == {u \in Sockers : thr[u].pc \in {"accepted", "read"} /\ thr[u].b.from = s} IN
    /\ In(t, "write")
    /\ IF sk[l].st \in {"open", "closing"} /\ \E i \in DOMAIN sk[l].backlog : sk[l].backlog[i].from = s
       THEN sk' = [sk EXCEPT ![l].backlog = Wrote(@, s), ![s].cred = kload.proc[t]] /\ Goto(t, "await", s, l)
       ELSE IF taken # {}
       THEN /\ thr' = [u \in Sockers |-> IF u \in taken THEN [thr[u] EXCEPT !.b.wrote = TRUE]
                                         ELSE IF u = t THEN [thr[u] EXCEPT !.pc = "await"] ELSE thr[u]]
            /\ sk' = [sk EXCEPT ![s].cred = kload.proc[t]]
       ELSE Return(t) /\ sk' = [sk EXCEPT ![s].cred = kload.proc[t]]   \* EPIPE is not an error here
    /\ UNCHANGED <<kload, hfd, peer_lock, naming, scm, restart, holes>>
\* Signals do not end this wait.
connect_wait(t) ==
    LET s == thr[t].a IN
    /\ In(t, "await") /\ peer_lock = NULL
    /\ \/ sk[s].st # "open" /\ Hole("connect_closed") /\ Return(t)
       \/ sk[s].st = "open" /\ sk[s].peer # NULL /\ Return(t) /\ UNCHANGED holes
    /\ UNCHANGED <<kload, sk, hfd, peer_lock, naming, scm, restart>>

\* A thread that waits in accept is known to sockrestart.
sys_accept(t, l) ==
    /\ Call(t, "accept") /\ l \in Own(t) /\ sk[l].host = "listen" /\ Goto(t, "accept", l, FALSE)
    /\ UNCHANGED <<kload, sk, hfd, peer_lock, naming, scm, restart, holes>>
accept_host(t) ==
    LET l == thr[t].a  c == Least(Spare)  n == Least(Free) IN
    /\ In(t, "accept")
    /\ \/ sk[l].st = "open" /\ sk[l].host = "listen" /\ sk[l].backlog # <<>> /\ Spare # {} /\ Free # {}
          /\ LET e == Head(sk[l].backlog) IN
             /\ sk' = [sk EXCEPT ![l].backlog = Tail(@), ![e.from].other = c,
                                 ![c] = [New(t, n) EXCEPT !.other = e.from]]
             /\ hfd' = [hfd EXCEPT ![n] = c] /\ Goto(t, "accepted", c, e)
       \* EINTR, with punt: again, unless the socket is not what it was.
       \/ thr[t].b /\ sk[l].host = "listen" /\ Goto(t, "accept", l, FALSE) /\ UNCHANGED <<sk, hfd>>
       \/ (sk[l].st # "open" \/ sk[l].host = "rebound") /\ Return(t) /\ UNCHANGED <<sk, hfd>>
       \* A guest's signal.
       \/ kload.signals /\ Return(t) /\ UNCHANGED <<sk, hfd>>
    /\ UNCHANGED <<kload, peer_lock, naming, scm, restart, holes>>
accept_lock(t) ==
    /\ In(t, "accepted") /\ peer_lock = NULL /\ peer_lock' = t
    /\ thr' = [thr EXCEPT ![t].pc = "read"]
    /\ UNCHANGED <<kload, sk, hfd, naming, scm, restart, holes>>
\* The address arrives, or the end of the connection.
accept_peer(t) ==
    LET c == thr[t].a  e == thr[t].b  p == e.from IN
    /\ In(t, "read") /\ (e.wrote \/ sk[p].st = "gone")
    /\ IF (e.wrote /\ sk[p].st = "gone") \/ sk[c].st # "open" THEN Hole("accept_gone") ELSE UNCHANGED holes
    /\ sk' = IF e.wrote /\ sk[p].st # "gone" /\ sk[c].st = "open"
             THEN [sk EXCEPT ![c].peer = p, ![c].cred = kload.proc[t], ![p].peer = c] ELSE sk
    /\ peer_lock' = NULL /\ Return(t)
    /\ UNCHANGED <<kload, hfd, naming, scm, restart>>
------------------------------------------------------------------------------
\* Descriptors are entered into the list at the other end, then the dummy is sent.
sys_sendmsg(t, s) ==
    LET k == Len(scm) + 1 IN
    /\ Call(t, "sendmsg") /\ s \in Own(t) /\ sk[s].other # NULL /\ peer_lock = NULL
    /\ IF sk[s].peer = NULL THEN scm' = Append(scm, "freed") /\ Return(t) /\ UNCHANGED sk
       ELSE /\ scm' = Append(scm, "queued") /\ Goto(t, "send", s, k)
            /\ sk' = [sk EXCEPT ![sk[s].peer].unix_scm = Append(@, k)]
    /\ UNCHANGED <<kload, hfd, peer_lock, naming, restart, holes>>
sendmsg_host(t) ==
    LET s == thr[t].a IN
    /\ In(t, "send")
    /\ IF Connected(s) /\ ~sk[s].shut
       THEN sk' = [sk EXCEPT ![sk[s].other].chan = Append(@, thr[t].b)] /\ Return(t)
       ELSE thr' = [thr EXCEPT ![t].pc = IF sk[s].st = "gone" THEN "idle" ELSE "unsend"] /\ UNCHANGED sk
    /\ IF sk[s].st = "gone" THEN Hole("send_closed") ELSE UNCHANGED holes
    /\ UNCHANGED <<kload, hfd, peer_lock, naming, scm, restart>>
Without(q, k) == SelectSeq(q, LAMBDA x : x # k)
\* The error path: out of the list if there still is one, and free.
out_free_scm(t) ==
    LET s == thr[t].a  k == thr[t].b IN
    /\ In(t, "unsend") /\ peer_lock = NULL
    /\ IF sk[s].st = "gone" THEN Hole("send_closed") /\ UNCHANGED <<sk, scm>>
       ELSE /\ sk' = IF sk[s].peer = NULL THEN sk ELSE [sk EXCEPT ![sk[s].peer].unix_scm = Without(@, k)]
            /\ scm' = [scm EXCEPT ![k] = "freed"]
            /\ IF scm[k] # "queued" THEN Hole("scm_twice") ELSE UNCHANGED holes
    /\ Return(t)
    /\ UNCHANGED <<kload, hfd, peer_lock, naming, restart>>
\* Other data has number 0.
sys_sendto(t, s) ==
    /\ Call(t, "sendto") /\ s \in Own(t) /\ sk[s].other # NULL /\ ~sk[s].shut /\ Return(t)
    /\ sk' = IF Connected(s) THEN [sk EXCEPT ![sk[s].other].chan = Append(@, 0)] ELSE sk
    /\ UNCHANGED <<kload, hfd, peer_lock, naming, scm, restart, holes>>
\* The sending side.
sys_shutdown(t, s) ==
    /\ Call(t, "shutdown") /\ s \in Own(t) /\ sk[s].other # NULL /\ Return(t)
    /\ sk' = [sk EXCEPT ![s].shut = TRUE]
    /\ UNCHANGED <<kload, hfd, peer_lock, naming, scm, restart, holes>>
Eof(s) == ~Connected(s) \/ sk[sk[s].other].shut
\* recvmsg with room for control data: the dummy stands for the first in the list.
\* When there is too little room, or none in the table, they are closed.
sys_recvmsg(t, s) ==
    LET k == Head(sk[s].chan) IN
    IF k = 0 \/ sk[s].unix_scm = <<>>
    THEN sk' = [sk EXCEPT ![s].chan = Tail(@)] /\ UNCHANGED <<scm, holes>>
    ELSE /\ \E end \in {"received"} \cup (IF kload.full THEN {"freed"} ELSE {}) :
              scm' = [scm EXCEPT ![Head(sk[s].unix_scm)] = end]
         /\ sk' = [sk EXCEPT ![s].chan = Tail(@), ![s].unix_scm = Tail(@)]
         /\ IF k # Head(sk[s].unix_scm) THEN Hole("mixed") ELSE UNCHANGED holes
\* Without, the host drops the dummy, and the list stays as it is.
sys_recvfrom(s) ==
    /\ sk' = [sk EXCEPT ![s].chan = Tail(@)] /\ UNCHANGED scm
    /\ IF Head(sk[s].chan) # 0 THEN Hole("dropped") ELSE UNCHANGED holes
sys_recv(t, s) ==
    /\ \E kind \in {"recvmsg", "recvfrom"} : Call(t, kind) /\ Goto(t, "recv", s, kind)
    /\ s \in Own(t) /\ sk[s].other # NULL
    /\ UNCHANGED <<kload, sk, hfd, peer_lock, naming, scm, restart, holes>>
\* The host is never asked to wait: another thread may have been faster.
recv(t) ==
    LET s == thr[t].a IN
    /\ In(t, "recv")
    /\ IF sk[s].st = "gone" THEN Hole("recv_closed") /\ Return(t) /\ UNCHANGED <<sk, scm>>
       ELSE IF sk[s].chan # <<>>
       THEN (IF thr[t].b = "recvmsg" THEN sys_recvmsg(t, s) ELSE sys_recvfrom(s)) /\ Return(t)
       ELSE IF Eof(s) \/ kload.nonblock THEN Return(t) /\ UNCHANGED <<sk, scm, holes>>
       ELSE Goto(t, "recv_wait", s, thr[t].b) /\ UNCHANGED <<sk, scm, holes>>
    /\ UNCHANGED <<kload, hfd, peer_lock, naming, restart>>
\* Ready, the end of the time set with SO_RCVTIMEO, or a signal.  poll does not
\* mind that the descriptor is closed, or is another by now.
sock_wait_for(t) ==
    LET s == thr[t].a IN
    /\ In(t, "recv_wait")
    /\ \/ (sk[s].st # "gone" => (sk[s].chan # <<>> \/ Eof(s))) /\ Goto(t, "recv", s, thr[t].b)
       \/ (kload.signals \/ kload.timeout) /\ Return(t)
    /\ UNCHANGED <<kload, sk, hfd, peer_lock, naming, scm, restart, holes>>
------------------------------------------------------------------------------
\* The last reference to a socket: sock_close, in three parts.
fd_close(t, s) ==
    /\ Call(t, "close") /\ s \in Own(t)
    /\ IF sk[s].refs > 1
       THEN sk' = [sk EXCEPT ![s].refs = @ - 1, ![s].of = NULL] /\ Return(t)
       ELSE sk' = [sk EXCEPT ![s].refs = 0, ![s].of = NULL, ![s].st = "closing"] /\ Goto(t, "end_listen", s, NULL)
    /\ UNCHANGED <<kload, hfd, peer_lock, naming, scm, restart, holes>>
sockrestart_end_listen(t) ==
    LET s == thr[t].a  n == sk[s].name IN
    /\ In(t, "end_listen") /\ sockrestart_lock = NULL
    /\ listen_fds' = Without(listen_fds, s)
    /\ names' = IF n = NULL THEN names ELSE unix_abstract_release(n)
    /\ inode' = inode_release(sk[s].ino)
    /\ Goto(t, "unpeer", s, NULL)
    /\ UNCHANGED <<kload, sk, hfd, peer_lock, leaked, file, next_id, scm, sockrestart_lock, saved, awake, holes>>
\* Mutant: the peer keeps its pointer.
sock_unpeer_kept(t) ==
    /\ In(t, "unpeer") /\ peer_lock = NULL /\ Goto(t, "free", thr[t].a, NULL)
    /\ UNCHANGED <<kload, sk, hfd, peer_lock, naming, scm, restart, holes>>
sock_unpeer(t) ==
    LET s == thr[t].a IN
    /\ In(t, "unpeer") /\ peer_lock = NULL
    /\ sk' = IF sk[s].peer = NULL THEN sk ELSE [sk EXCEPT ![sk[s].peer].peer = NULL]
    /\ Goto(t, "free", s, NULL)
    /\ UNCHANGED <<kload, hfd, peer_lock, naming, scm, restart, holes>>
sock_close(t) ==
    LET s == thr[t].a IN
    /\ In(t, "free")
    /\ scm' = [k \in DOMAIN scm |-> IF \E i \in DOMAIN sk[s].unix_scm : sk[s].unix_scm[i] = k
                                     THEN "freed" ELSE scm[k]]
    /\ hfd' = [hfd EXCEPT ![sk[s].real] = NULL]
    /\ sk' = [sk EXCEPT ![s] = [Unused EXCEPT !.st = "gone"]]
    /\ IF sk[s].refs > 0 THEN Hole("saved_freed") ELSE UNCHANGED holes
    /\ Return(t)
    /\ UNCHANGED <<kload, peer_lock, naming, restart>>
------------------------------------------------------------------------------
Listed(s) == \E i \in DOMAIN listen_fds : listen_fds[i] = s
sockrestart_on_suspend ==
    /\ kload.sleeps /\ awake /\ sockrestart_lock = NULL /\ saved = {} /\ awake' = FALSE
    /\ saved' = {s \in Socks : Listed(s)}
    /\ sk' = [s \in Socks |-> IF Listed(s) THEN [sk[s] EXCEPT !.refs = @ + 1, !.host = "dead", !.backlog = <<>>] ELSE sk[s]]
    /\ UNCHANGED <<kload, thr, hfd, peer_lock, naming, scm, sockrestart_lock, listen_fds, holes>>
\* New sockets of the host are bound to the names.  All with the lock held, also
\* when this is the last reference, which needs it.
sockrestart_on_resume ==
    LET last == {s \in saved : sk[s].refs = 1 /\ sk[s].of = NULL} IN
    /\ ~awake /\ sockrestart_lock = NULL /\ awake' = TRUE /\ saved' = {}
    /\ sk' = [s \in Socks |-> IF s \in saved /\ sk[s].st # "gone"
                              THEN [sk[s] EXCEPT !.refs = @ - 1, !.host = "rebound"] ELSE sk[s]]
    /\ IF last = {} THEN UNCHANGED <<sockrestart_lock, holes>>
       ELSE sockrestart_lock' = "resume" /\ Hole("resume_locked")
    /\ thr' = [t \in Sockers |-> IF In(t, "accept") THEN [thr[t] EXCEPT !.b = TRUE] ELSE thr[t]]
    /\ UNCHANGED <<kload, hfd, peer_lock, naming, scm, listen_fds>>

\* What a thread may call, on the sockets of its own.
Calls(t) ==
    \/ sys_socket(t) \/ sys_socketpair(t)
    \/ \E s \in Own(t) :
         \/ sys_listen(t, s) \/ sys_accept(t, s) \/ sys_sendmsg(t, s) \/ sys_recv(t, s) \/ fd_close(t, s)
         \/ sys_sendto(t, s) \/ sys_shutdown(t, s)
         \/ \E n \in Names : sys_bind(t, s, n) \/ bind_path(t, s, n) \/ sys_connect(t, s, n)
    \/ \E n \in Names : unlink(t, n)
Thread(t) ==
    \/ Idle(t) /\ Calls(t)
    \/ close_again(t)
    \/ connect_write(t) \/ connect_wait(t) \/ accept_host(t) \/ accept_lock(t) \/ accept_peer(t)
    \/ sendmsg_host(t) \/ out_free_scm(t) \/ recv(t) \/ sock_wait_for(t) \/ bind_mknod(t)
    \/ sockrestart_end_listen(t) \/ sock_unpeer(t) \/ sock_close(t)
Next == sockrestart_on_suspend \/ sockrestart_on_resume \/ \E t \in Sockers : Thread(t)
Init ==
    /\ kload \in SockLoads
    /\ thr = [t \in Sockers |-> [pc |-> "idle", a |-> NULL, b |-> NULL, left |-> kload.left[t]]]
    /\ sk = [s \in Socks |-> Unused] /\ hfd = [n \in Socks |-> NULL]
    /\ peer_lock = NULL /\ sockrestart_lock = NULL
    /\ names = [n \in Names |-> [refs |-> 0, id |-> 0]] /\ leaked = [n \in Names |-> 0]
    /\ file = [n \in Names |-> NULL] /\ inode = <<>> /\ next_id = 1
    /\ scm = <<>> /\ listen_fds = <<>> /\ saved = {} /\ awake = TRUE /\ holes = {}
Spec == Init /\ [][Next]_vars
------------------------------------------------------------------------------
\* What SO_PEERCRED says of the other end, NULL for nothing.
peercred(s) == IF sk[s].peer = NULL THEN NULL ELSE sk[sk[s].peer].cred
\* Two sockets point at each other or not at all, and never at a freed one, and
\* when connect and accept joined them each knows whom the other belongs to
\* (sys_connect, sys_accept, sock_close).
PeersSound ==
    \A s \in Socks : sk[s].peer # NULL =>
        \/ sk[sk[s].peer].st \in {"open", "closing"} /\ sk[sk[s].peer].peer = s
           /\ (sk[s].cred = NULL <=> peercred(s) = NULL)
        \/ \E t \in Sockers : In(t, "free") /\ thr[t].a = s    \* does not look any more
\* Descriptors in flight are in one list, or the error path has them, until they
\* are received or freed; and each message brings those it was sent with, unless
\* another was read without its own or two threads sent at once.
ScmOnce ==
    /\ \A k \in DOMAIN scm :
         Cardinality({<<s, i>> \in Socks \X (1 .. Len(scm)) : i \in DOMAIN sk[s].unix_scm /\ sk[s].unix_scm[i] = k})
            = IF scm[k] = "queued" THEN 1 ELSE 0
    /\ "mixed" \in holes => "dropped" \in holes \/ \E t, u \in Sockers : t # u /\ kload.proc[t] = kload.proc[u]
\* The references to a name are those of the sockets bound to it and the leaked.
NamesExact ==
    \A n \in Names :
        names[n].refs = leaked[n] + Cardinality({s \in Socks : sk[s].name = n
                     /\ ~\E t \in Sockers : thr[t].pc \in {"unpeer", "free"} /\ thr[t].a = s})
\* A name leads to the socket that was bound to it, and to no other: the number of
\* a file does not change while the socket bound to it is open (unix_socket_get).
AddressesExact ==
    /\ \A s, x \in Socks : s # x /\ sk[s].st = "open" /\ sk[x].st = "open" /\ sk[s].addr # 0 => sk[s].addr # sk[x].addr
    /\ \A n \in Names, s \in Socks : sk[s].st = "open" =>
         /\ sk[s].ino # NULL /\ file[n] = sk[s].ino => sockaddr_read(n) = sk[s].addr
         /\ sk[s].name = n => sockaddr_read(n) = sk[s].addr
\* A thread that waits in connect has its request in a queue, or an accept has
\* it, or the listening socket was closed.
ConnectServed ==
    \A t \in Sockers : In(t, "await") /\ sk[thr[t].a].st = "open" /\ sk[thr[t].a].peer = NULL =>
        \/ \E i \in DOMAIN sk[thr[t].b].backlog : sk[thr[t].b].backlog[i].from = thr[t].a
        \/ \E u \in Sockers : thr[u].pc \in {"accepted", "read"} /\ thr[u].b.from = thr[t].a
        \/ sk[thr[t].b].st # "open" \/ sk[thr[t].b].host # "listen"
        \/ sk[thr[t].a].other # NULL     \* accepted, and closed again
\* What goes wrong goes wrong only in these ways.
KnownHoles == holes \subseteq kload.known

\* Whatever is created, bound, connected, sent, received and closed by whom, and
\* across a suspension: peers, names, addresses and descriptors in flight are
\* right, and what goes wrong is known.
SockSound ==
    PeersSound /\ ScmOnce /\ NamesExact /\ AddressesExact /\ ConnectServed /\ KnownHoles
==============================================================================
