------------------------------- MODULE Files -------------------------------
(***************************************************************************)
(* File descriptors (api/src/file/mod.rs, syscall/fs/fd_ops.rs, pipe2, the *)
(* close-on-exec of execve, SCM_RIGHTS and RLIMIT_NOFILE) over the         *)
(* filesystem of Tmpfs: open files keep the nodes of their inodes,         *)
(* wherever their descriptors are.                                         *)
(*                                                                         *)
(* The lock of a table is held for one step; dup, open, pipe2, sendmsg and *)
(* recvmsg take it again for the next.                                     *)
(***************************************************************************)
EXTENDS Tmpfs

CONSTANTS
    Table,     \* file descriptor tables
    File,      \* open files (a bound)
    LIMIT,     \* AX_FILE_LIMIT
    RIGHTS,    \* how many files a message carries (a bound)
    Workload   \* of each task the kinds of call it may make next, in the cases
               \* looked at (a bound)

ASSUME FilesAssumption == {LIMIT, RIGHTS} \subseteq Nat /\ None \notin File

Fd == 0 .. LIMIT - 1

VARIABLES
    fd_table,  \* of each table, from descriptors to [inner, cloexec]
    scope,     \* the table each task uses
    file,      \* of each open file: [kind, ino, off, peer]; off is where a File or a
               \* Directory goes on, peer the read end of a pipe's write end
    call,      \* the call each task is in: [at, files, cloexec, fd, room], with the
               \* files it has in hand
    mail,      \* the messages in a socket: the files each carries
    rlim,      \* the RLIMIT_NOFILE of each task's process: [current, max]
    listing,   \* of each open directory, the names getdents64 gave so far and
               \* whether its entries stayed the same meanwhile
    panics,    \* the tasks that ran into an unwrap() of None
    load       \* what each task may still call

fdVars == <<fd_table, scope, file, call, mail, rlim, panics>>
vars == <<tmpVars, fdVars, listing, load>>

Closed == [kind |-> "closed", ino |-> None, off |-> 0, peer |-> None]
NoCall == [at |-> "idle", files |-> <<>>, cloexec |-> FALSE, fd |-> None, room |-> 0]
NoListing == [names |-> <<>>, calm |-> TRUE]

\* Rlimits::default.
Rlimit == [current |-> LIMIT, max |-> LIMIT]

Init ==
    /\ TmpfsInit
    /\ fd_table = [x \in Table |-> Empty]
    /\ scope = [t \in Task |-> CHOOSE x \in Table : TRUE]
    /\ panics = {}
    /\ file = [f \in File |-> Closed]
    /\ call = [t \in Task |-> NoCall]
    /\ mail = <<>>
    /\ rlim = [t \in Task |-> Rlimit]
    /\ listing = [f \in File |-> NoListing]
    /\ load \in Workload

\* t is in no call.
Ready(t) == call[t] = NoCall /\ rename[t] = Idle /\ panics = {}

\* Mutant: the files in the hands of a call do not count.
ReferencedByTables(tables, calls, mails) ==
    {tables[y[1]][y[2]].inner : y \in {y \in Table \X Fd : y[2] \in DOMAIN tables[y[1]]}}
        \cup UNION {Range(m) : m \in Range(mails)}

\* The open files with a descriptor in tables, in the hands of a call, or in a message.
Referenced(tables, calls, mails) ==
    {tables[y[1]][y[2]].inner : y \in {y \in Table \X Fd : y[2] \in DOMAIN tables[y[1]]}}
        \cup UNION {Range(calls[t].files) : t \in Task}
        \cup UNION {Range(m) : m \in Range(mails)}

\* The last Arc of an open file closes it and lets its node go.
Reap(tables, calls) ==
    LET gone == {f \in File : file[f] # Closed /\ f \notin Referenced(tables, calls, mail)}
    IN  /\ fd_table' = tables
        /\ call' = calls
        /\ file' = [f \in File |-> IF f \in gone THEN Closed ELSE file[f]]
        /\ held' = [i \in Ino |-> held[i] - Cardinality({f \in gone : file[f].ino = i})]
        /\ UNCHANGED <<mail, inodes, node, rename>>

-----------------------------------------------------------------------------
(* The table.                                                              *)

\* FlattenObjects::add takes the first descriptor that is free.
FirstFree(x) == CHOOSE fd \in Fd \ DOMAIN fd_table[x] :
                    \A other \in Fd \ DOMAIN fd_table[x] : fd <= other

Full(t) ==
    LET open == DOMAIN fd_table[scope[t]]
    IN  Cardinality(open) >= rlim[t].current \/ Fd \subseteq open

At(x, fd, entry) == [fd_table EXCEPT ![x] = (fd :> entry) @@ @]
Without(x, fds) == [fd_table EXCEPT ![x] = Restrict(@, DOMAIN @ \ fds)]

\* add_file_like for the file in hand; pipe2 goes on with its write end.
AddFileLike(t) ==
    /\ call[t].at \in {"add", "addRead"}
    /\ LET x == scope[t]
           c == call[t]
       IN  IF Full(t)
           THEN Reap(fd_table, [call EXCEPT ![t] = NoCall])
           ELSE Reap(At(x, FirstFree(x), [inner |-> Head(c.files), cloexec |-> c.cloexec]),
                     [call EXCEPT ![t] = IF c.at = "add" THEN NoCall
                                         ELSE [c EXCEPT !.at = "addWrite", !.files = Tail(@),
                                                        !.fd = FirstFree(x)]])
    /\ UNCHANGED <<scope, rlim, panics>>

\* The write end of pipe2.  When there is no room, whatever is at read_fd by now is
\* closed: close_file_like(read_fd).unwrap().
AddWriteEnd(t) ==
    /\ call[t].at = "addWrite"
    /\ LET x == scope[t]
           done == [call EXCEPT ![t] = NoCall]
       IN  IF Full(t)
           THEN /\ panics' = IF call[t].fd \in DOMAIN fd_table[x] THEN panics ELSE panics \cup {t}
                /\ Reap(Without(x, {call[t].fd}), done)
           ELSE /\ Reap(At(x, FirstFree(x), [inner |-> Head(call[t].files), cloexec |-> call[t].cloexec]),
                        done)
                /\ UNCHANGED panics
    /\ UNCHANGED <<scope, rlim>>

-----------------------------------------------------------------------------
(* The calls.                                                              *)

\* What is neither open nor the end of a pipe that is open at its other end.
Unused == {f \in File : file[f] = Closed /\ \A g \in File : file[g].peer # f}

\* An open file f on inode i is in t's hands.
OpenFile(t, f, i, type, cloexec) ==
    /\ Ready(t)
    /\ Takes(f, Unused)
    /\ file' = [file EXCEPT ![f] = [Closed EXCEPT !.kind = type, !.ino = i]]
    /\ call' = [call EXCEPT ![t] = [NoCall EXCEPT !.at = "add", !.files = <<f>>,
                                                  !.cloexec = cloexec]]
    /\ UNCHANGED <<fd_table, scope, mail, rlim, panics, rename>>

\* sys_openat of name n in d: an inode that is there, or O_CREAT makes i.
Openat(t, f, d, n, cloexec) ==
    \/ /\ d \in Usable /\ n \in DOMAIN inodes[d].entries
       /\ LET i == inodes[d].entries[n]
          IN  OpenFile(t, f, i, inodes[i].type, cloexec) /\ Hold({i})
       /\ UNCHANGED <<inodes, node>>
    \/ \E i \in Ino :
        /\ Create(d, n, i, "file")
        /\ OpenFile(t, f, i, "file", cloexec)
        /\ Hold({i})

\* sys_pipe2: the read end f and the write end g.
Pipe2(t, f, g, cloexec) ==
    /\ Ready(t)
    /\ Takes(f, Unused) /\ Takes(g, Unused \ {f})
    /\ file' = [file EXCEPT ![f].kind = "read", ![g] = [@ EXCEPT !.kind = "write", !.peer = f]]
    /\ call' = [call EXCEPT ![t] = [NoCall EXCEPT !.at = "addRead", !.files = <<f, g>>,
                                                  !.cloexec = cloexec]]
    /\ UNCHANGED <<fd_table, scope, mail, rlim, panics, tmpVars>>

\* dup_fd: the file is taken from the table, then added.
Dup(t, fd, cloexec) ==
    /\ Ready(t)
    /\ fd \in DOMAIN fd_table[scope[t]]
    /\ call' = [call EXCEPT ![t] = [NoCall EXCEPT !.at = "add", !.cloexec = cloexec,
                                                       !.files = <<fd_table[scope[t]][fd].inner>>]]
    /\ UNCHANGED <<fd_table, scope, file, mail, rlim, panics, tmpVars>>

\* sys_dup3: the file at new is closed, and no limit is asked.
Dup3(t, fd, new, cloexec) ==
    /\ Ready(t)
    /\ fd # new /\ fd \in DOMAIN fd_table[scope[t]]
    /\ Reap(At(scope[t], new, [fd_table[scope[t]][fd] EXCEPT !.cloexec = cloexec]), call)
    /\ UNCHANGED <<scope, rlim, panics>>

\* sys_close, and sys_close_range of the descriptors of a range.
CloseRange(t, first, last) ==
    /\ Ready(t)
    /\ Reap(Without(scope[t], first .. last), call)
    /\ UNCHANGED <<scope, rlim, panics>>

\* F_SETFD, and sys_close_range with CLOEXEC.
SetCloexec(t, first, last, cloexec) ==
    /\ Ready(t)
    /\ fd_table' = [fd_table EXCEPT ![scope[t]] =
            [fd \in DOMAIN @ |-> IF fd \in first .. last THEN [@[fd] EXCEPT !.cloexec = cloexec]
                                 ELSE @[fd]]]
    /\ UNCHANGED <<scope, file, call, mail, rlim, panics, tmpVars>>

\* sys_close_range with UNSHARE asks for the write lock of the scope, whose read
\* lock a task holds for as long as it runs (on_enter): the call never returns.
CloseRangeUnshare(t) ==
    /\ Ready(t)
    /\ call' = [call EXCEPT ![t].at = "stuck"]
    /\ UNCHANGED <<fd_table, scope, file, mail, rlim, panics, tmpVars>>

\* sys_execve closes what is close-on-exec, for everyone who shares the table.
Execve(t) ==
    /\ Ready(t)
    /\ LET x == scope[t]
       IN  Reap(Without(x, {fd \in DOMAIN fd_table[x] : fd_table[x][fd].cloexec}), call)
    /\ UNCHANGED <<scope, rlim, panics>>

\* sys_clone without CLONE_FILES: u goes on with a copy y of the table, and as a
\* process with the default limits.
Fork(t, u, y) ==
    /\ Ready(t) /\ u # t /\ Ready(u)
    /\ scope[u] = scope[t] /\ \A v \in Task : scope[v] # y
    /\ fd_table' = [fd_table EXCEPT ![y] = fd_table[scope[t]]]
    /\ scope' = [scope EXCEPT ![u] = y]
    /\ rlim' = [rlim EXCEPT ![u] = Rlimit]
    /\ UNCHANGED <<file, call, mail, panics, tmpVars>>

\* sys_prlimit64 by t for the process of u.  A limit above the maximum is left.
Prlimit(t, u, current, max) ==
    /\ Ready(t)
    /\ current <= max /\ max <= rlim[u].max
    /\ rlim' = [rlim EXCEPT ![u] = [current |-> current, max |-> max]]
    /\ UNCHANGED <<fd_table, scope, file, call, mail, panics, tmpVars>>

Mkdirat(t, d, n) ==
    /\ Ready(t)
    /\ \E i \in Ino : Create(d, n, i, "dir")
    /\ UNCHANGED <<fdVars, held, rename>>

Linkat(t, d, n) == Ready(t) /\ (\E i \in Used : Link(d, n, i)) /\ UNCHANGED fdVars

Unlinkat(t, d, n) == Ready(t) /\ Unlink(d, n) /\ UNCHANGED fdVars

Renameat2(t, d, n) ==
    /\ Ready(t)
    /\ \E e \in Usable, m \in Name : RenameCheck(t, d, n, e, m)
    /\ UNCHANGED fdVars

-----------------------------------------------------------------------------
(* Files in messages (SCM_RIGHTS).                                         *)

\* CMsg::parse takes one file after the other from the table.
ParseFd(t, fd) ==
    /\ call[t].at = "parse" \/ Ready(t)
    /\ Len(call[t].files) < RIGHTS
    /\ IF fd \in DOMAIN fd_table[scope[t]]
       THEN /\ call' = [call EXCEPT ![t].at = "parse",
                                    ![t].files = Append(@, fd_table[scope[t]][fd].inner)]
            /\ UNCHANGED <<fd_table, file, mail, tmpVars>>
       ELSE Reap(fd_table, [call EXCEPT ![t] = NoCall])
    /\ UNCHANGED <<scope, rlim, panics>>

\* sys_sendmsg: the files go with the message, or with the error of the socket.
Sendmsg(t) ==
    /\ call[t].at = "parse"
    /\ \/ /\ mail' = Append(mail, call[t].files)
          /\ call' = [call EXCEPT ![t] = NoCall]
          /\ UNCHANGED <<fd_table, file, tmpVars>>
       \/ Reap(fd_table, [call EXCEPT ![t] = NoCall])
    /\ UNCHANGED <<scope, rlim, panics>>

\* sys_recvmsg with room for so many descriptors (none for sys_recvfrom).
Recvmsg(t, room) ==
    /\ Ready(t)
    /\ mail # <<>>
    /\ mail' = Tail(mail)
    /\ call' = [call EXCEPT ![t] = [NoCall EXCEPT !.at = "recv", !.files = Head(mail),
                                                  !.room = room]]
    /\ UNCHANGED <<fd_table, scope, file, rlim, panics, tmpVars>>

\* CMsgBuilder has room for another file of the message.
Pushes(t) == call[t].files # <<>> /\ call[t].room > 0

\* The next file is added, or the rest is dropped: there is no room in the buffer, or
\* none in the table.
RecvFd(t) ==
    /\ call[t].at = "recv"
    /\ IF Pushes(t) /\ ~Full(t)
       THEN Reap(At(scope[t], FirstFree(scope[t]), [inner |-> Head(call[t].files), cloexec |-> FALSE]),
                 [call EXCEPT ![t].files = Tail(@), ![t].room = @ - 1])
       ELSE Reap(fd_table, [call EXCEPT ![t] = NoCall])
    /\ UNCHANGED <<scope, rlim, panics>>

-----------------------------------------------------------------------------
(* Listing a directory.                                                    *)

\* Mutant: an entry that does not fit is passed over.
FitsSkips(rest, room) ==
    IF room < Len(rest) THEN [given |-> SubSeq(rest, 1, room), off |-> room + 1]
    ELSE [given |-> rest, off |-> Len(rest)]

\* DirBuffer takes the entries that fit, and the offset follows them.
Fits(rest, room) ==
    IF room < Len(rest) THEN [given |-> SubSeq(rest, 1, room), off |-> room]
    ELSE [given |-> rest, off |-> Len(rest)]

\* sys_getdents64 with room for so many entries; not even one is an error.
Getdents(t, fd, room) ==
    /\ Ready(t)
    /\ fd \in DOMAIN fd_table[scope[t]]
    /\ LET f == fd_table[scope[t]][fd].inner
           rest == ReadDir(file[f].ino, file[f].off)
       IN  /\ file[f].kind = "dir"
           /\ file' = [file EXCEPT ![f].off = @ + Fits(rest, room).off]
           /\ listing' = [listing EXCEPT ![f].names = @ \o Fits(rest, room).given]
    /\ UNCHANGED <<fd_table, scope, call, mail, rlim, panics, tmpVars>>

\* What the other steps do to the listings.
Listed ==
    listing' = [f \in File |->
        IF file[f].kind # "dir" \/ file'[f] = Closed THEN NoListing
        ELSE [listing[f] EXCEPT !.calm = @ /\ (listing[f].names = <<>>
                  \/ inodes'[file[f].ino].entries = inodes[file[f].ino].entries)]]

-----------------------------------------------------------------------------
May(t, k) ==
    /\ load[t] # <<>>
    /\ k \in Head(load[t])
    /\ load' = [load EXCEPT ![t] = Tail(@)]

FdCall(t) ==
    \/ \E f \in File, d \in Ino, n \in Name :
        \/ May(t, "open") /\ Openat(t, f, d, n, FALSE)
        \/ May(t, "openCloexec") /\ Openat(t, f, d, n, TRUE)
    \/ \E f, g \in File : May(t, "pipe") /\ Pipe2(t, f, g, FALSE)
    \/ \E fd \in Fd : May(t, "dup") /\ Dup(t, fd, FALSE)
    \/ \E fd, new \in Fd : May(t, "dup3") /\ Dup3(t, fd, new, FALSE)
    \/ \E a, b \in Fd : a <= b /\ May(t, "close") /\ CloseRange(t, a, b)
    \/ \E a, b \in Fd : a <= b /\ May(t, "setfd") /\ SetCloexec(t, a, b, TRUE)
    \/ May(t, "unshare") /\ CloseRangeUnshare(t)
    \/ May(t, "execve") /\ Execve(t)
    \/ \E u \in Task, y \in Table : May(t, "fork") /\ Fork(t, u, y)
    \/ \E u \in Task, n, m \in 0 .. LIMIT : May(t, "prlimit") /\ Prlimit(t, u, n, m)
    \/ \E fd \in Fd : May(t, "send") /\ ParseFd(t, fd)
    \/ \E room \in 0 .. RIGHTS : May(t, "recv") /\ Recvmsg(t, room)

PathCall(t) ==
    \E d \in Ino, n \in Name :
        \/ May(t, "mkdir") /\ Mkdirat(t, d, n)
        \/ May(t, "link") /\ Linkat(t, d, n)
        \/ May(t, "unlink") /\ Unlinkat(t, d, n)
        \/ May(t, "rename") /\ Renameat2(t, d, n)

KernelStep(t) ==
    /\ \/ AddFileLike(t) \/ AddWriteEnd(t) \/ Sendmsg(t) \/ RecvFd(t)
       \/ RenameStep(t) /\ UNCHANGED fdVars
    /\ UNCHANGED load

Next ==
    \/ \E t \in Task : (FdCall(t) \/ PathCall(t) \/ KernelStep(t)) /\ Listed
    \/ \E i \in Ino : DropNode(i) /\ UNCHANGED <<fdVars, load>> /\ Listed
    \/ \E t \in Task, fd \in Fd : May(t, "getdents") /\ \E room \in 1 .. Len(Sorted) + 2 : Getdents(t, fd, room)

Spec == Init /\ [][Next]_vars

-----------------------------------------------------------------------------
(* Properties.                                                             *)

\* What a descriptor, a call under way or a message refers to is open, and what is open
\* keeps its inode: the holders of an inode are the open files on it and the renames
\* under way, however dup, fork, close, execve, a failed open and a message that finds
\* no room share and drop them.
HeldByOpenFiles ==
    /\ \A x \in Table : \A fd \in DOMAIN fd_table[x] : file[fd_table[x][fd].inner] # Closed
    /\ \A t \in Task : \A f \in Range(call[t].files) : file[f] # Closed
    /\ \A m \in Range(mail) : \A f \in Range(m) : file[f] # Closed
    /\ \A i \in Ino \ {Root} : held[i] =
        Cardinality({f \in File : file[f].ino = i})
          + Cardinality({t \in Task : rename[t] # Idle /\ i \in {rename[t].from, rename[t].to}})

\* The getdents64 calls on an open directory, whoever makes them and through whichever
\* descriptor, together give every entry once and in order, up to where the directory
\* goes on, as long as its entries stay the same.
ListedOnce ==
    \A f \in File : file[f].kind = "dir" /\ listing[f].calm =>
        listing[f].names = SubSeq(ReadDir(file[f].ino, 0), 1, file[f].off)
=============================================================================
