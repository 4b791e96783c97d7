------------------------------ MODULE MCFiles ------------------------------
(* A small filesystem and two tasks that share a table at first, for TLC.  *)
EXTENDS SendFile

CONSTANTS t1, t2, a, b

MCSorted == <<a, b>>

Times(n, kinds) == [i \in 1 .. n |-> kinds]

MCWorkload ==
    { \* two tasks change the same directories
      t1 :> Times(4, {"mkdir", "rename", "unlink"}) @@ t2 :> Times(1, {"rename", "unlink"}),
      t1 :> Times(3, {"open", "link", "rename"}) @@ t2 :> Times(1, {"unlink", "rename"}),
      \* a file is unlinked while it is open, and its descriptors are passed around
      t1 :> Times(3, {"open", "unlink"}) @@ t2 :> Times(2, {"dup", "close", "unlink"}),
      t1 :> <<{"open", "openCloexec"}, {"openCloexec", "fork", "dup3"}, {"fork", "dup3"}>> @@ t2 :> Times(2, {"close", "execve", "unshare"}),
      t1 :> <<{"open", "openCloexec"}, {"open", "setfd"}>> @@ t2 :> Times(2, {"execve", "dup3", "close"}),
      \* at the limit
      t1 :> Times(2, {"pipe"}) @@ t2 :> <<{"open", "prlimit"}, {"close"}>>,
      t1 :> <<{"open"}, {"send"}, {"send", "close"}, {"close", "unlink"}>>
        @@ t2 :> <<{"prlimit", "fork", "recv"}, {"recv"}>>,
      \* two tasks list a directory that may change
      t1 :> <<{"mkdir"}, {"open"}, {"dup", "fork"}, {"getdents"}, {"getdents"}>>
        @@ t2 :> <<{"getdents"}, {"mkdir", "unlink", "close"}>>,
      \* copies between a file and a pipe, with other readers, writers and closers
      t1 :> <<{"open"}, {"write"}, {"pipe"}, {"lseek", "fork"}, {"sendfile", "splice"}>>
        @@ t2 :> <<{"read", "dup3", "splice", "ftruncate"}>>,
      t1 :> <<{"pipe"}, {"write"}, {"open"}, {"splice"}>>
        @@ t2 :> <<{"write", "read", "dup3", "close", "splice"}>>,
      t1 :> <<{"open"}, {"write"}, {"open"}, {"copy"}>> @@ t2 :> <<{"pwrite", "lseek", "read"}>> }
=============================================================================
