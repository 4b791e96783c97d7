------------------------------ MODULE SendFile ------------------------------
(***************************************************************************)
(* Reading and writing through descriptors (api/src/syscall/fs/io.rs):     *)
(* read, write, lseek, ftruncate and pwrite64, and the loop do_send that   *)
(* sendfile, copy_file_range and splice copy with, between the files of    *)
(* Files.                                                                  *)
(*                                                                         *)
(* A read or a write of a regular file is one step, under the lock of its  *)
(* offset (axfs); the pipe is the one of api/src/file/pipe.rs, as a queue. *)
(***************************************************************************)
EXTENDS Files

CONSTANTS
    CHUNK,   \* the buffer of do_send, 0x1000
    LEN,     \* how much a call asks for (a bound)
    CAP      \* the capacity of a pipe

ASSUME SendFileAssumption == {CHUNK, LEN, CAP} \subseteq Nat \ {0}

VARIABLES
    data,    \* the bytes of each inode
    pipe,    \* the bytes in the pipe of each read end
    send     \* the copy each task makes, or made last, and what it took and put:
             \* [in, out, has_pipe, len, chunk, wrote, total, ok, got, put]

ioVars == <<data, pipe, send>>
sendVars == <<vars, ioVars>>

NoSend == [in |-> None, out |-> None, has_pipe |-> FALSE, len |-> 0, chunk |-> <<>>,
           wrote |-> 0, total |-> 0, ok |-> TRUE, got |-> <<>>, put |-> <<>>]

SendInit ==
    /\ Init
    /\ data = [i \in Ino |-> <<>>]
    /\ pipe = [f \in File |-> <<>>]
    /\ send = [t \in Task |-> NoSend]

Prefix(s, n) == SubSeq(s, 1, IF n < Len(s) THEN n ELSE Len(s))
Suffix(s, n) == SubSeq(s, n + 1, Len(s))

\* s with bytes from position off on; there are zeros where a write leaves a hole.
Overwrite(s, off, bytes) ==
    [k \in 1 .. (IF off + Len(bytes) > Len(s) THEN off + Len(bytes) ELSE Len(s)) |->
        IF k \in off + 1 .. off + Len(bytes) THEN bytes[k - off]
        ELSE IF k <= Len(s) THEN s[k] ELSE <<None, 0, 0>>]

FileAt(t, fd) == fd_table[scope[t]][fd].inner
Has(t, fd) == fd \in DOMAIN fd_table[scope[t]]

\* The bytes a task writes in a call of its own are like no others.
NewBytes(t, n) == [k \in 1 .. n |-> <<t, Len(load[t]), k>>]

-----------------------------------------------------------------------------
(* FileLike::read and FileLike::write; off is None where the offset of the *)
(* file itself is used (SendFile::Direct).                                 *)

\* What is left to read in f.
Rest(f, off) ==
    IF file[f].kind = "file" THEN Suffix(data[file[f].ino], IF off = None THEN file[f].off ELSE off)
    ELSE pipe[f]

\* SendFile::has_data: a regular file always polls readable.
HasData(f) == file[f].kind = "file" \/ (file[f].kind = "read" /\ pipe[f] # <<>>)

NoWriter(f) == \A g \in File : file[g].peer # f

ReadFrom(f, off, bytes) ==
    /\ file' = IF file[f].kind = "file" /\ off = None
               THEN [file EXCEPT ![f].off = @ + Len(bytes)] ELSE file
    /\ pipe' = IF file[f].kind = "read" THEN [pipe EXCEPT ![f] = Suffix(@, Len(bytes))] ELSE pipe

\* How many of the bytes f takes at once.
Accepts(f, bytes) ==
    CASE file[f].kind = "file" -> Len(bytes)
      [] file[f].kind = "write" -> Len(Prefix(bytes, CAP - Len(pipe[file[f].peer])))
      [] OTHER -> 0

\* A write fails for the wrong kind of file, and without a reader.
Refuses(f) ==
    \/ file[f].kind \notin {"file", "write"}
    \/ file[f].kind = "write" /\ file[file[f].peer] = Closed

WriteTo(f, off, bytes) ==
    LET i == file[f].ino
        at == IF off = None THEN file[f].off ELSE off
    IN  /\ data' = IF file[f].kind = "file" THEN [data EXCEPT ![i] = Overwrite(@, at, bytes)] ELSE data
        /\ pipe' = IF file[f].kind = "write" THEN [pipe EXCEPT ![file[f].peer] = @ \o bytes] ELSE pipe
        /\ file' = IF file[f].kind = "file" /\ off = None
                   THEN [file EXCEPT ![f].off = @ + Len(bytes)] ELSE file

\* A step that leaves the tables and the filesystem alone.
IoStep == UNCHANGED <<fd_table, scope, mail, rlim, listing, panics, tmpVars>>

-----------------------------------------------------------------------------
(* One read or write.                                                      *)

\* sys_read and sys_readv; the read of an empty pipe waits for a writer.
Read(t, fd, n) ==
    /\ Ready(t) /\ Has(t, fd)
    /\ LET f == FileAt(t, fd)
       IN  /\ file[f].kind \in {"file", "read"}
           /\ file[f].kind = "read" => pipe[f] # <<>> \/ NoWriter(f)
           /\ ReadFrom(f, None, Prefix(Rest(f, None), n))
    /\ IoStep /\ UNCHANGED <<call, data, send>>

\* sys_write and sys_writev; a pipe, with O_NONBLOCK, takes what fits.
Write(t, fd, n) ==
    /\ Ready(t) /\ Has(t, fd)
    /\ LET f == FileAt(t, fd)
           bytes == NewBytes(t, n)
       IN  /\ ~Refuses(f) /\ Accepts(f, bytes) > 0
           /\ WriteTo(f, None, Prefix(bytes, Accepts(f, bytes)))
    /\ IoStep /\ UNCHANGED <<call, send>>

Pwrite64(t, fd, off, n) ==
    /\ Ready(t) /\ Has(t, fd)
    /\ file[FileAt(t, fd)].kind = "file"
    /\ WriteTo(FileAt(t, fd), off, NewBytes(t, n))
    /\ IoStep /\ UNCHANGED <<call, send>>

\* sys_lseek to any place up to the end.
Lseek(t, fd, off) ==
    /\ Ready(t) /\ Has(t, fd)
    /\ file[FileAt(t, fd)].kind = "file"
    /\ off <= Len(data[file[FileAt(t, fd)].ino])
    /\ file' = [file EXCEPT ![FileAt(t, fd)].off = off]
    /\ IoStep /\ UNCHANGED <<call, ioVars>>

\* sys_ftruncate to a length that is not longer.
Ftruncate(t, fd, len) ==
    /\ Ready(t) /\ Has(t, fd)
    /\ file[FileAt(t, fd)].kind = "file"
    /\ data' = [data EXCEPT ![file[FileAt(t, fd)].ino] = Prefix(@, len)]
    /\ IoStep /\ UNCHANGED <<file, call, pipe, send>>

-----------------------------------------------------------------------------
(* do_send.                                                                *)

\* The call is over, with its total or an error.
Over(t, ok) ==
    /\ call' = [call EXCEPT ![t].at = "end"]
    /\ send' = [send EXCEPT ![t].ok = ok]

\* The copy starts, or the call is over.
Start(t, f, ok) ==
    IF ok THEN call' = [call EXCEPT ![t].at = "check", ![t].files = Append(@, f)] /\ UNCHANGED send
    ELSE Over(t, FALSE)

\* sys_sendfile (which has no offset for its output) and sys_copy_file_range: the
\* source is in hand.  An offset is for a regular file.
Copy(t, fd, in, out, at) ==
    /\ Ready(t) /\ Has(t, fd)
    /\ in # None => file[FileAt(t, fd)].kind = "file"
    /\ call' = [call EXCEPT ![t] = [NoCall EXCEPT !.at = at, !.files = <<FileAt(t, fd)>>]]
    /\ send' = [send EXCEPT ![t] = [NoSend EXCEPT !.in = in, !.out = out, !.len = LEN]]
    /\ IoStep /\ UNCHANGED <<file, data, pipe>>

\* The destination is in hand, or the call is over.
CopyTo(t, fd) ==
    /\ call[t].at = "copyTo"
    /\ IF Has(t, fd)
       THEN Start(t, FileAt(t, fd), send[t].out # None => file[FileAt(t, fd)].kind = "file")
       ELSE Over(t, FALSE)
    /\ IoStep /\ UNCHANGED <<file, data, pipe>>

\* sys_splice: Pipe::from_fd looks at the source.  With an offset, File::from_fd has it.
Splice(t, fd, in, out) ==
    IF in # None THEN Copy(t, fd, in, out, "spliceTo")
    ELSE /\ Ready(t) /\ Has(t, fd)
         /\ file[FileAt(t, fd)].kind # "write"
         /\ call' = [call EXCEPT ![t] = [NoCall EXCEPT !.at = "spliceIn", !.fd = fd]]
         /\ send' = [send EXCEPT ![t] = [NoSend EXCEPT !.out = out, !.len = LEN,
                                               !.has_pipe = file[FileAt(t, fd)].kind = "read"]]
         /\ IoStep /\ UNCHANGED <<file, data, pipe>>

\* get_file_like(fd_in): what is at the descriptor by now.
SpliceIn(t) ==
    /\ call[t].at = "spliceIn"
    /\ IF Has(t, call[t].fd)
       THEN call' = [call EXCEPT ![t].at = "spliceTo", ![t].files = <<FileAt(t, call[t].fd)>>]
            /\ UNCHANGED send
       ELSE Over(t, FALSE)
    /\ IoStep /\ UNCHANGED <<file, data, pipe>>

\* With an offset, File::from_fd has the destination; else Pipe::from_fd looks at it.
SpliceTo(t, fd) ==
    /\ call[t].at = "spliceTo"
    /\ IF ~Has(t, fd) THEN Over(t, FALSE)
       ELSE LET f == FileAt(t, fd) IN
            IF send[t].out # None THEN Start(t, f, file[f].kind = "file" /\ send[t].has_pipe)
            ELSE IF file[f].kind = "read" THEN Over(t, FALSE)
            ELSE /\ call' = [call EXCEPT ![t].at = "spliceOut", ![t].fd = fd]
                 /\ send' = [send EXCEPT ![t].has_pipe = @ \/ file[f].kind = "write"]
    /\ IoStep /\ UNCHANGED <<file, data, pipe>>

\* get_file_like(fd_out), and a write of nothing to it; one of the two was a pipe.
SpliceOut(t) ==
    /\ call[t].at = "spliceOut"
    /\ IF ~Has(t, call[t].fd) THEN Over(t, FALSE)
       ELSE LET f == FileAt(t, call[t].fd)
            IN  Start(t, f, file[f].kind \in {"file", "write"} /\ send[t].has_pipe)
    /\ IoStep /\ UNCHANGED <<file, data, pipe>>

\* Once something was copied, do_send goes on only while there is data.
SendCheck(t) ==
    /\ call[t].at = "check"
    /\ call' = [call EXCEPT ![t].at =
            IF send[t].len = 0 \/ (send[t].total > 0 /\ ~HasData(call[t].files[1])) THEN "end"
            ELSE "read"]
    /\ IoStep /\ UNCHANGED <<file, ioVars>>

\* src.read: a pipe that another reader emptied since the look makes it wait.
SendRead(t) ==
    /\ call[t].at = "read"
    /\ LET f == call[t].files[1]
           s == send[t]
           bytes == Prefix(Rest(f, s.in), IF s.len < CHUNK THEN s.len ELSE CHUNK)
       IN  IF file[f].kind \in {"file", "read"}
           THEN /\ file[f].kind = "read" => pipe[f] # <<>> \/ NoWriter(f)
                /\ ReadFrom(f, s.in, bytes)
                /\ send' = [send EXCEPT ![t].chunk = bytes, ![t].wrote = 0, ![t].got = @ \o bytes,
                                        ![t].in = IF @ = None THEN None ELSE @ + Len(bytes)]
                /\ call' = [call EXCEPT ![t].at = IF bytes = <<>> THEN "end" ELSE "write"]
           ELSE Over(t, FALSE) /\ UNCHANGED <<file, pipe>>
    /\ IoStep /\ UNCHANGED data

\* AxError::WouldBlock of a source with O_NONBLOCK.
SendWouldBlock(t) ==
    /\ call[t].at = "read"
    /\ file[call[t].files[1]].kind = "read" /\ pipe[call[t].files[1]] = <<>>
    /\ Over(t, send[t].total > 0)
    /\ IoStep /\ UNCHANGED <<file, data, pipe>>

\* Mutant: after a short write the copy goes on.
AfterShortGoesOn == "check"

\* `if bytes_written < bytes_read { break; }`
AfterShort == "end"

\* dst.write puts what fits.  With O_NONBLOCK that is all (a short write); without, it
\* waits and puts the rest.  A chunk that is written whole is counted.
SendWrite(t) ==
    /\ call[t].at = "write"
    /\ LET f == call[t].files[2]
           s == send[t]
           left == Suffix(s.chunk, s.wrote)
           n == Accepts(f, left)
       IN  /\ ~Refuses(f) /\ n > 0
           /\ WriteTo(f, s.out, Prefix(left, n))
           /\ \/ /\ n = Len(left)
                 /\ send' = [send EXCEPT ![t].put = @ \o left, ![t].wrote = @ + n,
                                         ![t].out = IF @ = None THEN None ELSE @ + n,
                                         ![t].total = @ + Len(s.chunk),
                                         ![t].len = @ - Len(s.chunk)]
                 /\ call' = [call EXCEPT ![t].at = "check"]
              \/ /\ n < Len(left)
                 /\ send' = [send EXCEPT ![t].put = @ \o Prefix(left, n), ![t].wrote = @ + n]
                 /\ \/ UNCHANGED call
                    \/ call' = [call EXCEPT ![t].at = AfterShort]
    /\ IoStep

\* An error of dst.write: it is not for writing, has no reader, would block, or the
\* wait is interrupted.  What was copied before goes unreported.
SendFails(t) ==
    /\ call[t].at = "write"
    /\ Refuses(call[t].files[2]) \/ Accepts(call[t].files[2], <<None>>) = 0
    /\ Over(t, FALSE)
    /\ IoStep /\ UNCHANGED <<file, data, pipe>>

\* The call returns and lets its files go.
SendEnd(t) ==
    /\ call[t].at = "end"
    /\ Reap(fd_table, [call EXCEPT ![t] = NoCall])
    /\ UNCHANGED <<scope, rlim, panics, send>>

-----------------------------------------------------------------------------
\* The bytes go with their inode, or their pipe.
BytesFollow ==
    /\ data' = [i \in Ino |-> IF inodes'[i] = Vacant THEN <<>> ELSE data[i]]
    /\ pipe' = [f \in File |-> IF file'[f] = Closed THEN <<>> ELSE pipe[f]]

IoCall(t) ==
    \E fd \in Fd :
        \/ May(t, "read") /\ \E n \in 1 .. CHUNK : Read(t, fd, n)
        \/ May(t, "write") /\ Write(t, fd, LEN)
        \/ May(t, "pwrite") /\ \E off \in 0 .. 1 : Pwrite64(t, fd, off, 1)
        \/ May(t, "lseek") /\ Lseek(t, fd, 0)
        \/ May(t, "ftruncate") /\ \E n \in 0 .. 1 : Ftruncate(t, fd, n)
        \/ May(t, "sendfile") /\ \E in \in {None, 0} : Copy(t, fd, in, None, "copyTo")
        \/ May(t, "copy") /\ \E in, out \in {None, 0} : Copy(t, fd, in, out, "copyTo")
        \/ May(t, "splice") /\ \E in, out \in {None, 0} : Splice(t, fd, in, out)

SendStep(t) ==
    /\ \/ \E fd \in Fd : CopyTo(t, fd) \/ SpliceTo(t, fd)
       \/ SpliceIn(t) \/ SpliceOut(t)
       \/ SendCheck(t) \/ SendRead(t) \/ SendWouldBlock(t) \/ SendWrite(t) \/ SendFails(t)
    /\ UNCHANGED load

SendNext ==
    \/ Next /\ BytesFollow /\ UNCHANGED send
    \/ \E t \in Task : IoCall(t) \/ SendStep(t)
    \/ \E t \in Task : SendEnd(t) /\ Listed /\ BytesFollow /\ UNCHANGED load

SendSpec == SendInit /\ [][SendNext]_sendVars

-----------------------------------------------------------------------------
(* Properties.                                                             *)

\* A copy puts the bytes it took, in order, and returns how many: when it returns no
\* error, it lost nothing and counted everything, except in the chunk that a short
\* write cut, of which it counts nothing.
SendReports ==
    \A t \in Task :
        LET s == send[t]
        IN  /\ s.put = Prefix(s.got, Len(s.put))
            /\ call[t].at = "idle" /\ s.ok =>
                  \/ s.put = s.got /\ s.total = Len(s.got)
                  \/ s.wrote < Len(s.chunk) /\ s.total + Len(s.chunk) = Len(s.got)
                        /\ s.total + s.wrote = Len(s.put)
=============================================================================
