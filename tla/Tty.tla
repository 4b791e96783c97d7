-------------------------------- MODULE Tty --------------------------------
(***************************************************************************)
(* The input side of a terminal with a tty-reader task: the line           *)
(* discipline (api/src/terminal/ldisc.rs) over a pseudo terminal           *)
(* (vfs/dev/tty/pty.rs), and the tasks that read it, poll it and change    *)
(* its modes (vfs/dev/tty.rs).                                             *)
(*                                                                         *)
(* What the other end writes goes into a ring, the tty-reader edits it     *)
(* into lines and pushes them into a second ring, and readers pop them     *)
(* from there.  Echo and the output of the slave are not modelled.         *)
(***************************************************************************)
EXTENDS JobControl, Sequences, SequencesExt

CONSTANTS
    BUF_SIZE,       \* of the ring the readers pop from, and of read_buf
    PTY_BUF_SIZE,   \* of the ring the other end writes into
    Mode,           \* the modes a terminal is put in: [canonical, vmin] (a bound)
    Workload        \* the calls of each process, the mode at first and the text
                    \* the other end writes, in the cases looked at (a bound)

VARIABLES
    wire,        \* the ring the other end writes into
    writing,     \* the other end has pushed and not called wake yet
    term,        \* termios
    rd,          \* the tty-reader: where it is, see ReaderInit
    read_buf,    \* read_buf[read_range]
    line_buf,
    line_read,   \* how much of line_buf has been pushed, or None
    clear_line,  \* clear_line_buf
    buf,         \* the ring the readers pop from
    poll_tx,     \* the tty-reader's waker is in this PollSet
    poll_wire,   \* and in that of the wire, poll_rx_slave
    poll_rx,     \* the processes whose waker is in this PollSet
    lock,        \* the process that holds the lock of the line discipline, or None
    pc, again,   \* where a process is, and whether poll_io has registered
    want, got,   \* the bytes its read asks for, and has
    vmin,        \* and how many it waits for
    notified,    \* the processes whose waker has been called
    load,        \* what each process may still call, and what is still written
    eaten,       \* history: the characters the tty-reader took, and their mode
    delivered,   \* history: the bytes popped
    flushed      \* history: input was thrown away

readerVars == <<rd, read_buf, line_buf, line_read, clear_line>>
taskVars == <<pc, again, want, got, vmin, notified>>
history == <<eaten, delivered, flushed>>
vars == <<jobVars, poll_fg, wire, writing, term, readerVars, buf, poll_tx, poll_wire, poll_rx, lock,
          taskVars, load, history>>

\* The tty-reader: at a step, in the second round of poll_fn or not, whether
\* poll has pushed something, the modes it loaded, and whether it is notified.
ReaderInit == [at |-> "start", again |-> FALSE, sent |-> FALSE,
               canonical |-> TRUE, notified |-> FALSE]

Init ==
    /\ JobInit
    /\ wire = <<>> /\ writing = FALSE
    /\ rd = ReaderInit
    /\ read_buf = <<>> /\ line_buf = <<>> /\ line_read = None /\ clear_line = FALSE
    /\ buf = <<>>
    /\ poll_tx = FALSE /\ poll_wire = FALSE /\ poll_rx = {}
    /\ lock = None
    /\ pc = [p \in Process |-> "idle"]
    /\ again = [p \in Process |-> FALSE]
    /\ want = [p \in Process |-> 0] /\ got = [p \in Process |-> 0] /\ vmin = [p \in Process |-> 0]
    /\ notified = {}
    /\ load \in Workload
    /\ term = load.mode
    /\ eaten = <<>> /\ delivered = <<>> /\ flushed = FALSE

Smaller(a, b) == IF a < b THEN a ELSE b
Take(s, n) == SubSeq(s, 1, n)
After(s, n) == SubSeq(s, n + 1, Len(s))

-----------------------------------------------------------------------------
(* PtyWriter::write by the other end: what does not fit is discarded, and  *)
(* the tty-reader is woken.                                                *)

Write(ch) ==
    /\ ~writing
    /\ wire' = IF Len(wire) < PTY_BUF_SIZE THEN Append(wire, ch) ELSE wire
    /\ writing' = TRUE
    /\ UNCHANGED <<jobVars, poll_fg, term, readerVars, buf, poll_tx, poll_wire, poll_rx, lock, taskVars, history>>

WriteWake ==
    /\ writing
    /\ writing' = FALSE
    /\ rd' = [rd EXCEPT !.notified = @ \/ poll_wire]
    /\ poll_wire' = FALSE
    /\ UNCHANGED <<jobVars, poll_fg, wire, term, read_buf, line_buf, line_read, clear_line, buf,
                   poll_tx, poll_rx, lock, taskVars, history>>

-----------------------------------------------------------------------------
(* The tty-reader: InputReader::poll and the task around it.               *)

ReaderStart ==
    /\ rd.at = "start"
    /\ LET n == IF read_buf = <<>> THEN Smaller(BUF_SIZE, Len(wire)) ELSE 0
       IN  /\ wire' = After(wire, n)
           /\ read_buf' = read_buf \o Take(wire, n)
    /\ line_buf' = IF clear_line THEN <<>> ELSE line_buf
    /\ clear_line' = FALSE
    /\ rd' = [rd EXCEPT !.at = "loop", !.sent = FALSE, !.canonical = term.canonical]
    /\ UNCHANGED <<jobVars, poll_fg, writing, term, line_read, buf, poll_tx, poll_wire, poll_rx, lock,
                   taskVars, history>>

Room == BUF_SIZE - Len(buf)

\* A line that is finished is pushed, as far as there is room.  The slice of
\* line_buf from line_read on must exist.
Pushed == Smaller(Room, Len(line_buf) - line_read)

\* Mutant: a line that has been pushed in part is done with.
AfterPushShort == [line |-> <<>>, read |-> None]

AfterPush ==
    IF line_read + Pushed = Len(line_buf) THEN [line |-> <<>>, read |-> None]
    ELSE [line |-> line_buf, read |-> line_read + Pushed]

ReaderPush ==
    /\ rd.at = "loop" /\ line_read # None
    /\ IF line_read > Len(line_buf)
       THEN /\ panicked' = TRUE
            /\ UNCHANGED <<running, group, table, foreground, session, bound, setting>>
            /\ UNCHANGED <<rd, line_buf, line_read, buf>>
       ELSE /\ Pushed > 0
            /\ buf' = buf \o SubSeq(line_buf, line_read + 1, line_read + Pushed)
            /\ line_buf' = AfterPush.line /\ line_read' = AfterPush.read
            /\ rd' = [rd EXCEPT !.sent = TRUE]
            /\ UNCHANGED jobVars
    /\ UNCHANGED <<poll_fg, wire, writing, term, read_buf, clear_line, poll_tx, poll_wire, poll_rx, lock,
                   taskVars, history>>

\* ICRNL, and what is_eol, is_ascii_graphic and the special characters say.
Cooked(ch) == IF ch = "cr" THEN "nl" ELSE ch
Graphic(ch) == ch \notin {"nl", "eof", "erase", "kill", "intr", "space"}

\* The line that is being edited, after ch; nl and eof finish it.
Edited(line, ch) ==
    CASE ch = "kill" -> <<>>
      [] ch = "erase" -> IF line = <<>> THEN line ELSE Front(line)
      [] ch = "nl" \/ Graphic(ch) -> Append(line, ch)
      [] OTHER -> line
Finishes(line, ch) == ch = "nl" \/ (ch = "eof" /\ line # <<>>)

\* One character.  The signal that intr sends to the foreground group is one of
\* those that may interrupt a call at any time.
ReaderChar ==
    /\ rd.at = "loop" /\ line_read = None
    /\ Room > 0 /\ read_buf # <<>>
    /\ LET ch == Cooked(Head(read_buf))
       IN  /\ IF rd.canonical
              THEN /\ line_buf' = Edited(line_buf, ch)
                   /\ line_read' = IF Finishes(line_buf, ch) THEN 0 ELSE None
                   /\ UNCHANGED <<buf, rd>>
              ELSE /\ buf' = Append(buf, ch)
                   /\ rd' = [rd EXCEPT !.sent = TRUE]
                   /\ UNCHANGED <<line_buf, line_read>>
           /\ eaten' = Append(eaten, [ch |-> ch, canonical |-> rd.canonical])
    /\ read_buf' = Tail(read_buf)
    /\ UNCHANGED <<jobVars, poll_fg, wire, writing, term, clear_line, poll_tx, poll_wire, poll_rx, lock,
                   taskVars, delivered, flushed>>

\* The loop ends; what has been pushed is told to the readers, and poll starts
\* over.  Otherwise the task registers and polls again, and then sleeps.
ReaderBreak ==
    /\ rd.at = "loop"
    /\ IF line_read = None THEN Room = 0 \/ read_buf = <<>>
       ELSE line_read <= Len(line_buf) /\ Pushed = 0
    /\ rd' = [rd EXCEPT !.at = IF rd.sent THEN "wake" ELSE IF rd.again THEN "asleep" ELSE "register"]
    /\ UNCHANGED <<jobVars, poll_fg, wire, writing, term, read_buf, line_buf, line_read, clear_line,
                   buf, poll_tx, poll_wire, poll_rx, lock, taskVars, history>>

\* Mutant: only the first round wakes the readers.
ToldOnce == IF rd.again THEN {} ELSE poll_rx

Told == poll_rx

ReaderWake ==
    /\ rd.at = "wake"
    /\ notified' = notified \cup Told
    /\ poll_rx' = {}
    /\ rd' = [rd EXCEPT !.at = "start"]
    /\ UNCHANGED <<jobVars, poll_fg, wire, writing, term, read_buf, line_buf, line_read, clear_line,
                   buf, poll_tx, poll_wire, lock, pc, again, want, got, vmin, history>>

\* Mutant: the task sleeps once it has registered.
AfterRegisterSleeps == "asleep"

AfterRegister == "start"

ReaderRegister ==
    /\ rd.at = "register"
    /\ poll_tx' = TRUE /\ poll_wire' = TRUE
    /\ rd' = [rd EXCEPT !.at = AfterRegister, !.again = TRUE]
    /\ UNCHANGED <<jobVars, poll_fg, wire, writing, term, read_buf, line_buf, line_read, clear_line,
                   buf, poll_rx, lock, taskVars, history>>

ReaderResume ==
    /\ rd.at = "asleep" /\ rd.notified
    /\ rd' = [rd EXCEPT !.at = "start", !.again = FALSE, !.notified = FALSE]
    /\ UNCHANGED <<jobVars, poll_fg, wire, writing, term, read_buf, line_buf, line_read, clear_line,
                   buf, poll_tx, poll_wire, poll_rx, lock, taskVars, history>>

ReaderStep ==
    \/ ReaderStart \/ ReaderPush \/ ReaderChar \/ ReaderBreak
    \/ ReaderWake \/ ReaderRegister \/ ReaderResume

-----------------------------------------------------------------------------
(* Calls by process p.  A read is one poll_io around another: the outer    *)
(* one waits to be in the foreground, the inner one, which keeps the lock  *)
(* of the line discipline, for input.                                      *)

Goto(p, l) == pc' = [pc EXCEPT ![p] = l]
Leave(p) ==
    /\ Goto(p, "idle")
    /\ again' = [again EXCEPT ![p] = FALSE]
    /\ notified' = notified \ {p}
    /\ want' = [want EXCEPT ![p] = 0] /\ got' = [got EXCEPT ![p] = 0]
    /\ vmin' = [vmin EXCEPT ![p] = 0]

\* What a call changes: of the terminal only the things that are named.
KeepTerminal ==
    UNCHANGED <<jobVars, wire, writing, term, readerVars, buf, poll_tx, poll_wire, history>>

Read(p, n) ==
    /\ Goto(p, "read")
    /\ want' = [want EXCEPT ![p] = n]
    /\ KeepTerminal /\ UNCHANGED <<poll_fg, poll_rx, lock, again, got, vmin, notified>>

\* In the foreground, the lock is taken and the modes are read; a buffer that
\* is smaller than VMIN is refused with WouldBlock, as a background process is.
Vmin == IF term.canonical THEN 1 ELSE term.vmin

ReadTry(p) ==
    /\ pc[p] = "read"
    /\ InForeground(p) => lock = None
    /\ vmin' = [vmin EXCEPT ![p] = IF InForeground(p) THEN Vmin ELSE 0]
    /\ IF InForeground(p) /\ want[p] >= Vmin
       THEN Goto(p, "pop") /\ lock' = p /\ again' = [again EXCEPT ![p] = FALSE]
       ELSE Goto(p, IF again[p] THEN "background" ELSE "register") /\ UNCHANGED <<lock, again>>
    /\ KeepTerminal /\ UNCHANGED <<poll_fg, poll_rx, want, got, notified>>

Register(p) ==
    /\ pc[p] = "register"
    /\ poll_fg' = poll_fg \cup {p}
    /\ Goto(p, "read")
    /\ again' = [again EXCEPT ![p] = TRUE]
    /\ KeepTerminal /\ UNCHANGED <<poll_rx, lock, want, got, vmin, notified>>

Pop(p) ==
    /\ pc[p] = "pop"
    /\ LET n == Smaller(want[p] - got[p], Len(buf))
       IN  /\ delivered' = delivered \o Take(buf, n)
           /\ buf' = After(buf, n)
           /\ got' = [got EXCEPT ![p] = @ + n]
    /\ Goto(p, "popped")
    /\ UNCHANGED <<jobVars, wire, writing, term, readerVars, poll_tx, poll_wire, eaten, flushed>>
    /\ UNCHANGED <<poll_fg, poll_rx, lock, again, want, vmin, notified>>

\* poll_tx.wake(), and the outcome.
Popped(p) ==
    /\ pc[p] = "popped"
    /\ rd' = [rd EXCEPT !.notified = @ \/ poll_tx]
    /\ poll_tx' = FALSE
    /\ IF got[p] >= vmin[p]
       THEN Leave(p) /\ lock' = None
       ELSE /\ Goto(p, IF again[p] THEN "asleep" ELSE "wait")
            /\ UNCHANGED <<again, notified, want, got, vmin, lock>>
    /\ UNCHANGED <<jobVars, wire, writing, term, read_buf, line_buf, line_read, clear_line, buf,
                   poll_wire, history, poll_fg, poll_rx>>

Wait(p) ==
    /\ pc[p] = "wait"
    /\ poll_rx' = poll_rx \cup {p}
    /\ Goto(p, "pop")
    /\ again' = [again EXCEPT ![p] = TRUE]
    /\ KeepTerminal /\ UNCHANGED <<poll_fg, lock, want, got, vmin, notified>>

\* Tty::poll and register, of a process that polls for input.
Ready(p) == InForeground(p) /\ buf # <<>>

Poll(p) ==
    /\ pc[p] \in {"idle", "poll"}
    /\ InForeground(p) => lock = None
    /\ IF Ready(p)
       THEN Leave(p)
       ELSE /\ Goto(p, IF again[p] THEN "polling" ELSE "pollregister")
            /\ UNCHANGED <<again, notified, want, got, vmin>>
    /\ KeepTerminal /\ UNCHANGED <<poll_fg, poll_rx, lock>>

PollRegister(p) ==
    /\ pc[p] = "pollregister"
    /\ lock = None
    /\ poll_fg' = poll_fg \cup {p} /\ poll_rx' = poll_rx \cup {p}
    /\ again' = [again EXCEPT ![p] = TRUE]
    /\ Goto(p, "poll")
    /\ KeepTerminal /\ UNCHANGED <<lock, want, got, vmin, notified>>

Sleeping == {"background", "asleep", "polling"}
WokenAt == [background |-> "read", asleep |-> "pop", polling |-> "poll"]

Resume(p) ==
    /\ pc[p] \in Sleeping /\ p \in notified
    /\ Goto(p, WokenAt[pc[p]])
    /\ again' = [again EXCEPT ![p] = FALSE]
    /\ notified' = notified \ {p}
    /\ KeepTerminal /\ UNCHANGED <<poll_fg, poll_rx, lock, want, got, vmin>>

\* A signal: the call is over, and what the inner read has popped is lost.
Interrupted(p) ==
    /\ pc[p] \in Sleeping
    /\ Leave(p)
    /\ lock' = IF lock = p THEN None ELSE lock
    /\ poll_fg' = poll_fg \ {p} /\ poll_rx' = poll_rx \ {p}
    /\ KeepTerminal

\* TCSETS, and TCSETSF, which then wants the lock to throw the input away.
SetTermios(p, tm, flush) ==
    /\ term' = tm
    /\ Goto(p, IF flush THEN "flush" ELSE "idle")
    /\ UNCHANGED <<jobVars, wire, writing, readerVars, buf, poll_tx, poll_wire, history>>
    /\ UNCHANGED <<poll_fg, poll_rx, lock, again, want, got, vmin, notified>>

DrainInput(p) ==
    /\ pc[p] = "flush" /\ lock = None
    /\ buf' = <<>> /\ clear_line' = TRUE
    /\ flushed' = TRUE
    /\ Leave(p)
    /\ UNCHANGED <<jobVars, wire, writing, term, rd, read_buf, line_buf, line_read, poll_tx, poll_wire,
                   eaten, delivered, poll_fg, poll_rx, lock>>

\* The calls about groups and sessions, and the wake that ends set_foreground.
JobCall(p, call) ==
    /\ CASE call = "ctty" -> BindTo(p)
         [] call = "notty" -> Notty(p)
         [] call = "tcsetpgrp" -> SetForeground(p)
         [] call = "setsid" -> Setsid(p)
         [] call = "setpgid" -> Setpgid(p) \/ \E q \in Process : SetpgidTo(p, q)
         [] call = "fork" -> \E q \in Process : Fork(p, q)
         [] call = "exit" -> Exit(p)
    /\ UNCHANGED <<poll_fg, wire, writing, term, readerVars, buf, poll_tx, poll_wire, poll_rx, lock,
                   taskVars, history>>

ForegroundWake(p) ==
    /\ p \in setting
    /\ setting' = setting \ {p}
    /\ notified' = notified \cup poll_fg
    /\ poll_fg' = {}
    /\ UNCHANGED <<running, group, table, foreground, session, bound, panicked>>
    /\ UNCHANGED <<wire, writing, term, readerVars, buf, poll_tx, poll_wire, poll_rx, lock,
                   pc, again, want, got, vmin, history>>

-----------------------------------------------------------------------------
May(p, k) ==
    /\ p \in running /\ pc[p] = "idle" /\ p \notin setting
    /\ k \in DOMAIN load.calls[p] /\ load.calls[p][k] > 0
    /\ load' = [load EXCEPT !.calls[p][k] = @ - 1]

CallStep(p) ==
    \/ May(p, "read") /\ \E n \in 1 .. BUF_SIZE : Read(p, n)
    \/ May(p, "poll") /\ Poll(p)
    \/ May(p, "tcsets") /\ \E tm \in Mode, flush \in BOOLEAN : SetTermios(p, tm, flush)
    \/ \E call \in {"ctty", "notty", "tcsetpgrp", "setsid", "setpgid", "fork", "exit"} :
        May(p, call) /\ JobCall(p, call)

KernelStep(p) ==
    /\ \/ ReadTry(p) \/ Register(p) \/ Pop(p) \/ Popped(p) \/ Wait(p)
       \/ pc[p] = "poll" /\ Poll(p)
       \/ PollRegister(p)
       \/ Resume(p) \/ Interrupted(p)
       \/ DrainInput(p)
       \/ ForegroundWake(p)
    /\ UNCHANGED load

OtherEnd ==
    \/ /\ load.text # <<>>
       /\ Write(Head(load.text))
       /\ load' = [load EXCEPT !.text = Tail(@)]
    \/ WriteWake /\ UNCHANGED load

Next ==
    /\ ~panicked
    /\ \/ \E p \in Process : CallStep(p) \/ KernelStep(p)
       \/ OtherEnd
       \/ ReaderStep /\ UNCHANGED load

Spec == Init /\ [][Next]_vars

-----------------------------------------------------------------------------
\* What the characters e ought to give: the lines finished in canonical mode, as
\* edited, and every character of the other mode at once.
Lines(e) ==
    FoldLeft(LAMBDA s, x :
                IF ~x.canonical THEN [s EXCEPT !.out = Append(@, x.ch)]
                ELSE IF Finishes(s.line, x.ch)
                THEN [out |-> s.out \o Edited(s.line, x.ch), line |-> <<>>]
                ELSE [s EXCEPT !.line = Edited(@, x.ch)],
             [out |-> <<>>, line |-> <<>>], e)

\* However the rings fill up and are emptied, what has been popped, what waits in
\* the ring and the rest of the line being pushed are together the lines typed,
\* each byte once and in order: InputReader::poll's read_range, line_read and
\* line_buf, as long as nothing was flushed.
LinesWhole ==
    ~flushed =>
        delivered \o buf \o (IF line_read = None THEN <<>> ELSE After(line_buf, line_read))
            = Lines(eaten).out

\* The tty-reader sleeps, and nobody is about to wake it.
Dormant ==
    rd.at = "asleep" /\ ~rd.notified /\ ~writing /\ \A p \in Process : pc[p] # "popped"

\* The tty-reader does not sleep over a line to push, or characters it has read,
\* once there is room, nor over characters to read in raw mode: its wakers are
\* called after every write and every pop.  (drain_input calls none, and may take
\* the line that is being pushed away; the next read is what helps, if anything.)
TtyReaderGoesOn ==
    Dormant /\ ~flushed =>
        \/ Room = 0
        \/ line_read = None /\ read_buf = <<>> /\ (rd.canonical \/ wire = <<>>)

\* No reader or poller sleeps while there is input for it, or outside the
\* foreground when its group has been put there, unless a wake is on its way.
ReaderHears ==
    \A p \in Process :
        pc[p] \in Sleeping /\ p \notin notified /\ rd.at \notin {"loop", "wake"} /\ setting = {} =>
            /\ pc[p] = "asleep" => buf = <<>>
            /\ pc[p] = "polling" => ~Ready(p)
            /\ pc[p] = "background" => Foreground # group[p] \/ want[p] < vmin[p]
=============================================================================
