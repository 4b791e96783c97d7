---------------------------- MODULE JobControl ----------------------------
(***************************************************************************)
(* Sessions, process groups and the terminal they share: JobControl        *)
(* (api/src/terminal/job.rs), bind_to and the ioctls about it              *)
(* (api/src/vfs/dev/tty.rs), setsid and setpgid (syscall/task/job.rs).     *)
(*                                                                         *)
(* starry_process is external.  A group or a session is told from another  *)
(* by its ids, and lives as long as a process is in it; the terminal has   *)
(* Weak references to both.  A failed assertion halts the kernel.          *)
(***************************************************************************)
EXTENDS Naturals

CONSTANTS
    Process,   \* the processes, each of one thread
    First,     \* the one whose session and group they start in
    None

VARIABLES
    running,     \* the processes that are there
    group,       \* the group of a process: [pgid, sid]
    table,       \* the groups PROCESS_GROUP_TABLE has
    foreground,  \* of the terminal: a group, or None
    session,     \* of the terminal: the id of a session, or None
    bound,       \* the sessions whose terminal this is
    setting,     \* the processes in set_foreground that have not called wake yet
    poll_fg,     \* the processes whose waker is in this PollSet
    panicked     \* an assertion has failed

jobVars == <<running, group, table, foreground, session, bound, setting, panicked>>

Group(pgid, sid) == [pgid |-> pgid, sid |-> sid]

JobInit ==
    /\ running = {First}
    /\ group = [p \in Process |-> Group(First, First)]
    /\ table = {Group(First, First)}
    /\ foreground = None /\ session = None /\ bound = {}
    /\ setting = {}
    /\ poll_fg = {}
    /\ panicked = FALSE

\* Weak::upgrade.
GroupLives(g) == \E p \in running : group[p] = g
SessionLives(s) == \E p \in running : group[p].sid = s
Foreground == IF foreground # None /\ GroupLives(foreground) THEN foreground ELSE None

\* current_in_foreground.
InForeground(p) == Foreground \in {None, group[p]}

-----------------------------------------------------------------------------
\* What the processes do to their groups, and to nothing else.
Move(p, g) ==
    /\ group' = [group EXCEPT ![p] = g]
    /\ UNCHANGED <<running, table, foreground, session, bound, setting, panicked>>

Known(pgid) == \E g \in table : g.pgid = pgid /\ GroupLives(g)

Setsid(p) ==
    /\ ~Known(p)
    /\ group[p].sid # p
    /\ Move(p, Group(p, p))

\* setpgid with 0: a group of its own, which the table does not get; else a group
\* that the table has, of the same session.
Setpgid(p) == group[p].pgid # p /\ Move(p, Group(p, group[p].sid))

SetpgidTo(p, pgid) ==
    /\ Known(pgid)
    /\ Group(pgid, group[p].sid) \in table \ {group[p]}
    /\ Move(p, Group(pgid, group[p].sid))

\* A child of p, in the group of p, and add_task_to_table.
Fork(p, c) ==
    /\ c \notin running
    /\ running' = running \cup {c}
    /\ group' = [group EXCEPT ![c] = group[p]]
    /\ table' = IF Known(group[p].pgid) THEN table ELSE table \cup {group[p]}
    /\ UNCHANGED <<foreground, session, bound, setting, panicked>>

\* The last of a group or of a session takes it along.
Exit(p) ==
    /\ running' = running \ {p}
    /\ UNCHANGED <<group, table, foreground, session, bound, setting, panicked>>

-----------------------------------------------------------------------------
\* set_foreground by p, of its own group (TIOCSPGRP, whatever the argument
\* says).  The waiters are woken after the lock is released.
SetForeground(p) ==
    /\ foreground # group[p]
    /\ session # None /\ SessionLives(session) /\ group[p].sid = session
    /\ foreground' = group[p]
    /\ setting' = setting \cup {p}
    /\ UNCHANGED <<running, group, table, session, bound, panicked>>

\* bind_to by the leader of a session (TIOCSCTTY, and the kernel at boot).  The
\* session must have no terminal, the terminal no session that lives.
BindTo(p) ==
    /\ group[p].sid = p
    /\ IF p \in bound \/ (session # None /\ SessionLives(session))
       THEN /\ panicked' = TRUE
            /\ UNCHANGED <<running, group, table, foreground, session, bound, setting>>
       ELSE /\ bound' = bound \cup {p}
            /\ session' = p
            /\ foreground' = group[p]
            /\ setting' = IF foreground # group[p] THEN setting \cup {p} ELSE setting
            /\ UNCHANGED <<running, group, table, panicked>>

\* TIOCNOTTY: the session forgets its terminal, not the terminal its session.
Notty(p) ==
    /\ bound' = bound \ {group[p].sid}
    /\ UNCHANGED <<running, group, table, foreground, session, setting, panicked>>

-----------------------------------------------------------------------------
=============================================================================
