------------------------------ MODULE RunFollow ------------------------------
(***************************************************************************)
(* Following a live run across reconnects: the announcements of the run's  *)
(* log and its runtime events on two Redis streams, the server's           *)
(* subscribeRunLog (agent-runtime-events.helper.ts), and the client's      *)
(* followRunStream (packages/client/src/client.ts).                        *)
(*                                                                         *)
(* The log is what RunLog writes, seen from outside: an event is a note,   *)
(* or the step_committed that closes a write, which says whether the run   *)
(* is over.  After the commit its pod announces the new head, and a writer *)
(* that ends a run then emits its terminal runtime event; the pod may die  *)
(* first, and Redis may refuse.  A collaboration step whose write was      *)
(* fenced out emits its terminal event all the same.                       *)
(*                                                                         *)
(* The time limits are actions.  Two assumptions about time: what is on a  *)
(* stream is read sooner than the grace given to a finished run passes,    *)
(* and that grace (1 s) is shorter than the idle read (5 s).               *)
(***************************************************************************)
EXTENDS Naturals, Sequences, FiniteSets

CONSTANTS MaxLog,    \* bound on the events logged
          MaxEvents, \* bound on the runtime events emitted
          Page,      \* RUN_LOG_PAGE
          Count,     \* entries an XREAD returns of a stream
          Retries,   \* retryDelaysMs.length
          MaxBreaks, \* bound on dropped connections and time limits
          Faults     \* "lost", "trim", "fenced"

AllFaults == {"lost", "trim", "fenced"}

ASSUME RunFollowAssumption ==
    /\ MaxLog \in Nat /\ MaxEvents \in Nat /\ Page \in Nat \ {0} /\ Count \in Nat \ {0}
    /\ Retries \in Nat /\ MaxBreaks \in Nat /\ Faults \subseteq AllFaults

VARIABLES log,    \* agent_run_events: "note", "going" or "over"
          owed,   \* committed writes whose pods still owe Redis something
          heads,  \* run:<id>:log
          evs,    \* run:<id>:events: "token" or "end"
          gone,   \* how many of evs are trimmed or expired
          wrong,  \* a terminal event was emitted for a run still going
          srv,    \* the server's side of the connection
          wire,   \* frames sent and not yet read
          cl,     \* followRunStream
          handed, \* the positions handed to handler
          breaks  \* connections broken so far

run  == <<log, owed, heads, evs, gone, wrong>>
vars == <<run, srv, wire, cl, handed, breaks>>

\* The log has said that the run is over.
Over == \E i \in 1..Len(log) : log[i] = "over"

-----------------------------------------------------------------------------
\* The run.

\* A write of n events. One that finishes the run may have a terminal
\* runtime event to emit (a step, a cancel) or none (a rejected approval,
\* the reaper); one on a finished run, an approval's pause, may reopen it.
Commit(n, s, end) ==
    /\ Len(log) + n <= MaxLog
    /\ end => s = "over"
    /\ log' = log \o [i \in 1..n |-> IF i = n THEN s ELSE "note"]
    /\ owed' = owed \cup {[head |-> Len(log) + n, told |-> FALSE, end |-> end]}
    /\ UNCHANGED <<heads, evs, gone, wrong, srv, wire, cl, handed, breaks>>

\* publishRunLogHead
Told(o) == (owed \ {o}) \cup IF o.end THEN {[o EXCEPT !.told = TRUE]} ELSE {}

Announce(o) ==
    /\ ~o.told
    /\ heads' = Append(heads, o.head)
    /\ owed' = Told(o)
    /\ UNCHANGED <<log, evs, gone, wrong, srv, wire, cl, handed, breaks>>

\* Redis refuses the entry, or the pod dies with what it still owes.
Lose(o) ==
    /\ "lost" \in Faults
    /\ owed' \in {owed \ {o}, IF o.told THEN owed \ {o} ELSE Told(o)}
    /\ UNCHANGED <<log, heads, evs, gone, wrong, srv, wire, cl, handed, breaks>>

\* emitEvent. Tokens go on after a cancel, until the step notices.
EmitEnd(o) ==
    /\ o.told /\ Len(evs) < MaxEvents
    /\ evs' = Append(evs, "end")
    /\ owed' = owed \ {o}
    /\ UNCHANGED <<log, heads, gone, wrong, srv, wire, cl, handed, breaks>>

EmitToken ==
    /\ Len(evs) < MaxEvents
    /\ evs' = Append(evs, "token")
    /\ UNCHANGED <<log, owed, heads, gone, wrong, srv, wire, cl, handed, breaks>>

\* The collaboration helper emits the end whether or not its write landed.
EmitFenced ==
    /\ "fenced" \in Faults
    /\ Len(evs) < MaxEvents
    /\ evs' = Append(evs, "end")
    /\ wrong' = (wrong \/ ~Over)
    /\ UNCHANGED <<log, owed, heads, gone, srv, wire, cl, handed, breaks>>

\* MAXLEN and the TTL
Trim ==
    /\ "trim" \in Faults
    /\ gone' \in gone + 1..Len(evs)
    /\ UNCHANGED <<log, owed, heads, evs, wrong, srv, wire, cl, handed, breaks>>

-----------------------------------------------------------------------------
\* subscribeRunLog.

Off == [pc |-> "off", last |-> 0, logPos |-> 0, evPos |-> 0, logged |-> FALSE, ended |-> FALSE]

\* The end of the log's stream is noted before the log is read; the runtime
\* events start after the position the client named.
EventsFrom_Now == Len(evs) \* mutant
EventsFrom == cl.live

NoteEnds ==
    /\ srv.pc = "note"
    /\ srv' = [srv EXCEPT !.pc = "drain", !.logPos = Len(heads), !.evPos = EventsFrom]
    /\ UNCHANGED <<run, wire, cl, handed, breaks>>

LogFrame(i)   == [kind |-> "log", at |-> i, what |-> log[i]]
EventFrame(i) == [kind |-> "event", at |-> i, what |-> evs[i]]
Upto(from, to, count) == IF to > from + count THEN from + count ELSE to

\* drain: a page of the log after the last seq sent; a full page is
\* followed by another.
PageFrom_Asked == cl.after \* mutant
PageFrom == srv.last

Drain ==
    /\ srv.pc = "drain"
    /\ LET from == PageFrom
           to   == Upto(from, Len(log), Page)
       IN  /\ wire' = wire \o [i \in 1..(to - from) |-> LogFrame(from + i)]
           /\ srv' = [srv EXCEPT !.last = to,
                         !.logged = @ \/ \E i \in from + 1..to : log[i] = "over",
                         !.pc = IF to - from = Page THEN "drain" ELSE IF srv.ended THEN "closed" ELSE "wait"]
    /\ UNCHANGED <<run, cl, handed, breaks>>

\* One XREAD of both streams. A head past the last seq sent, or the run's
\* end, reads the log again.
From    == IF srv.evPos < gone THEN gone ELSE srv.evPos
Unread  == Len(heads) > srv.logPos \/ Len(evs) > From

Read ==
    /\ srv.pc = "wait" /\ Unread
    /\ LET h     == Upto(srv.logPos, Len(heads), Count)
           e     == Upto(From, Len(evs), Count)
           moved == \E i \in srv.logPos + 1..h : heads[i] > srv.last
           ended == \E i \in From + 1..e : evs[i] = "end"
       IN  /\ wire' = wire \o [i \in 1..(e - From) |-> EventFrame(From + i)]
           /\ srv' = [srv EXCEPT !.logPos = h, !.evPos = IF e > From THEN e ELSE @, !.ended = ended,
                         !.pc = IF moved \/ ended THEN "drain" ELSE "wait"]
    /\ UNCHANGED <<run, cl, handed, breaks>>

\* logIdleReadMs since the last read: the log is read all the same (a read
\* of nothing new changes nothing and is left out).
IdleRead_Never == FALSE \* mutant
IdleRead ==
    /\ srv.pc = "wait" /\ ~srv.logged /\ srv.last < Len(log)
    /\ srv' = [srv EXCEPT !.pc = "drain"]
    /\ UNCHANGED <<run, wire, cl, handed, breaks>>

\* logEndGraceMs after the log showed the run finished.
GraceOver ==
    /\ srv.pc = "wait" /\ ~Unread /\ srv.logged
    /\ srv' = [srv EXCEPT !.pc = "closed"]
    /\ UNCHANGED <<run, wire, cl, handed, breaks>>

\* The stream's own time limit.
Deadline ==
    /\ srv.pc = "wait" /\ breaks < MaxBreaks
    /\ srv' = [srv EXCEPT !.pc = "closed"]
    /\ breaks' = breaks + 1
    /\ UNCHANGED <<run, wire, cl, handed>>

-----------------------------------------------------------------------------
\* followRunStream.

Open ==
    /\ cl.pc = "connect"
    /\ cl' = [cl EXCEPT !.pc = "read"]
    /\ srv' = [Off EXCEPT !.pc = "note", !.last = cl.after]
    /\ UNCHANGED <<run, wire, handed, breaks>>

\* The frames: one already had is skipped, one that skips ahead ends the
\* connection, and what says the run is over is read on from.
OnLog(f) ==
    cl' = IF f.at <= cl.after THEN cl
          ELSE IF f.at # cl.after + 1 THEN [cl EXCEPT !.gap = TRUE]
          ELSE [cl EXCEPT !.after = f.at, !.progressed = TRUE, !.ended = @ \/ f.what = "over"]

OnEvent(f) ==
    IF f.at <= cl.live THEN UNCHANGED <<cl, handed>>
    ELSE /\ cl' = [cl EXCEPT !.live = f.at, !.progressed = TRUE, !.ended = @ \/ f.what = "end"]
         /\ handed' = Append(handed, f.at)

Receive ==
    /\ cl.pc = "read" /\ ~cl.gap /\ wire # <<>>
    /\ wire' = Tail(wire)
    /\ \/ Head(wire).kind = "log" /\ OnLog(Head(wire)) /\ UNCHANGED handed
       \/ Head(wire).kind = "event" /\ OnEvent(Head(wire))
    /\ UNCHANGED <<run, srv, breaks>>

\* A connection is over: resolve, connect again, or give up.
Ended_OnClose(failed) == cl.ended \/ ~failed \* mutant
Ended(failed) == cl.ended

After(failed) ==
    LET failures == IF cl.progressed THEN 0 ELSE cl.failures
        again    == cl.gap \/ (~failed /\ cl.progressed)
        next     == [cl EXCEPT !.failures = failures, !.progressed = FALSE, !.gap = FALSE]
    IN  IF Ended(failed) /\ ~cl.gap THEN [next EXCEPT !.pc = "resolved"]
        ELSE IF again THEN [next EXCEPT !.pc = "connect"]
        ELSE IF failures >= Retries THEN [next EXCEPT !.pc = "thrown"]
        ELSE [next EXCEPT !.pc = "connect", !.failures = @ + 1]

Finish(failed) ==
    /\ cl' = After(failed)
    /\ srv' = Off
    /\ wire' = <<>>
    /\ UNCHANGED <<run, handed>>

\* The server closed the stream and everything of it is read; or a gap.
Close == cl.pc = "read" /\ (cl.gap \/ (srv.pc = "closed" /\ wire = <<>>)) /\ Finish(FALSE) /\ UNCHANGED breaks

\* The connection drops, with whatever was on the wire.
Drop == cl.pc = "read" /\ breaks < MaxBreaks /\ breaks' = breaks + 1 /\ Finish(TRUE)

-----------------------------------------------------------------------------
Init ==
    /\ log = <<>> /\ owed = {} /\ heads = <<>> /\ evs = <<>> /\ gone = 0 /\ wrong = FALSE
    /\ srv = Off
    /\ cl = [pc |-> "connect", after |-> 0, live |-> 0, ended |-> FALSE, progressed |-> FALSE, gap |-> FALSE, failures |-> 0]
    /\ wire = <<>> /\ handed = <<>> /\ breaks = 0

Serve  == NoteEnds \/ Drain \/ Read \/ IdleRead \/ GraceOver
Follow == Open \/ Receive \/ Close

Next ==
    \/ \E n \in 1..2, s \in {"going", "over"}, end \in BOOLEAN : Commit(n, s, end)
    \/ \E o \in owed : Announce(o) \/ Lose(o) \/ EmitEnd(o)
    \/ EmitToken \/ EmitFenced \/ Trim
    \/ Serve \/ Deadline
    \/ Follow \/ Drop

Spec == Init /\ [][Next]_vars

\* The server's loop and the client's read go on; no write, announcement or
\* runtime event is assumed to come, nor any connection to break.
FairSpec == Spec /\ WF_vars(Serve) /\ WF_vars(Follow)

-----------------------------------------------------------------------------
\* Where the frames of one kind are on the wire.
Sent(kind) == {i \in 1..Len(wire) : wire[i].kind = kind}

\* Type invariant.
TypeOK ==
    /\ log \in Seq({"note", "going", "over"}) /\ evs \in Seq({"token", "end"}) /\ heads \in Seq(Nat)
    /\ gone \in 0..Len(evs) /\ wrong \in BOOLEAN /\ breaks \in 0..MaxBreaks
    /\ owed \subseteq [head : 1..Len(log), told : BOOLEAN, end : BOOLEAN]
    /\ srv \in [pc : {"off", "note", "drain", "wait", "closed"}, last : Nat, logPos : Nat, evPos : Nat,
                logged : BOOLEAN, ended : BOOLEAN]
    /\ cl \in [pc : {"connect", "read", "resolved", "thrown"}, after : Nat, live : Nat, ended : BOOLEAN,
               progressed : BOOLEAN, gap : BOOLEAN, failures : 0..Retries]
    /\ wire \in Seq([kind : {"log", "event"}, at : Nat, what : {"note", "going", "over", "token", "end"}])
    /\ handed \in Seq(Nat)

\* Across every drop and reconnect the server sends the next seq and only
\* the next, so the client, which hands on nothing else to onLog, never
\* meets a gap and never asks twice.
NextSeqOnly ==
    /\ ~cl.gap
    /\ \A i \in Sent("log") :
        /\ wire[i].at > cl.after
        /\ \A n \in cl.after + 1..wire[i].at - 1 : \E j \in Sent("log") : j < i /\ wire[j].at = n
        /\ \A j \in Sent("log") : j < i => wire[j].at < wire[i].at

\* Tokens are handed on once and in order, and none is lost that was still
\* in the stream's window.
TokensOnce ==
    /\ \A i \in 1..Len(handed) : handed[i] <= cl.live /\ (i > 1 => handed[i - 1] < handed[i])
    /\ \A i \in gone + 1..cl.live : \E k \in 1..Len(handed) : handed[k] = i

\* A follower that resolves watched a run that is over, time limits and
\* drops notwithstanding; only the end emitted by a fenced collaboration
\* step can mislead it.
ResolvedMeansOver == cl.pc = "resolved" => Over \/ wrong

\* Once the run is over its follower learns it from the log and resolves,
\* with no announcement, no terminal runtime event and no deadline to help;
\* it gives up only when more connections broke than it may retry.
FollowerResolves == Over ~> cl.pc = "resolved" \/ (cl.pc = "thrown" /\ breaks > Retries)

\* followRunStream says of its handler that it sees each runtime event once,
\* whenever the connection drops: none that was sent to it is left behind
\* when it resolves.
HandedOnBeforeResolving ==
    [][cl.pc # "resolved" /\ cl'.pc = "resolved" => Sent("event") = {}]_vars
=============================================================================
