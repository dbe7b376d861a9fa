-------------------------- MODULE RunFollow_proofs --------------------------
(***************************************************************************)
(* Theorems about RunFollow.                                               *)
(***************************************************************************)
EXTENDS RunFollow, TLAPS

-----------------------------------------------------------------------------
(* Sequences and positions                                                 *)

Frame == [kind : {"log", "event"}, at : Nat, what : {"note", "going", "over", "token", "end"}]

\* A sequence continued by the n elements of a function.
LEMMA Continued ==
    ASSUME NEW S, NEW s \in Seq(S), NEW n \in Nat, NEW f \in [1..n -> S]
    PROVE  /\ s \o f \in Seq(S) /\ Len(s \o f) = Len(s) + n
           /\ \A i \in 1..Len(s) : (s \o f)[i] = s[i]
           /\ \A i \in 1..n : (s \o f)[Len(s) + i] = f[i]
<1>1. f \in Seq(S) /\ Len(f) = n
    OBVIOUS
<1> QED
    BY <1>1

LEMMA Narrower ==
    ASSUME NEW a \in Nat, NEW b \in Nat, NEW c \in Nat, a <= b
    PROVE  \A n \in b + 1..c : n \in a + 1..c
OBVIOUS

LEMMA UptoBounds ==
    ASSUME NEW from \in Nat, NEW to \in Nat, NEW count \in Nat, from <= to
    PROVE  Upto(from, to, count) \in from..to
BY DEF Upto

OfKind(s, kind) == {i \in 1..Len(s) : s[i].kind = kind}

\* What the server sends in one go: the n positions of one kind after one that
\* bounds those already on the wire.
Extension(s, t, kind, from, n, f) ==
    /\ kind \in {"log", "event"} /\ from \in Nat /\ n \in Nat /\ f \in [1..n -> Frame]
    /\ s \in Seq(Frame) /\ t = s \o f
    /\ \A h \in 1..n : f[h].kind = kind /\ f[h].at = from + h
    /\ \A i \in OfKind(s, kind) : s[i].at <= from
    /\ \A i, j \in OfKind(s, kind) : i < j => s[i].at < s[j].at

\* It keeps the order, and everything that was there.
Extended(s, t, kind, n, f) ==
    /\ t \in Seq(Frame)
    /\ \A m \in {"log", "event"} \ {kind} : OfKind(t, m) = OfKind(s, m)
    /\ \A m \in {"log", "event"} : \A i \in OfKind(s, m) : i \in OfKind(t, m) /\ t[i] = s[i]
    /\ \A i \in OfKind(t, kind) : (i \in OfKind(s, kind) /\ t[i] = s[i]) \/ \E h \in 1..n : t[i] = f[h]
    /\ \A h \in 1..n : \E i \in OfKind(t, kind) : t[i] = f[h]
    /\ \A i, j \in OfKind(t, kind) : i < j => t[i].at < t[j].at

LEMMA Extends ==
    ASSUME NEW s, NEW t, NEW kind, NEW from, NEW n, NEW f, Extension(s, t, kind, from, n, f)
    PROVE  Extended(s, t, kind, n, f)
<1> USE DEF Extension
<1>0. Len(s) \in Nat
    OBVIOUS
<1>1. /\ t \in Seq(Frame) /\ Len(t) = Len(s) + n
      /\ \A i \in 1..Len(s) : t[i] = s[i]
      /\ \A h \in 1..n : t[Len(s) + h] = f[h]
    BY Continued
<1>2. \A i \in 1..Len(t) : i \in 1..Len(s) \/ \E h \in 1..n : i = Len(s) + h
    <2> SUFFICES ASSUME NEW i \in 1..Len(t), i \notin 1..Len(s) PROVE \E h \in 1..n : i = Len(s) + h
        OBVIOUS
    <2>1. i - Len(s) \in 1..n /\ i = Len(s) + (i - Len(s))
        BY <1>0, <1>1
    <2> QED
        BY <2>1
<1>3. (\A i \in 1..Len(s) : i \in 1..Len(t)) /\ \A h \in 1..n : Len(s) + h \in 1..Len(t)
    BY <1>0, <1>1
<1>4. \A m \in {"log", "event"} : \A i \in OfKind(s, m) : i \in OfKind(t, m) /\ t[i] = s[i]
    BY <1>1, <1>3 DEF OfKind
<1>5. \A h \in 1..n : Len(s) + h \in OfKind(t, kind)
    BY <1>1, <1>3 DEF OfKind
<1>6. \A m \in {"log", "event"} : \A i \in OfKind(t, m) :
        \/ i \in OfKind(s, m) /\ t[i] = s[i]
        \/ m = kind /\ \E h \in 1..n : i = Len(s) + h /\ t[i] = f[h]
    BY <1>1, <1>2 DEF OfKind
<1>7. \A m \in {"log", "event"} \ {kind} : OfKind(t, m) = OfKind(s, m)
    BY <1>4, <1>6
<1>8. \A i, j \in OfKind(t, kind) : i < j => t[i].at < t[j].at
    <2> SUFFICES ASSUME NEW i \in OfKind(t, kind), NEW j \in OfKind(t, kind), i < j PROVE t[i].at < t[j].at
        OBVIOUS
    <2>1. \A q \in OfKind(s, kind) : q \in 1..Len(s) /\ s[q] \in Frame
        BY DEF OfKind
    <2>2. \A q \in OfKind(s, kind) : q \in 1..Len(s) /\ s[q].at \in Nat
        BY <2>1 DEF Frame
    <2>3. CASE j \in OfKind(s, kind) /\ t[j] = s[j]
        <3>1. i \in OfKind(s, kind) /\ t[i] = s[i]
            BY <1>0, <1>6, <2>2, <2>3
        <3> QED
            BY <2>3, <3>1
    <2>4. ASSUME NEW g \in 1..n, j = Len(s) + g, t[j] = f[g]
          PROVE  t[i].at < t[j].at
        <3>1. CASE i \in OfKind(s, kind) /\ t[i] = s[i]
            <4>1. s[i].at \in Nat /\ s[i].at <= from /\ t[j].at = from + g
                BY <2>2, <2>4, <3>1
            <4> QED
                BY <3>1, <4>1
        <3>2. ASSUME NEW h \in 1..n, i = Len(s) + h, t[i] = f[h]
              PROVE  t[i].at < t[j].at
            <4>1. t[i].at = from + h /\ t[j].at = from + g /\ h < g
                BY <1>0, <2>4, <3>2
            <4> QED
                BY <4>1
        <3> QED
            BY <1>6, <3>1, <3>2
    <2> QED
        BY <1>6, <2>3, <2>4
<1> QED
    BY <1>1, <1>4, <1>5, <1>6, <1>7, <1>8 DEF Extended

ServerPc == {"off", "note", "drain", "wait", "closed"}
Server == [pc : ServerPc, last : Nat, logPos : Nat, evPos : Nat, logged : BOOLEAN, ended : BOOLEAN]
ClientPc == {"connect", "read", "resolved", "thrown"}
Client == [pc : ClientPc, after : Nat, live : Nat, ended : BOOLEAN,
           progressed : BOOLEAN, gap : BOOLEAN, failures : 0..Retries]

-----------------------------------------------------------------------------
(* The inductive invariant                                                 *)

\* A connection has a server's side, and nothing is on the wire without one.
\* What the server has sent lies within the log and the events there are.
ConnInv ==
    /\ cl.pc = "read" <=> srv.pc # "off"
    /\ srv.pc \in {"off", "note"} => wire = <<>>
    /\ srv.pc # "off" => cl.after <= srv.last /\ srv.last <= Len(log)
    /\ srv.pc \notin {"off", "note"} => cl.live <= srv.evPos /\ srv.evPos <= Len(evs)
    /\ cl.live <= Len(evs)
    /\ cl.after <= Len(log)

\* On the wire are the seqs after the one the client has up to the server's
\* last, in order.
LogInv ==
    /\ ~cl.gap
    /\ \A i \in Sent("log") : wire[i].at > cl.after /\ wire[i].at <= srv.last
    /\ \A i, j \in Sent("log") : i < j => wire[i].at < wire[j].at
    /\ srv.pc # "off" => \A n \in cl.after + 1..srv.last : \E i \in Sent("log") : wire[i].at = n

\* And the events after the client's up to the server's position, in order; one
\* that is missing there was trimmed.
EventInv ==
    /\ \A i \in Sent("event") : wire[i].at > cl.live /\ wire[i].at <= srv.evPos
    /\ \A i, j \in Sent("event") : i < j => wire[i].at < wire[j].at
    /\ srv.pc \notin {"off", "note"} =>
         \A n \in gone + 1..srv.evPos : n <= cl.live \/ \E i \in Sent("event") : wire[i].at = n

\* Whatever says that the run is over says the truth, or what a fenced
\* collaboration step said.
Truth == Over \/ wrong
EndInv ==
    /\ \A i \in Sent("log") : wire[i].what = "over" => Truth
    /\ \A i \in Sent("event") : wire[i].what = "end" => Truth
    /\ \A i \in 1..Len(evs) : evs[i] = "end" => Truth
    /\ \A o \in owed : o.end \/ o.told => Truth
    /\ cl.ended => Truth
    /\ cl.pc = "resolved" => Truth

FInv == TypeOK /\ ConnInv /\ LogInv /\ EventInv /\ TokensOnce /\ EndInv

LEMMA Types ==
    ASSUME TypeOK
    PROVE  /\ srv \in Server /\ cl \in Client /\ wire \in Seq(Frame) /\ handed \in Seq(Nat)
           /\ srv.pc \in ServerPc /\ srv.last \in Nat /\ srv.logPos \in Nat /\ srv.evPos \in Nat
           /\ srv.logged \in BOOLEAN /\ srv.ended \in BOOLEAN
           /\ cl.pc \in ClientPc /\ cl.after \in Nat /\ cl.live \in Nat /\ cl.ended \in BOOLEAN
           /\ cl.progressed \in BOOLEAN /\ cl.gap \in BOOLEAN /\ cl.failures \in 0..Retries
           /\ Len(log) \in Nat /\ Len(evs) \in Nat /\ Len(heads) \in Nat /\ gone \in Nat
<1>1. srv \in Server /\ cl \in Client /\ wire \in Seq(Frame) /\ handed \in Seq(Nat)
    BY DEF TypeOK, Server, ServerPc, Client, ClientPc, Frame
<1>2. Len(log) \in Nat /\ Len(evs) \in Nat /\ Len(heads) \in Nat /\ gone \in Nat
    BY DEF TypeOK
<1> QED
    BY <1>1, <1>2 DEF Server, Client

-----------------------------------------------------------------------------
(* The run goes on                                                         *)

\* Whatever the run does, log and events only grow and what was true stays so.
LEMMA RunGrows ==
    ASSUME FInv, TypeOK', UNCHANGED <<srv, wire, cl, handed>>,
           Len(log) <= Len(log'), Len(evs) <= Len(evs'), gone <= gone',
           Truth => Truth',
           \A i \in 1..Len(evs') : evs'[i] = "end" => Truth',
           \A o \in owed' : o.end \/ o.told => Truth'
    PROVE  FInv'
<1>a. TypeOK
    BY DEF FInv
<1>b. Len(log') \in Nat /\ Len(evs') \in Nat /\ gone' \in Nat
    BY DEF TypeOK
<1>0. /\ Len(log) \in Nat /\ Len(evs) \in Nat /\ gone \in Nat
      /\ srv.last \in Nat /\ srv.evPos \in Nat /\ cl.live \in Nat /\ cl.after \in Nat
    BY <1>a, Types
<1>1. Sent("log")' = Sent("log") /\ Sent("event")' = Sent("event")
    BY DEF Sent
<1>2. ConnInv'
    BY <1>0, <1>b DEF FInv, ConnInv
<1>3. LogInv'
    BY <1>1 DEF FInv, LogInv
<1>6. EventInv'
    <2>1. \A n \in gone' + 1..srv.evPos : n \in gone + 1..srv.evPos
        BY <1>0, <1>b, Narrower
    <2> QED
        BY <1>1, <2>1 DEF FInv, EventInv
<1>4. TokensOnce'
    <2>1. \A n \in gone' + 1..cl.live : n \in gone + 1..cl.live
        BY <1>0, <1>b, Narrower
    <2> QED
        BY <2>1 DEF FInv, TokensOnce
<1>5. EndInv'
    BY <1>1 DEF FInv, EndInv
<1> QED
    BY <1>2, <1>3, <1>4, <1>5, <1>6 DEF FInv

LEMMA FollowCommit ==
    ASSUME FInv, NEW n \in 1..2, NEW s \in {"going", "over"}, NEW end \in BOOLEAN, Commit(n, s, end)
    PROVE  FInv'
<1> DEFINE f == [i \in 1..n |-> IF i = n THEN s ELSE "note"]
           S == {"note", "going", "over"}
<1>0. TypeOK /\ log \in Seq(S) /\ n \in Nat /\ f \in [1..n -> S] /\ f[n] = s
    BY DEF FInv, TypeOK
<1>1. log' = log \o f /\ owed' = owed \cup {[head |-> Len(log) + n, told |-> FALSE, end |-> end]} /\ (end => s = "over")
    BY DEF Commit
<1>2. UNCHANGED <<heads, evs, gone, wrong, srv, wire, cl, handed, breaks>>
    BY DEF Commit
<1> HIDE DEF f, S
<1>3. /\ log' \in Seq(S) /\ Len(log') = Len(log) + n
      /\ \A i \in 1..Len(log) : log'[i] = log[i]
      /\ log'[Len(log) + n] = s
    <2>1. n \in 1..n
        BY <1>0
    <2> QED
        BY <1>0, <1>1, <2>1, Continued
<1>4. Len(log) \in Nat
    BY <1>0
<1>5. TypeOK'
    <2>1. owed' \subseteq [head : 1..Len(log'), told : BOOLEAN, end : BOOLEAN]
        <3>1. 1..Len(log) \subseteq 1..Len(log') /\ Len(log) + n \in 1..Len(log')
            BY <1>0, <1>3, <1>4
        <3>2. owed \subseteq [head : 1..Len(log), told : BOOLEAN, end : BOOLEAN]
            BY <1>0 DEF TypeOK
        <3>3. [head |-> Len(log) + n, told |-> FALSE, end |-> end] \in [head : 1..Len(log'), told : BOOLEAN, end : BOOLEAN]
            BY <3>1
        <3>4. owed \subseteq [head : 1..Len(log'), told : BOOLEAN, end : BOOLEAN]
            BY <3>1, <3>2
        <3> QED
            BY <1>1, <3>3, <3>4
    <2> QED
        BY <1>0, <1>2, <1>3, <2>1 DEF TypeOK, S
<1>6. (Over => Over') /\ (end => Over')
    <2>1. Len(log) + n \in 1..Len(log')
        BY <1>3, <1>4
    <2>2. \A i \in 1..Len(log) : i \in 1..Len(log')
        BY <1>3, <1>4
    <2> QED
        BY <1>1, <1>3, <2>1, <2>2 DEF Over
<1>7. Truth => Truth'
    BY <1>2, <1>6 DEF Truth
<1>8. \A o \in owed' : o.end \/ o.told => Truth'
    BY <1>1, <1>6, <1>7 DEF FInv, EndInv, Truth
<1>9. \A i \in 1..Len(evs') : evs'[i] = "end" => Truth'
    BY <1>2, <1>7 DEF FInv, EndInv
<1> QED
    BY <1>2, <1>3, <1>4, <1>5, <1>7, <1>8, <1>9, RunGrows, Types DEF FInv

LEMMA FollowOwed ==
    ASSUME FInv, NEW o \in owed, Announce(o) \/ Lose(o) \/ EmitEnd(o)
    PROVE  FInv'
<1> DEFINE Owed == [head : 1..Len(log), told : BOOLEAN, end : BOOLEAN]
<1>a. TypeOK
    BY DEF FInv
<1>0. o \in Owed /\ owed \subseteq Owed /\ Len(evs) \in Nat /\ Len(log) \in Nat /\ gone \in Nat
    BY <1>a, Types DEF TypeOK
<1>1. UNCHANGED <<log, gone, wrong, srv, wire, cl, handed, breaks>> /\ (Truth' <=> Truth)
    BY DEF Announce, Lose, EmitEnd, Truth, Over
<1>2. Told(o) \subseteq Owed /\ \A q \in Told(o) : q.end \/ q.told => Truth
    <2>1. [o EXCEPT !.told = TRUE] \in Owed /\ [o EXCEPT !.told = TRUE].end = o.end
        BY <1>0
    <2>2. \A q \in owed : q.end \/ q.told => Truth
        BY DEF FInv, EndInv
    <2> QED
        BY <1>0, <2>1, <2>2 DEF Told
<1>3. owed' \subseteq Owed /\ \A q \in owed' : q.end \/ q.told => Truth
    BY <1>0, <1>2 DEF Announce, Lose, EmitEnd, FInv, EndInv
<1>4. heads' \in Seq(Nat)
    <2>1. o.head \in Nat /\ heads \in Seq(Nat)
        BY <1>a, <1>0 DEF TypeOK
    <2>2. heads' = heads \/ heads' = Append(heads, o.head)
        BY DEF Announce, Lose, EmitEnd
    <2> QED
        BY <2>1, <2>2
<1>5. /\ evs' \in Seq({"token", "end"}) /\ Len(evs') \in Nat /\ Len(evs) <= Len(evs')
      /\ \A i \in 1..Len(evs') : evs'[i] = "end" => Truth
    <2>1. CASE EmitEnd(o)
        BY <1>a, <2>1 DEF EmitEnd, TypeOK, FInv, EndInv
    <2>2. CASE Announce(o) \/ Lose(o)
        BY <1>a, <1>0, <2>2 DEF Announce, Lose, TypeOK, FInv, EndInv
    <2> QED
        BY <2>1, <2>2
<1>6. TypeOK'
    BY <1>a, <1>1, <1>3, <1>4, <1>5, <1>0 DEF TypeOK
<1> QED
    BY <1>0, <1>1, <1>3, <1>5, <1>6, RunGrows

LEMMA FollowEmits ==
    ASSUME FInv, EmitToken \/ EmitFenced \/ Trim
    PROVE  FInv'
<1>a. TypeOK
    BY DEF FInv
<1>0. Len(evs) \in Nat /\ Len(log) \in Nat /\ gone \in Nat
    BY <1>a, Types
<1>1. UNCHANGED <<log, owed, heads, srv, wire, cl, handed, breaks>> /\ (Truth => Truth')
    <2>1. UNCHANGED <<log, owed, heads, srv, wire, cl, handed, breaks>> /\ (wrong => wrong')
        <3>1. CASE EmitToken \/ Trim
            BY <3>1 DEF EmitToken, Trim
        <3>2. CASE EmitFenced
            BY <3>2, Zenon DEF EmitFenced
        <3> QED
            BY <3>1, <3>2
    <2> QED
        BY <2>1 DEF Truth, Over
<1>2. /\ evs' \in Seq({"token", "end"}) /\ Len(evs') \in Nat /\ Len(evs) <= Len(evs')
      /\ \A i \in 1..Len(evs') : evs'[i] = "end" => Truth'
    <2>1. CASE EmitToken
        <3>1. evs' = Append(evs, "token") /\ evs \in Seq({"token", "end"})
            BY <1>a, <2>1 DEF EmitToken, TypeOK
        <3>2. \A i \in 1..Len(evs) : evs[i] = "end" => Truth'
            BY <1>1 DEF FInv, EndInv
        <3> QED
            BY <3>1, <3>2
    <2>2. CASE EmitFenced
        <3>1. Truth'
            <4>1. Over' <=> Over
                BY <1>1 DEF Over
            <4> QED
                BY <2>2, <4>1 DEF EmitFenced, Truth
        <3>2. evs' = Append(evs, "end") /\ evs \in Seq({"token", "end"})
            BY <1>a, <2>2 DEF EmitFenced, TypeOK
        <3> QED
            BY <3>1, <3>2
    <2>3. CASE Trim
        BY <1>a, <1>0, <1>1, <2>3 DEF Trim, TypeOK, FInv, EndInv
    <2> QED
        BY <2>1, <2>2, <2>3
<1>3. gone' \in 0..Len(evs') /\ gone <= gone' /\ wrong' \in BOOLEAN
    <2>1. wrong' \in BOOLEAN
        BY <1>a DEF EmitToken, EmitFenced, Trim, TypeOK
    <2>2. gone \in 0..Len(evs) /\ (gone' = gone \/ (evs' = evs /\ gone' \in gone + 1..Len(evs)))
        BY <1>a DEF EmitToken, EmitFenced, Trim, TypeOK
    <2> QED
        BY <1>0, <1>2, <2>1, <2>2
<1>4. TypeOK'
    BY <1>a, <1>1, <1>2, <1>3 DEF TypeOK
<1>5. \A o \in owed' : o.end \/ o.told => Truth'
    BY <1>1 DEF FInv, EndInv
<1> QED
    BY <1>0, <1>1, <1>2, <1>3, <1>4, <1>5, RunGrows
-----------------------------------------------------------------------------
(* The server                                                              *)

\* A step of the server that sends nothing.
LEMMA ServerQuiet ==
    ASSUME FInv, UNCHANGED <<run, wire, cl, handed>>, breaks' \in 0..MaxBreaks, srv' \in Server,
           srv.pc \notin {"off", "note"}, srv'.pc \notin {"off", "note"},
           srv'.last = srv.last, srv'.evPos = srv.evPos
    PROVE  FInv'
<1>1. TypeOK'
    BY DEF FInv, TypeOK, Server, ServerPc, run
<1>2. Sent("log")' = Sent("log") /\ Sent("event")' = Sent("event") /\ (Truth' <=> Truth) /\ UNCHANGED <<log, evs, owed, gone>>
    BY DEF Sent, Truth, Over, run
<1>3. ConnInv' /\ LogInv' /\ EventInv'
    BY <1>2 DEF FInv, ConnInv, LogInv, EventInv
<1>4. TokensOnce' /\ EndInv'
    BY <1>2 DEF FInv, TokensOnce, EndInv
<1> QED
    BY <1>1, <1>3, <1>4 DEF FInv

LEMMA FollowServesQuietly ==
    ASSUME FInv, IdleRead \/ GraceOver \/ Deadline
    PROVE  FInv'
<1>a. TypeOK /\ breaks \in 0..MaxBreaks
    BY DEF FInv, TypeOK
<1>0. srv \in Server
    BY <1>a, Types
<1>1. breaks' \in 0..MaxBreaks
    BY <1>a, RunFollowAssumption DEF IdleRead, GraceOver, Deadline
<1>2. PICK p \in {"drain", "closed"} : srv' = [srv EXCEPT !.pc = p]
    BY DEF IdleRead, GraceOver, Deadline
<1>3. srv' \in Server /\ srv'.pc = p /\ srv'.last = srv.last /\ srv'.evPos = srv.evPos
    BY <1>0, <1>2 DEF Server, ServerPc
<1>4. srv.pc = "wait" /\ UNCHANGED <<run, wire, cl, handed>>
    BY DEF IdleRead, GraceOver, Deadline
<1> QED
    BY <1>1, <1>3, <1>4, ServerQuiet

LEMMA FollowNotes ==
    ASSUME FInv, NoteEnds
    PROVE  FInv'
<1>a. TypeOK
    BY DEF FInv
<1>0. srv \in Server /\ cl.live \in Nat /\ Len(heads) \in Nat /\ Len(evs) \in Nat
    BY <1>a, Types
<1>1. /\ srv' = [srv EXCEPT !.pc = "drain", !.logPos = Len(heads), !.evPos = cl.live]
      /\ srv.pc = "note" /\ UNCHANGED <<run, wire, cl, handed, breaks>>
    BY DEF NoteEnds, EventsFrom
<1>2. srv' \in Server /\ srv'.pc = "drain" /\ srv'.last = srv.last /\ srv'.evPos = cl.live
    BY <1>0, <1>1 DEF Server, ServerPc
<1>3. TypeOK'
    BY <1>a, <1>1, <1>2 DEF TypeOK, Server, ServerPc, run
<1>4. wire = <<>> /\ UNCHANGED <<log, evs, owed, gone>> /\ (Truth' <=> Truth)
    BY <1>1 DEF FInv, ConnInv, run, Truth, Over
<1>5. Sent("log") = {} /\ Sent("event") = {} /\ Sent("log")' = {} /\ Sent("event")' = {}
    BY <1>1, <1>4 DEF Sent
<1>6. ConnInv' /\ LogInv'
    BY <1>0, <1>1, <1>2, <1>4, <1>5 DEF FInv, ConnInv, LogInv
<1>7. EventInv'
    BY <1>0, <1>a, <1>1, <1>2, <1>4, <1>5, Types DEF FInv, EventInv
<1>8. TokensOnce' /\ EndInv'
    BY <1>1, <1>4, <1>5 DEF FInv, TokensOnce, EndInv
<1> QED
    BY <1>3, <1>6, <1>7, <1>8 DEF FInv

\* A page: the seqs after the last one sent, up to the log's end.
LEMMA FollowDrains ==
    ASSUME FInv, Drain
    PROVE  FInv'
<1> DEFINE from == srv.last
           to == Upto(from, Len(log), Page)
           n == to - from
           f == [i \in 1..n |-> LogFrame(from + i)]
<1>a. TypeOK
    BY DEF FInv
<1>0. /\ srv \in Server /\ srv.last \in Nat /\ Len(log) \in Nat /\ cl.after \in Nat /\ wire \in Seq(Frame) /\ Page \in Nat
    BY <1>a, Types, RunFollowAssumption
<1>1. srv.pc = "drain" /\ srv.last <= Len(log) /\ cl.after <= srv.last
    BY DEF Drain, FInv, ConnInv
<1>2. /\ wire' = wire \o f /\ UNCHANGED <<run, cl, handed, breaks>>
      /\ \E p \in {"drain", "closed", "wait"}, b \in BOOLEAN : srv' = [srv EXCEPT !.last = to, !.logged = b, !.pc = p]
    <2>1. srv' = [srv EXCEPT !.last = to,
                         !.logged = srv.logged \/ \E i \in from + 1..to : log[i] = "over",
                         !.pc = IF to - from = Page THEN "drain" ELSE IF srv.ended THEN "closed" ELSE "wait"]
        BY <1>0 DEF Drain, PageFrom, Server
    <2>2. (srv.logged \/ \E i \in from + 1..to : log[i] = "over") \in BOOLEAN
        OBVIOUS
    <2> HIDE DEF to, n, f
    <2> QED
        BY <2>1, <2>2 DEF Drain, PageFrom, to, n, f
<1>3. to \in from..Len(log) /\ n \in Nat /\ to \in Nat
    <2>1. to \in from..Len(log)
        BY <1>0, <1>1, UptoBounds
    <2> HIDE DEF to
    <2> QED
        BY <1>0, <2>1
<1>4. f \in [1..n -> Frame]
    <2>1. \A i \in 1..n : from + i \in 1..Len(log)
        BY <1>0, <1>3
    <2>2. \A i \in 1..n : log[from + i] \in {"note", "going", "over"}
        BY <1>a, <2>1 DEF TypeOK
    <2>3. \A i \in 1..n : LogFrame(from + i) \in Frame
        BY <2>1, <2>2 DEF LogFrame, Frame
    <2> QED
        BY <2>3
<1>5. \A i \in 1..n : f[i].kind = "log" /\ f[i].at = from + i /\ f[i].what = log[from + i]
    BY DEF LogFrame
<1>9. UNCHANGED <<log, evs, owed, gone>> /\ (Truth' <=> Truth) /\ n = to - from
    BY <1>2 DEF run, Truth, Over
<1> HIDE DEF f, n, to
<1>6. /\ wire' \in Seq(Frame)
      /\ Sent("event")' = Sent("event")
      /\ \A i \in Sent("log") : i \in Sent("log")' /\ wire'[i] = wire[i]
      /\ \A i \in Sent("event") : wire'[i] = wire[i]
      /\ \A i \in Sent("log")' : (i \in Sent("log") /\ wire'[i] = wire[i]) \/ \E h \in 1..n : wire'[i] = f[h]
      /\ \A h \in 1..n : \E i \in Sent("log")' : wire'[i] = f[h]
      /\ \A i, j \in Sent("log")' : i < j => wire'[i].at < wire'[j].at
    <2>1. /\ \A i \in Sent("log") : wire[i].at <= from
          /\ \A i, j \in Sent("log") : i < j => wire[i].at < wire[j].at
        BY DEF FInv, LogInv
    <2>2. \A h \in 1..n : f[h].kind = "log" /\ f[h].at = from + h
        BY <1>5
    <2> HIDE DEF from
    <2>3. from \in Nat
        BY <1>0 DEF from
    <2>4. /\ Sent("log") = OfKind(wire, "log") /\ Sent("event") = OfKind(wire, "event")
          /\ Sent("log")' = OfKind(wire', "log") /\ Sent("event")' = OfKind(wire', "event")
        BY DEF Sent, OfKind
    <2>5. /\ \A i \in OfKind(wire, "log") : wire[i].at <= from
          /\ \A i, j \in OfKind(wire, "log") : i < j => wire[i].at < wire[j].at
        BY <2>1, <2>4
    <2>6. Extension(wire, wire', "log", from, n, f)
        <3>1. wire' = wire \o f /\ wire \in Seq(Frame) /\ n \in Nat
            BY <1>0, <1>2, <1>3
        <3> QED
            BY <1>4, <2>2, <2>3, <2>5, <3>1 DEF Extension
    <2>7. Extended(wire, wire', "log", n, f)
        BY <2>6, Extends
    <2> QED
        BY <2>4, <2>7 DEF Extended
<1>7. srv' \in Server /\ srv'.pc \in {"drain", "closed", "wait"} /\ srv'.last = to /\ srv'.evPos = srv.evPos
    BY <1>0, <1>2, <1>3 DEF Server, ServerPc
<1>8. TypeOK'
    BY <1>a, <1>2, <1>6, <1>7 DEF TypeOK, Server, ServerPc, run, Frame
<1>12. ConnInv'
    BY <1>0, <1>1, <1>2, <1>3, <1>7, <1>9 DEF FInv, ConnInv
<1>13. LogInv'
    <2>1. /\ ~cl.gap
          /\ \A i \in Sent("log") : wire[i].at > cl.after /\ wire[i].at <= from
          /\ \A m \in cl.after + 1..from : \E i \in Sent("log") : wire[i].at = m
        BY <1>1 DEF FInv, LogInv
    <2>2. \A i \in Sent("log")' : wire'[i].at > cl.after /\ wire'[i].at <= to
        <3> SUFFICES ASSUME NEW i \in Sent("log")' PROVE wire'[i].at > cl.after /\ wire'[i].at <= to
            OBVIOUS
        <3>1. CASE i \in Sent("log") /\ wire'[i] = wire[i]
            <4>1. wire[i] \in Frame
                BY <1>0, <3>1 DEF Sent
            <4>2. wire[i].at \in Nat
                BY <4>1 DEF Frame
            <4> QED
                BY <1>0, <1>3, <2>1, <3>1, <4>2
        <3>2. ASSUME NEW h \in 1..n, wire'[i] = f[h] PROVE wire'[i].at > cl.after /\ wire'[i].at <= to
            <4>1. wire'[i].at = from + h
                BY <1>5, <3>2
            <4> QED
                BY <1>0, <1>1, <1>3, <1>9, <4>1
        <3> QED
            BY <1>6, <3>1, <3>2
    <2>4. \A m \in cl.after + 1..to : \E i \in Sent("log")' : wire'[i].at = m
        <3> SUFFICES ASSUME NEW m \in cl.after + 1..to PROVE \E i \in Sent("log")' : wire'[i].at = m
            OBVIOUS
        <3>1. CASE m <= from
            <4>1. m \in cl.after + 1..from
                BY <1>0, <1>3, <3>1
            <4> QED
                BY <1>6, <2>1, <4>1
        <3>2. CASE m > from
            <4>1. m - from \in 1..n /\ from + (m - from) = m
                BY <1>0, <1>3, <1>9, <3>2
            <4>2. f[m - from].at = m
                BY <1>5, <4>1
            <4> QED
                BY <1>6, <4>1, <4>2
        <3> QED
            BY <1>0, <1>3, <3>1, <3>2
    <2> QED
        BY <1>2, <1>6, <1>7, <2>1, <2>2, <2>4 DEF LogInv
<1>14. EventInv'
    <2>1. Sent("event")' = Sent("event") /\ \A i \in Sent("event") : wire'[i] = wire[i]
        BY <1>6
    <2>2. UNCHANGED <<cl, gone>> /\ srv.pc \notin {"off", "note"} /\ srv'.evPos = srv.evPos
        BY <1>1, <1>2, <1>7, <1>9
    <2> QED
        BY <2>1, <2>2 DEF FInv, EventInv
<1>15. TokensOnce'
    BY <1>2, <1>9 DEF FInv, TokensOnce
<1>16. EndInv'
    <2>1. \A i \in Sent("log")' : wire'[i].what = "over" => Truth
        <3>1. \A k \in 1..n : from + k \in 1..Len(log)
            BY <1>0, <1>3, <1>9
        <3>2. \A k \in 1..n : f[k].what = "over" => Truth
            BY <1>5, <3>1 DEF Truth, Over
        <3> QED
            BY <1>6, <3>2 DEF FInv, EndInv
    <2>2. \A i \in Sent("event")' : wire'[i].what = "end" => Truth
        BY <1>6 DEF FInv, EndInv
    <2> QED
        BY <1>2, <1>9, <2>1, <2>2 DEF FInv, EndInv
<1> QED
    BY <1>8, <1>12, <1>13, <1>14, <1>15, <1>16 DEF FInv

\* One XREAD: the events after the server's position that are not trimmed.
LEMMA FollowReads ==
    ASSUME FInv, Read
    PROVE  FInv'
<1> DEFINE from == From
           to == Upto(from, Len(evs), Count)
           n == to - from
           f == [i \in 1..n |-> EventFrame(from + i)]
           head == Upto(srv.logPos, Len(heads), Count)
<1>a. TypeOK
    BY DEF FInv
<1>0. /\ srv \in Server /\ srv.last \in Nat /\ srv.evPos \in Nat /\ srv.logPos \in Nat /\ Len(evs) \in Nat /\ Len(heads) \in Nat
      /\ cl.live \in Nat /\ wire \in Seq(Frame) /\ Count \in Nat /\ gone \in Nat /\ gone <= Len(evs)
    BY <1>a, Types, RunFollowAssumption DEF TypeOK
<1>1. srv.pc = "wait" /\ srv.evPos <= Len(evs) /\ cl.live <= srv.evPos
    BY DEF Read, FInv, ConnInv
<1>2. /\ wire' = wire \o f /\ UNCHANGED <<run, cl, handed, breaks>>
      /\ \E p \in {"drain", "wait"}, b \in BOOLEAN :
            srv' = [srv EXCEPT !.logPos = head, !.evPos = IF to > from THEN to ELSE srv.evPos, !.ended = b, !.pc = p]
    <2>1. srv' = [srv EXCEPT !.logPos = head, !.evPos = IF to > from THEN to ELSE srv.evPos,
                         !.ended = (\E i \in from + 1..to : evs[i] = "end"),
                         !.pc = IF (\E i \in srv.logPos + 1..head : heads[i] > srv.last) \/ (\E i \in from + 1..to : evs[i] = "end")
                                THEN "drain" ELSE "wait"]
        BY <1>0 DEF Read, Server
    <2>2. (\E i \in from + 1..to : evs[i] = "end") \in BOOLEAN
        OBVIOUS
    <2> HIDE DEF to, n, f, head, from
    <2> QED
        BY <2>1, <2>2 DEF Read, to, n, f, from
<1>3. from \in Nat /\ srv.evPos <= from /\ gone <= from /\ from <= Len(evs) /\ (from = srv.evPos \/ from = gone)
    BY <1>0, <1>1 DEF From
<1>4. to \in from..Len(evs) /\ n \in Nat /\ to \in Nat /\ head \in Nat
    <2>1. to \in from..Len(evs)
        BY <1>0, <1>3, UptoBounds
    <2>2. head \in Nat
        BY <1>0 DEF Upto
    <2> HIDE DEF to, head, from
    <2> QED
        BY <1>0, <1>3, <2>1, <2>2
<1> HIDE DEF head
<1>5. f \in [1..n -> Frame]
    <2>1. \A i \in 1..n : from + i \in 1..Len(evs)
        BY <1>0, <1>3, <1>4
    <2>2. \A i \in 1..n : evs[from + i] \in {"token", "end"}
        BY <1>a, <2>1 DEF TypeOK
    <2>3. \A i \in 1..n : EventFrame(from + i) \in Frame
        BY <2>1, <2>2 DEF EventFrame, Frame
    <2> QED
        BY <2>3
<1>6. \A i \in 1..n : f[i].kind = "event" /\ f[i].at = from + i /\ f[i].what = evs[from + i]
    BY DEF EventFrame
<1>7. UNCHANGED <<log, evs, owed, gone>> /\ (Truth' <=> Truth) /\ n = to - from
    BY <1>2 DEF run, Truth, Over
<1> HIDE DEF f, n, to, from
<1>8. /\ wire' \in Seq(Frame)
      /\ Sent("log")' = Sent("log")
      /\ \A i \in Sent("event") : i \in Sent("event")' /\ wire'[i] = wire[i]
      /\ \A i \in Sent("log") : wire'[i] = wire[i]
      /\ \A i \in Sent("event")' : (i \in Sent("event") /\ wire'[i] = wire[i]) \/ \E h \in 1..n : wire'[i] = f[h]
      /\ \A h \in 1..n : \E i \in Sent("event")' : wire'[i] = f[h]
      /\ \A i, j \in Sent("event")' : i < j => wire'[i].at < wire'[j].at
    <2>1. /\ \A i \in Sent("event") : wire[i].at <= srv.evPos
          /\ \A i, j \in Sent("event") : i < j => wire[i].at < wire[j].at
        BY DEF FInv, EventInv
    <2>2. \A h \in 1..n : f[h].kind = "event" /\ f[h].at = from + h
        BY <1>6
    <2>3. \A i \in Sent("event") : wire[i].at \in Nat
        <3>1. \A i \in Sent("event") : wire[i] \in Frame
            BY <1>0 DEF Sent
        <3> QED
            BY <3>1 DEF Frame
    <2>4. /\ Sent("log") = OfKind(wire, "log") /\ Sent("event") = OfKind(wire, "event")
          /\ Sent("log")' = OfKind(wire', "log") /\ Sent("event")' = OfKind(wire', "event")
        BY DEF Sent, OfKind
    <2>8. \A i \in Sent("event") : wire[i].at <= from
        BY <1>0, <1>3, <2>1, <2>3
    <2>5. /\ \A i \in OfKind(wire, "event") : wire[i].at <= from
          /\ \A i, j \in OfKind(wire, "event") : i < j => wire[i].at < wire[j].at
        BY <2>1, <2>4, <2>8
    <2>6. Extension(wire, wire', "event", from, n, f)
        <3>1. wire' = wire \o f /\ wire \in Seq(Frame) /\ n \in Nat /\ from \in Nat
            BY <1>0, <1>2, <1>3, <1>4
        <3> QED
            BY <1>5, <2>2, <2>5, <3>1 DEF Extension
    <2>7. Extended(wire, wire', "event", n, f)
        BY <2>6, Extends
    <2> QED
        BY <2>4, <2>7 DEF Extended
<1>9. /\ srv' \in Server /\ srv'.pc \in {"drain", "wait"} /\ srv'.last = srv.last
      /\ srv'.evPos = (IF to > from THEN to ELSE srv.evPos)
    BY <1>0, <1>2, <1>4 DEF Server, ServerPc
<1>10. TypeOK'
    BY <1>a, <1>2, <1>8, <1>9 DEF TypeOK, Server, ServerPc, run, Frame
<1>11. srv'.evPos \in Nat /\ srv.evPos <= srv'.evPos /\ srv'.evPos <= Len(evs) /\ (n > 0 => srv'.evPos = to)
    BY <1>0, <1>1, <1>3, <1>4, <1>7, <1>9
<1>12. ConnInv'
    BY <1>0, <1>1, <1>2, <1>7, <1>9, <1>11 DEF FInv, ConnInv
<1>13. LogInv'
    <2>1. Sent("log")' = Sent("log") /\ \A i \in Sent("log") : wire'[i] = wire[i]
        BY <1>8
    <2>2. UNCHANGED cl /\ srv.pc # "off" /\ srv'.last = srv.last
        BY <1>1, <1>2, <1>9
    <2> QED
        BY <2>1, <2>2 DEF FInv, LogInv
<1>14. EventInv'
    <2>1. /\ \A i \in Sent("event") : wire[i].at > cl.live /\ wire[i].at <= srv.evPos
          /\ \A m \in gone + 1..srv.evPos : m <= cl.live \/ \E i \in Sent("event") : wire[i].at = m
        BY <1>1 DEF FInv, EventInv
    <2>2. \A i \in Sent("event")' : wire'[i].at > cl.live /\ wire'[i].at <= srv'.evPos
        <3> SUFFICES ASSUME NEW i \in Sent("event")' PROVE wire'[i].at > cl.live /\ wire'[i].at <= srv'.evPos
            OBVIOUS
        <3>1. CASE i \in Sent("event") /\ wire'[i] = wire[i]
            <4>1. wire[i] \in Frame
                BY <1>0, <3>1 DEF Sent
            <4>2. wire[i].at \in Nat
                BY <4>1 DEF Frame
            <4> QED
                BY <1>0, <1>11, <2>1, <3>1, <4>2
        <3>2. ASSUME NEW h \in 1..n, wire'[i] = f[h] PROVE wire'[i].at > cl.live /\ wire'[i].at <= srv'.evPos
            <4>1. wire'[i].at = from + h /\ srv'.evPos = to
                BY <1>4, <1>6, <1>11, <3>2
            <4> QED
                BY <1>0, <1>1, <1>3, <1>4, <1>7, <4>1
        <3> QED
            BY <1>8, <3>1, <3>2
    <2>3. \A m \in gone + 1..srv'.evPos : m <= cl.live \/ \E i \in Sent("event")' : wire'[i].at = m
        <3> SUFFICES ASSUME NEW m \in gone + 1..srv'.evPos PROVE m <= cl.live \/ \E i \in Sent("event")' : wire'[i].at = m
            OBVIOUS
        <3>1. CASE m <= srv.evPos
            <4>1. m \in gone + 1..srv.evPos
                BY <1>0, <1>11, <3>1
            <4> QED
                BY <1>8, <2>1, <4>1
        <3>2. CASE m > srv.evPos
            <4>1. m - from \in 1..n /\ from + (m - from) = m
                BY <1>0, <1>3, <1>4, <1>7, <1>9, <1>11, <3>2
            <4>2. f[m - from].at = m
                BY <1>6, <4>1
            <4> QED
                BY <1>8, <4>1, <4>2
        <3> QED
            BY <1>0, <1>11, <3>1, <3>2
    <2> QED
        BY <1>2, <1>7, <1>8, <2>2, <2>3 DEF EventInv
<1>15. TokensOnce'
    BY <1>2, <1>7 DEF FInv, TokensOnce
<1>16. EndInv'
    <2>1. \A i \in Sent("event")' : wire'[i].what = "end" => Truth
        <3>1. \A k \in 1..n : from + k \in 1..Len(evs)
            BY <1>0, <1>3, <1>4, <1>7
        <3>2. \A k \in 1..n : f[k].what = "end" => Truth
            BY <1>6, <3>1 DEF FInv, EndInv
        <3> QED
            BY <1>8, <3>2 DEF FInv, EndInv
    <2>2. \A i \in Sent("log")' : wire'[i].what = "over" => Truth
        BY <1>8 DEF FInv, EndInv
    <2> QED
        BY <1>2, <1>7, <2>1, <2>2 DEF FInv, EndInv
<1> QED
    BY <1>10, <1>12, <1>13, <1>14, <1>15, <1>16 DEF FInv

-----------------------------------------------------------------------------
(* The follower                                                            *)

LEMMA FollowOpens ==
    ASSUME FInv, Open
    PROVE  FInv'
<1>a. TypeOK
    BY DEF FInv
<1>0. srv \in Server /\ cl \in Client /\ cl.after \in Nat /\ cl.live \in Nat /\ Len(log) \in Nat /\ Len(evs) \in Nat
    BY <1>a, Types
<1>1. /\ cl.pc = "connect" /\ cl' = [cl EXCEPT !.pc = "read"]
      /\ srv' = [Off EXCEPT !.pc = "note", !.last = cl.after] /\ UNCHANGED <<run, wire, handed, breaks>>
    BY DEF Open
<1>2. /\ cl' \in Client /\ cl'.pc = "read" /\ cl'.after = cl.after /\ cl'.live = cl.live
      /\ cl'.ended = cl.ended /\ cl'.gap = cl.gap
    BY <1>0, <1>1 DEF Client, ClientPc
<1>3. srv' \in Server /\ srv'.pc = "note" /\ srv'.last = cl.after
    BY <1>0, <1>1 DEF Off, Server, ServerPc
<1>4. TypeOK'
    BY <1>a, <1>1, <1>2, <1>3 DEF TypeOK, Server, ServerPc, Client, ClientPc, run
<1>5. wire = <<>> /\ UNCHANGED <<log, evs, owed, gone>> /\ (Truth' <=> Truth)
    BY <1>1 DEF FInv, ConnInv, run, Truth, Over
<1>6. Sent("log")' = {} /\ Sent("event")' = {}
    BY <1>1, <1>5 DEF Sent
<1>7. ConnInv'
    BY <1>0, <1>1, <1>2, <1>3, <1>5 DEF FInv, ConnInv
<1>8. LogInv' /\ EventInv'
    <2>1. cl'.after + 1..srv'.last = {}
        BY <1>0, <1>2, <1>3
    <2> QED
        BY <1>2, <1>3, <1>6, <2>1 DEF FInv, LogInv, EventInv
<1>9. TokensOnce' /\ EndInv'
    BY <1>1, <1>2, <1>5, <1>6 DEF FInv, TokensOnce, EndInv
<1> QED
    BY <1>4, <1>7, <1>8, <1>9 DEF FInv

\* The connection is over, whichever way.
LEMMA FollowFinishes ==
    ASSUME FInv, Close \/ Drop
    PROVE  FInv'
<1>a. TypeOK
    BY DEF FInv
<1>0. /\ cl \in Client /\ cl.failures \in 0..Retries /\ Retries \in Nat /\ MaxBreaks \in Nat /\ breaks \in 0..MaxBreaks
      /\ cl.after \in Nat /\ cl.live \in Nat
    BY <1>a, Types, RunFollowAssumption DEF TypeOK
<1>1. PICK failed \in BOOLEAN : Finish(failed)
    BY DEF Close, Drop
<1>2. breaks' \in 0..MaxBreaks
    <2>1. breaks' = breaks \/ (breaks < MaxBreaks /\ breaks' = breaks + 1)
        BY DEF Close, Drop
    <2> QED
        BY <1>0, <2>1
<1>3. srv' = Off /\ wire' = <<>> /\ UNCHANGED <<run, handed>> /\ cl' = After(failed) /\ ~cl.gap
    BY <1>1 DEF Finish, FInv, LogInv
<1>4. PICK p \in {"connect", "resolved", "thrown"}, k \in 0..Retries :
        /\ cl' = [cl EXCEPT !.failures = k, !.progressed = FALSE, !.gap = FALSE, !.pc = p]
        /\ p = "resolved" => cl.ended
    <2> DEFINE k0 == IF cl.progressed THEN 0 ELSE cl.failures
    <2>1. k0 \in 0..Retries
        BY <1>0
    <2>2. \/ /\ cl.ended
             /\ After(failed) = [cl EXCEPT !.failures = k0, !.progressed = FALSE, !.gap = FALSE, !.pc = "resolved"]
          \/ After(failed) = [cl EXCEPT !.failures = k0, !.progressed = FALSE, !.gap = FALSE, !.pc = "connect"]
          \/ After(failed) = [cl EXCEPT !.failures = k0, !.progressed = FALSE, !.gap = FALSE, !.pc = "thrown"]
          \/ /\ k0 < Retries
             /\ After(failed) = [cl EXCEPT !.failures = k0 + 1, !.progressed = FALSE, !.gap = FALSE, !.pc = "connect"]
        <3> DEFINE next == [cl EXCEPT !.failures = k0, !.progressed = FALSE, !.gap = FALSE]
        <3>1. After(failed) = IF cl.ended THEN [next EXCEPT !.pc = "resolved"]
                              ELSE IF ~failed /\ cl.progressed THEN [next EXCEPT !.pc = "connect"]
                              ELSE IF k0 >= Retries THEN [next EXCEPT !.pc = "thrown"]
                              ELSE [next EXCEPT !.pc = "connect", !.failures = @ + 1]
            BY <1>3 DEF After, Ended
        <3> HIDE DEF k0
        <3>2. \A q \in ClientPc :
                 [next EXCEPT !.pc = q] = [cl EXCEPT !.failures = k0, !.progressed = FALSE, !.gap = FALSE, !.pc = q]
            BY <1>0 DEF Client
        <3>3. [next EXCEPT !.pc = "connect", !.failures = @ + 1]
                 = [cl EXCEPT !.failures = k0 + 1, !.progressed = FALSE, !.gap = FALSE, !.pc = "connect"]
            BY <1>0 DEF Client
        <3>4. k0 >= Retries \/ k0 < Retries
            BY <1>0, <2>1
        <3> QED
            BY <3>1, <3>2, <3>3, <3>4 DEF ClientPc
    <2> HIDE DEF k0
    <2>3. k0 < Retries => k0 + 1 \in 0..Retries
        BY <1>0, <2>1
    <2> QED
        BY <1>3, <2>1, <2>2, <2>3
<1>5. /\ cl' \in Client /\ cl'.pc = p /\ cl'.after = cl.after /\ cl'.live = cl.live
      /\ cl'.ended = cl.ended /\ cl'.gap = FALSE
    BY <1>0, <1>4 DEF Client, ClientPc
<1>6. srv' \in Server /\ srv'.pc = "off"
    BY <1>3 DEF Off, Server, ServerPc
<1>7. TypeOK'
    BY <1>a, <1>2, <1>3, <1>5, <1>6 DEF TypeOK, Server, ServerPc, Client, ClientPc, run
<1>8. UNCHANGED <<log, evs, owed, gone>> /\ (Truth' <=> Truth)
    BY <1>3 DEF run, Truth, Over
<1>9. Sent("log")' = {} /\ Sent("event")' = {}
    BY <1>3 DEF Sent
<1>10. ConnInv'
    BY <1>3, <1>5, <1>6, <1>8 DEF FInv, ConnInv
<1>11. LogInv' /\ EventInv'
    BY <1>5, <1>6, <1>9 DEF LogInv, EventInv
<1>12. TokensOnce' /\ EndInv'
    BY <1>3, <1>4, <1>5, <1>8, <1>9 DEF FInv, TokensOnce, EndInv
<1> QED
    BY <1>7, <1>10, <1>11, <1>12 DEF FInv

\* One frame fewer: the rest keep their order.
Shorter(s, t) ==
    /\ t \in Seq(Frame)
    /\ \A m \in {"log", "event"} : \A i \in OfKind(t, m) : i + 1 \in OfKind(s, m) /\ t[i] = s[i + 1]
    /\ \A m \in {"log", "event"} : \A i \in OfKind(s, m) : i = 1 \/ (i - 1 \in OfKind(t, m) /\ t[i - 1] = s[i])

LEMMA TailShorter ==
    ASSUME NEW s \in Seq(Frame), s # <<>>
    PROVE  Shorter(s, Tail(s)) /\ Head(s) = s[1] /\ 1 \in 1..Len(s) /\ s[1] \in Frame
<1> DEFINE t == Tail(s)
<1>1. /\ t \in Seq(Frame) /\ Len(s) \in Nat /\ Len(s) > 0 /\ Len(t) = Len(s) - 1
      /\ \A i \in 1..Len(t) : t[i] = s[i + 1]
    OBVIOUS
<1>2. Head(s) = s[1] /\ 1 \in 1..Len(s) /\ s[1] \in Frame
    BY <1>1
<1> HIDE DEF t
<1>3. \A i \in 1..Len(t) : i + 1 \in 1..Len(s)
    BY <1>1
<1>4. \A i \in 1..Len(s) : i = 1 \/ (i - 1 \in 1..Len(t) /\ (i - 1) + 1 = i)
    BY <1>1
<1>5. \A m \in {"log", "event"} : \A i \in OfKind(t, m) : i + 1 \in OfKind(s, m) /\ t[i] = s[i + 1]
    BY <1>1, <1>3 DEF OfKind
<1>6. \A m \in {"log", "event"} : \A i \in OfKind(s, m) : i = 1 \/ (i - 1 \in OfKind(t, m) /\ t[i - 1] = s[i])
    <2> SUFFICES ASSUME NEW m \in {"log", "event"}, NEW i \in OfKind(s, m), i # 1
                 PROVE  i - 1 \in OfKind(t, m) /\ t[i - 1] = s[i]
        OBVIOUS
    <2>1. i \in 1..Len(s) /\ s[i].kind = m
        BY DEF OfKind
    <2>2. i - 1 \in 1..Len(t) /\ t[i - 1] = s[i]
        BY <1>1, <1>4, <2>1
    <2> QED
        BY <2>1, <2>2 DEF OfKind
<1>7. Shorter(s, t)
    BY <1>1, <1>5, <1>6 DEF Shorter
<1> QED
    BY <1>2, <1>7 DEF t

\* The order of the frames of one kind after the first is read: those left
\* come after it if it was of that kind.
LEMMA InOrder ==
    ASSUME NEW s \in Seq(Frame), NEW t, NEW kind \in {"log", "event"}, Shorter(s, t),
           \A i, j \in OfKind(s, kind) : i < j => s[i].at < s[j].at
    PROVE  /\ \A i, j \in OfKind(t, kind) : i < j => t[i].at < t[j].at
           /\ 1 \in OfKind(s, kind) => \A i \in OfKind(t, kind) : s[1].at < t[i].at
<1>1. \A i \in OfKind(t, kind) : i + 1 \in OfKind(s, kind) /\ t[i] = s[i + 1] /\ i \in Nat /\ i > 0
    <2>1. \A i \in OfKind(t, kind) : i \in 1..Len(t) /\ Len(t) \in Nat
        BY DEF OfKind, Shorter
    <2>2. \A i \in OfKind(t, kind) : i \in Nat /\ i > 0
        BY <2>1
    <2> QED
        BY <2>2 DEF Shorter
<1>2. \A i, j \in OfKind(t, kind) : i < j => t[i].at < t[j].at
    <2> SUFFICES ASSUME NEW i \in OfKind(t, kind), NEW j \in OfKind(t, kind), i < j PROVE t[i].at < t[j].at
        OBVIOUS
    <2>1. i + 1 < j + 1
        BY <1>1
    <2> QED
        BY <1>1, <2>1
<1>3. ASSUME 1 \in OfKind(s, kind), NEW i \in OfKind(t, kind) PROVE s[1].at < t[i].at
    <2>1. 1 < i + 1
        BY <1>1
    <2> QED
        BY <1>1, <1>3, <2>1
<1> QED
    BY <1>2, <1>3

\* The facts of a wire one frame shorter, by kind.
LEMMA Receives ==
    ASSUME FInv, Receive
    PROVE  /\ TypeOK /\ wire \in Seq(Frame) /\ Shorter(wire, wire') /\ wire' \in Seq(Frame)
           /\ Sent("log") = OfKind(wire, "log") /\ Sent("event") = OfKind(wire, "event")
           /\ Sent("log")' = OfKind(wire', "log") /\ Sent("event")' = OfKind(wire', "event")
           /\ 1 \in 1..Len(wire) /\ wire[1] \in Frame /\ wire[1].at \in Nat /\ Head(wire) = wire[1]
           /\ srv.pc \notin {"off", "note"} /\ cl.pc = "read"
           /\ UNCHANGED <<log, owed, heads, evs, gone, wrong, srv, breaks>> /\ (Truth' <=> Truth)
           /\ \A i, j \in OfKind(wire', "log") : i < j => wire'[i].at < wire'[j].at
           /\ \A i, j \in OfKind(wire', "event") : i < j => wire'[i].at < wire'[j].at
           /\ 1 \in OfKind(wire, "log") => \A i \in OfKind(wire', "log") : wire[1].at < wire'[i].at
           /\ 1 \in OfKind(wire, "event") => \A i \in OfKind(wire', "event") : wire[1].at < wire'[i].at
<1>1. TypeOK /\ wire # <<>> /\ wire' = Tail(wire) /\ UNCHANGED <<run, srv, breaks>> /\ cl.pc = "read"
    BY DEF FInv, Receive
<1>2. wire \in Seq(Frame)
    BY <1>1, Types
<1>3. Shorter(wire, wire') /\ Head(wire) = wire[1] /\ 1 \in 1..Len(wire) /\ wire[1] \in Frame
    BY <1>1, <1>2, TailShorter
<1>4. wire' \in Seq(Frame) /\ wire[1].at \in Nat
    BY <1>3 DEF Shorter, Frame
<1>5. /\ Sent("log") = OfKind(wire, "log") /\ Sent("event") = OfKind(wire, "event")
      /\ Sent("log")' = OfKind(wire', "log") /\ Sent("event")' = OfKind(wire', "event")
    BY DEF Sent, OfKind
<1>6. srv.pc \notin {"off", "note"}
    BY <1>1 DEF FInv, ConnInv
<1>7. UNCHANGED <<log, owed, heads, evs, gone, wrong, srv, breaks>> /\ (Truth' <=> Truth)
    BY <1>1 DEF run, Truth, Over
<1>8. /\ \A i, j \in OfKind(wire, "log") : i < j => wire[i].at < wire[j].at
      /\ \A i, j \in OfKind(wire, "event") : i < j => wire[i].at < wire[j].at
    BY <1>5 DEF FInv, LogInv, EventInv
<1>9. /\ \A i, j \in OfKind(wire', "log") : i < j => wire'[i].at < wire'[j].at
      /\ 1 \in OfKind(wire, "log") => \A i \in OfKind(wire', "log") : wire[1].at < wire'[i].at
    BY <1>2, <1>3, <1>8, InOrder
<1>10. /\ \A i, j \in OfKind(wire', "event") : i < j => wire'[i].at < wire'[j].at
       /\ 1 \in OfKind(wire, "event") => \A i \in OfKind(wire', "event") : wire[1].at < wire'[i].at
    BY <1>2, <1>3, <1>8, InOrder
<1> QED
    BY <1>1, <1>2, <1>3, <1>4, <1>5, <1>6, <1>7, <1>9, <1>10

\* A frame of the log is always the seq the follower waits for.
LEMMA FollowReceivesLog ==
    ASSUME FInv, Receive, Head(wire).kind = "log", OnLog(Head(wire)), UNCHANGED handed
    PROVE  FInv'
<1> DEFINE f == wire[1]
           L == OfKind(wire, "log")
           LL == OfKind(wire', "log")
           E == OfKind(wire, "event")
           EE == OfKind(wire', "event")
<1>a. TypeOK /\ Head(wire) = f /\ f \in Frame /\ f.at \in Nat /\ 1 \in L /\ wire' \in Seq(Frame)
    BY Receives DEF OfKind
<1>b. /\ Sent("log") = L /\ Sent("event") = E /\ Sent("log")' = LL /\ Sent("event")' = EE
      /\ srv.pc \notin {"off", "note"} /\ cl.pc = "read"
      /\ UNCHANGED <<log, owed, heads, evs, gone, wrong, srv, breaks>> /\ (Truth' <=> Truth)
    BY Receives
<1>c. /\ \A i, j \in LL : i < j => wire'[i].at < wire'[j].at
      /\ \A i, j \in EE : i < j => wire'[i].at < wire'[j].at
      /\ \A i \in LL : f.at < wire'[i].at
    BY <1>a, Receives
<1>d. /\ \A i \in LL : i + 1 \in L /\ wire'[i] = wire[i + 1]
      /\ \A i \in EE : i + 1 \in E /\ wire'[i] = wire[i + 1]
      /\ \A i \in L : i = 1 \/ (i - 1 \in LL /\ wire'[i - 1] = wire[i])
      /\ \A i \in E : i = 1 \/ (i - 1 \in EE /\ wire'[i - 1] = wire[i])
    BY Receives DEF Shorter
<1>e. 1 \notin E
    BY <1>a DEF OfKind
<1>0. cl \in Client /\ cl.after \in Nat /\ cl.live \in Nat /\ srv.last \in Nat /\ srv.evPos \in Nat
    BY <1>a, Types
<1> HIDE DEF L, LL, E, EE, f
<1>1. /\ ~cl.gap
      /\ \A i \in L : wire[i].at > cl.after /\ wire[i].at <= srv.last
      /\ \A n \in cl.after + 1..srv.last : \E i \in L : wire[i].at = n
    BY <1>b DEF FInv, LogInv
<1>2. f.at > cl.after /\ f.at <= srv.last
    BY <1>a, <1>1 DEF f
<1>3. f.at = cl.after + 1
    <2>1. cl.after + 1 \in cl.after + 1..srv.last
        BY <1>0, <1>a, <1>2
    <2>2. PICK i \in L : wire[i].at = cl.after + 1
        BY <1>1, <2>1
    <2>3. i = 1 \/ f.at < cl.after + 1
        BY <1>c, <1>d, <2>2
    <2> QED
        BY <1>0, <1>a, <1>2, <2>2, <2>3 DEF f
<1>4. PICK b \in BOOLEAN : /\ cl' = [cl EXCEPT !.after = f.at, !.progressed = TRUE, !.ended = b]
                           /\ b => cl.ended \/ f.what = "over"
    <2>1. cl' = [cl EXCEPT !.after = f.at, !.progressed = TRUE, !.ended = cl.ended \/ f.what = "over"]
        <3>1. ~(f.at <= cl.after) /\ ~(f.at # cl.after + 1) /\ OnLog(f)
            BY <1>0, <1>a, <1>2, <1>3
        <3> QED
            BY <3>1, Zenon DEF OnLog
    <2> QED
        BY <2>1
<1>5. /\ cl' \in Client /\ cl'.pc = cl.pc /\ cl'.after = f.at /\ cl'.live = cl.live
      /\ cl'.ended = b /\ cl'.gap = cl.gap
    BY <1>0, <1>a, <1>4 DEF Client
<1>6. TypeOK'
    BY <1>a, <1>b, <1>5 DEF TypeOK, Client, ClientPc, Frame
<1>7. ConnInv'
    <2>1. Len(log) \in Nat
        BY <1>a, Types
    <2> QED
        BY <1>0, <1>a, <1>b, <1>2, <1>5, <2>1 DEF FInv, ConnInv
<1>8. LogInv'
    <2>1. \A i \in LL : wire'[i].at > f.at /\ wire'[i].at <= srv.last
        <3>1. \A i \in LL : wire'[i].at <= srv.last
            BY <1>1, <1>d
        <3>2. \A i \in LL : wire'[i].at \in Nat
            <4>1. \A i \in LL : wire'[i] \in Frame
                BY <1>a DEF LL, OfKind
            <4> QED
                BY <4>1 DEF Frame
        <3> QED
            BY <1>a, <1>c, <3>1, <3>2
    <2>2. \A n \in f.at + 1..srv.last : \E i \in LL : wire'[i].at = n
        <3> SUFFICES ASSUME NEW n \in f.at + 1..srv.last PROVE \E i \in LL : wire'[i].at = n
            OBVIOUS
        <3>1. n \in cl.after + 1..srv.last /\ n # f.at
            BY <1>0, <1>3
        <3>2. PICK i \in L : wire[i].at = n
            BY <1>1, <3>1
        <3> QED
            BY <1>d, <3>1, <3>2 DEF f
    <2> QED
        BY <1>1, <1>b, <1>c, <1>5, <2>1, <2>2 DEF LogInv
<1>9. EventInv'
    <2>1. /\ \A i \in E : wire[i].at > cl.live /\ wire[i].at <= srv.evPos
          /\ \A n \in gone + 1..srv.evPos : n <= cl.live \/ \E i \in E : wire[i].at = n
        BY <1>b DEF FInv, EventInv
    <2>2. \A i \in EE : wire'[i].at > cl.live /\ wire'[i].at <= srv.evPos
        BY <1>d, <2>1
    <2>3. \A n \in gone + 1..srv.evPos : n <= cl.live \/ \E i \in EE : wire'[i].at = n
        BY <1>d, <1>e, <2>1
    <2> QED
        BY <1>b, <1>c, <1>5, <2>2, <2>3 DEF EventInv
<1>10. TokensOnce'
    BY <1>b, <1>5 DEF FInv, TokensOnce
<1>11. EndInv'
    <2>1. \A i \in L : wire[i].what = "over" => Truth
        BY <1>b DEF FInv, EndInv
    <2>2. \A i \in E : wire[i].what = "end" => Truth
        BY <1>b DEF FInv, EndInv
    <2>3. b => Truth
        BY <1>a, <1>4, <2>1 DEF FInv, EndInv, f
    <2>4. /\ \A i \in LL : wire'[i].what = "over" => Truth
          /\ \A i \in EE : wire'[i].what = "end" => Truth
        BY <1>d, <2>1, <2>2
    <2> QED
        BY <1>b, <1>5, <2>3, <2>4 DEF FInv, EndInv
<1> QED
    BY <1>6, <1>7, <1>8, <1>9, <1>10, <1>11 DEF FInv

\* A runtime event is always one the follower has not handed on, and none
\* before it is left that is not trimmed.
LEMMA FollowReceivesEvent ==
    ASSUME FInv, Receive, Head(wire).kind = "event", OnEvent(Head(wire))
    PROVE  FInv'
<1> DEFINE f == wire[1]
           L == OfKind(wire, "log")
           LL == OfKind(wire', "log")
           E == OfKind(wire, "event")
           EE == OfKind(wire', "event")
<1>a. TypeOK /\ Head(wire) = f /\ f \in Frame /\ f.at \in Nat /\ 1 \in E /\ wire' \in Seq(Frame)
    BY Receives DEF OfKind
<1>b. /\ Sent("log") = L /\ Sent("event") = E /\ Sent("log")' = LL /\ Sent("event")' = EE
      /\ srv.pc \notin {"off", "note"} /\ cl.pc = "read"
      /\ UNCHANGED <<log, owed, heads, evs, gone, wrong, srv, breaks>> /\ (Truth' <=> Truth)
    BY Receives
<1>c. /\ \A i, j \in LL : i < j => wire'[i].at < wire'[j].at
      /\ \A i, j \in EE : i < j => wire'[i].at < wire'[j].at
      /\ \A i \in EE : f.at < wire'[i].at
    BY <1>a, Receives
<1>d. /\ \A i \in LL : i + 1 \in L /\ wire'[i] = wire[i + 1]
      /\ \A i \in EE : i + 1 \in E /\ wire'[i] = wire[i + 1]
      /\ \A i \in L : i = 1 \/ (i - 1 \in LL /\ wire'[i - 1] = wire[i])
      /\ \A i \in E : i = 1 \/ (i - 1 \in EE /\ wire'[i - 1] = wire[i])
    BY Receives DEF Shorter
<1>e. 1 \notin L
    BY <1>a DEF OfKind
<1>0. /\ cl \in Client /\ cl.after \in Nat /\ cl.live \in Nat /\ srv.last \in Nat /\ srv.evPos \in Nat /\ gone \in Nat
      /\ handed \in Seq(Nat) /\ Len(evs) \in Nat
    BY <1>a, Types
<1> HIDE DEF L, LL, E, EE, f
<1>1. /\ \A i \in E : wire[i].at > cl.live /\ wire[i].at <= srv.evPos
      /\ \A n \in gone + 1..srv.evPos : n <= cl.live \/ \E i \in E : wire[i].at = n
    BY <1>b DEF FInv, EventInv
<1>2. f.at > cl.live /\ f.at <= srv.evPos
    BY <1>a, <1>1 DEF f
<1>3. \A n \in gone + 1..srv.evPos : n <= cl.live \/ n = f.at \/ \E i \in EE : wire'[i].at = n
    BY <1>d, <1>1 DEF f
<1>4. PICK b \in BOOLEAN : /\ cl' = [cl EXCEPT !.live = f.at, !.progressed = TRUE, !.ended = b]
                           /\ b => cl.ended \/ f.what = "end"
    <2>1. cl' = [cl EXCEPT !.live = f.at, !.progressed = TRUE, !.ended = cl.ended \/ f.what = "end"]
        <3>1. ~(f.at <= cl.live) /\ OnEvent(f)
            BY <1>0, <1>a, <1>2
        <3> QED
            BY <3>1, Zenon DEF OnEvent
    <2> QED
        BY <2>1
<1>5. /\ cl' \in Client /\ cl'.pc = cl.pc /\ cl'.live = f.at /\ cl'.after = cl.after
      /\ cl'.ended = b /\ cl'.gap = cl.gap
    BY <1>0, <1>a, <1>4 DEF Client
<1>6. handed' = Append(handed, f.at) /\ handed' \in Seq(Nat)
    <2>1. ~(f.at <= cl.live) /\ OnEvent(f)
        BY <1>0, <1>a, <1>2
    <2>2. handed' = Append(handed, f.at)
        BY <2>1, Zenon DEF OnEvent
    <2> QED
        BY <1>0, <1>a, <2>2
<1>7. TypeOK'
    BY <1>a, <1>b, <1>5, <1>6 DEF TypeOK, Client, ClientPc, Frame
<1>8. ConnInv'
    BY <1>0, <1>a, <1>b, <1>2, <1>5 DEF FInv, ConnInv
<1>9. LogInv'
    <2>1. /\ ~cl.gap
          /\ \A i \in L : wire[i].at > cl.after /\ wire[i].at <= srv.last
          /\ \A n \in cl.after + 1..srv.last : \E i \in L : wire[i].at = n
        BY <1>b DEF FInv, LogInv
    <2>2. \A i \in LL : wire'[i].at > cl.after /\ wire'[i].at <= srv.last
        BY <1>d, <2>1
    <2>3. \A n \in cl.after + 1..srv.last : \E i \in LL : wire'[i].at = n
        BY <1>d, <1>e, <2>1
    <2> QED
        BY <1>b, <1>c, <1>5, <2>1, <2>2, <2>3 DEF LogInv
<1>10. EventInv'
    <2>1. \A i \in EE : wire'[i].at > f.at /\ wire'[i].at <= srv.evPos
        <3>1. \A i \in EE : wire'[i].at <= srv.evPos
            BY <1>1, <1>d
        <3>2. \A i \in EE : wire'[i].at \in Nat
            <4>1. \A i \in EE : wire'[i] \in Frame
                BY <1>a DEF EE, OfKind
            <4> QED
                BY <4>1 DEF Frame
        <3> QED
            BY <1>a, <1>c, <3>1, <3>2
    <2>2. \A n \in gone + 1..srv.evPos : n <= f.at \/ \E i \in EE : wire'[i].at = n
        BY <1>0, <1>a, <1>2, <1>3
    <2> QED
        BY <1>b, <1>c, <1>5, <2>1, <2>2 DEF EventInv
<1>11. TokensOnce'
    <2>1. /\ \A i \in 1..Len(handed) : handed[i] <= cl.live /\ (i > 1 => handed[i - 1] < handed[i])
          /\ \A i \in gone + 1..cl.live : \E k \in 1..Len(handed) : handed[k] = i
        BY DEF FInv, TokensOnce
    <2>2. /\ Len(handed) \in Nat /\ Len(handed') = Len(handed) + 1 /\ handed'[Len(handed) + 1] = f.at
          /\ \A i \in 1..Len(handed) : handed'[i] = handed[i] /\ handed[i] \in Nat
        BY <1>0, <1>6, <1>a
    <2>3. \A i \in 1..Len(handed') : handed'[i] <= f.at /\ (i > 1 => handed'[i - 1] < handed'[i])
        <3> SUFFICES ASSUME NEW i \in 1..Len(handed') PROVE handed'[i] <= f.at /\ (i > 1 => handed'[i - 1] < handed'[i])
            OBVIOUS
        <3>1. CASE i \in 1..Len(handed)
            <4>1. i > 1 => i - 1 \in 1..Len(handed)
                BY <2>2, <3>1
            <4>2. handed'[i] = handed[i] /\ (i > 1 => handed'[i - 1] = handed[i - 1])
                BY <2>2, <3>1, <4>1
            <4>3. handed[i] \in Nat /\ handed[i] <= cl.live
                BY <2>1, <2>2, <3>1
            <4>4. handed'[i] <= f.at
                BY <1>0, <1>a, <1>2, <4>2, <4>3
            <4> QED
                BY <2>1, <3>1, <4>2, <4>4
        <3>2. CASE i = Len(handed) + 1
            <4>1. ASSUME i > 1 PROVE handed'[i - 1] < f.at
                <5>1. i - 1 \in 1..Len(handed)
                    BY <2>2, <3>2, <4>1
                <5>2. handed'[i - 1] \in Nat /\ handed'[i - 1] <= cl.live
                    BY <2>1, <2>2, <5>1
                <5> QED
                    BY <1>0, <1>a, <1>2, <5>2
            <4>2. handed'[i] = f.at
                BY <2>2, <3>2
            <4> QED
                BY <1>a, <4>1, <4>2
        <3> QED
            BY <2>2, <3>1, <3>2
    <2>4. \A i \in gone + 1..f.at : \E k \in 1..Len(handed') : handed'[k] = i
        <3> SUFFICES ASSUME NEW i \in gone + 1..f.at PROVE \E k \in 1..Len(handed') : handed'[k] = i
            OBVIOUS
        <3>1. i \in gone + 1..srv.evPos /\ i \in Nat
            BY <1>0, <1>a, <1>2
        <3>2. CASE i <= cl.live
            <4>1. i \in gone + 1..cl.live
                BY <1>0, <3>1, <3>2
            <4>2. PICK k \in 1..Len(handed) : handed[k] = i
                BY <2>1, <4>1
            <4>3. k \in 1..Len(handed')
                BY <2>2
            <4> QED
                BY <2>2, <4>2, <4>3
        <3>3. CASE i = f.at
            <4>1. Len(handed) + 1 \in 1..Len(handed')
                BY <2>2
            <4> QED
                BY <2>2, <3>3, <4>1
        <3>4. CASE \E j \in EE : wire'[j].at = i
            <4>1. f.at < i
                BY <1>c, <3>4
            <4> QED
                BY <1>a, <1>0, <3>1, <4>1
        <3> QED
            BY <1>3, <3>1, <3>2, <3>3, <3>4
    <2> QED
        BY <1>b, <1>5, <2>3, <2>4 DEF TokensOnce
<1>12. EndInv'
    <2>1. \A i \in L : wire[i].what = "over" => Truth
        BY <1>b DEF FInv, EndInv
    <2>2. \A i \in E : wire[i].what = "end" => Truth
        BY <1>b DEF FInv, EndInv
    <2>3. b => Truth
        BY <1>a, <1>4, <2>2 DEF FInv, EndInv, f
    <2>4. /\ \A i \in LL : wire'[i].what = "over" => Truth
          /\ \A i \in EE : wire'[i].what = "end" => Truth
        BY <1>d, <2>1, <2>2
    <2> QED
        BY <1>b, <1>5, <2>3, <2>4 DEF FInv, EndInv
<1> QED
    BY <1>7, <1>8, <1>9, <1>10, <1>11, <1>12 DEF FInv

-----------------------------------------------------------------------------
(* The theorems                                                            *)

LEMMA FInvInit ==
    ASSUME Init
    PROVE  FInv
<1> USE DEF Init
<1>1. TypeOK
    <2>1. /\ log \in Seq({"note", "going", "over"}) /\ evs \in Seq({"token", "end"}) /\ heads \in Seq(Nat)
          /\ gone \in 0..Len(evs) /\ wire \in Seq(Frame) /\ handed \in Seq(Nat)
        OBVIOUS
    <2>2. breaks \in 0..MaxBreaks /\ 0 \in 0..Retries
        BY RunFollowAssumption
    <2>3. srv \in Server /\ cl \in Client
        BY <2>2 DEF Off, Server, ServerPc, Client, ClientPc
    <2> QED
        BY <2>1, <2>2, <2>3 DEF TypeOK, Server, ServerPc, Client, ClientPc, Frame
<1>2. Sent("log") = {} /\ Sent("event") = {}
    BY DEF Sent
<1>3. ConnInv
    BY DEF ConnInv, Off
<1>4. LogInv /\ EventInv
    BY <1>2 DEF LogInv, EventInv, Off
<1>5. TokensOnce
    BY DEF TokensOnce
<1>6. EndInv
    BY <1>2 DEF EndInv
<1> QED
    BY <1>1, <1>3, <1>4, <1>5, <1>6 DEF FInv

LEMMA FInvNext ==
    ASSUME FInv, [Next]_vars
    PROVE  FInv'
<1>1. ASSUME NEW n \in 1..2, NEW s \in {"going", "over"}, NEW end \in BOOLEAN, Commit(n, s, end) PROVE FInv'
    BY <1>1, FollowCommit
<1>2. ASSUME NEW o \in owed, Announce(o) \/ Lose(o) \/ EmitEnd(o) PROVE FInv'
    BY <1>2, FollowOwed
<1>3. CASE EmitToken \/ EmitFenced \/ Trim
    BY <1>3, FollowEmits
<1>4. CASE Serve \/ Deadline
    BY <1>4, FollowNotes, FollowDrains, FollowReads, FollowServesQuietly DEF Serve
<1>5. CASE Receive
    <2>1. \/ Head(wire).kind = "log" /\ OnLog(Head(wire)) /\ UNCHANGED handed
          \/ Head(wire).kind = "event" /\ OnEvent(Head(wire))
        BY <1>5 DEF Receive
    <2> QED
        BY <1>5, <2>1, FollowReceivesLog, FollowReceivesEvent
<1>6. CASE Open \/ Close \/ Drop
    BY <1>6, FollowOpens, FollowFinishes
<1>7. CASE UNCHANGED vars
    <2>1. UNCHANGED <<log, owed, heads, evs, gone, wrong, srv, wire, cl, handed, breaks>>
        BY <1>7 DEF vars, run
    <2>2. Sent("log")' = Sent("log") /\ Sent("event")' = Sent("event") /\ (Truth' <=> Truth)
        BY <2>1 DEF Sent, Truth, Over
    <2>3. TypeOK' /\ ConnInv' /\ TokensOnce'
        BY <2>1 DEF FInv, TypeOK, ConnInv, TokensOnce
    <2>4. LogInv' /\ EventInv' /\ EndInv'
        BY <2>1, <2>2 DEF FInv, LogInv, EventInv, EndInv
    <2> QED
        BY <2>3, <2>4 DEF FInv
<1> QED
    BY <1>1, <1>2, <1>3, <1>4, <1>5, <1>6, <1>7 DEF Next, Follow

LEMMA AlwaysFInv == Spec => []FInv
<1>1. Init => FInv
    BY FInvInit
<1>2. FInv /\ [Next]_vars => FInv'
    BY FInvNext
<1> QED
    BY <1>1, <1>2, PTL DEF Spec

\* Type correctness: whatever the run writes, loses and trims and however often
\* the connection breaks, the state of the follow keeps its types.
THEOREM TypeCorrect == Spec => []TypeOK
<1>1. FInv => TypeOK
    BY DEF FInv
<1> QED
    BY <1>1, AlwaysFInv, PTL

\* The log is followed in order: subscribeRunLog sends each connection the seq
\* after the one the client has and then only the next, so followRunStream
\* never sees a gap.
THEOREM FollowsInOrder == Spec => []NextSeqOnly
<1>1. FInv => NextSeqOnly
    <2> SUFFICES ASSUME FInv PROVE NextSeqOnly
        OBVIOUS
    <2>0. TypeOK /\ LogInv /\ ConnInv
        BY DEF FInv
    <2>1. wire \in Seq(Frame) /\ cl.after \in Nat /\ srv.last \in Nat
        BY <2>0, Types
    <2>2. ASSUME NEW i \in Sent("log")
          PROVE  /\ wire[i].at > cl.after
                 /\ \A n \in cl.after + 1..wire[i].at - 1 : \E j \in Sent("log") : j < i /\ wire[j].at = n
                 /\ \A j \in Sent("log") : j < i => wire[j].at < wire[i].at
        <3>1. \A j \in Sent("log") : j \in Nat /\ wire[j].at \in Nat
            <4>1. \A j \in Sent("log") : j \in Nat /\ wire[j] \in Frame
                BY <2>1 DEF Sent
            <4> QED
                BY <4>1 DEF Frame
        <3>2. srv.pc # "off" /\ wire[i].at <= srv.last /\ wire[i].at > cl.after
            BY <2>0, <2>2 DEF LogInv, ConnInv, Sent
        <3>3. ASSUME NEW n \in cl.after + 1..wire[i].at - 1
              PROVE  \E j \in Sent("log") : j < i /\ wire[j].at = n
            <4>1. n \in cl.after + 1..srv.last /\ n < wire[i].at
                BY <2>1, <2>2, <3>1, <3>2
            <4>2. PICK j \in Sent("log") : wire[j].at = n
                BY <2>0, <3>2, <4>1 DEF LogInv
            <4>3. ~(i < j) /\ i # j
                BY <2>0, <2>2, <3>1, <4>1, <4>2 DEF LogInv
            <4> QED
                BY <2>2, <3>1, <4>2, <4>3
        <3> QED
            BY <2>0, <2>2, <3>2, <3>3 DEF LogInv
    <2> QED
        BY <2>0, <2>2 DEF NextSeqOnly, LogInv
<1> QED
    BY <1>1, AlwaysFInv, PTL

\* Runtime events are handed to the handler once and in order across every
\* reconnect, and one still in the stream's window is never passed over.
THEOREM TokensHandedOnce == Spec => []TokensOnce
<1>1. FInv => TokensOnce
    BY DEF FInv
<1> QED
    BY <1>1, AlwaysFInv, PTL

\* followRunStream resolves only when the run is over, or was said to be by a
\* collaboration step that lost its lease.
THEOREM ResolvesTruly == Spec => []ResolvedMeansOver
<1>1. FInv => ResolvedMeansOver
    BY DEF FInv, EndInv, Truth, ResolvedMeansOver
<1> QED
    BY <1>1, AlwaysFInv, PTL
=============================================================================
