----------------------- MODULE ReplayUndisturbedProofs -----------------------
(***************************************************************************)
(* ReplayService with one worker, no crash and no failed statement: a      *)
(* replay handles each message of the log once and in order, and what the  *)
(* messages, the violations, the leases and the verdict say of each other  *)
(* adds up.                                                                *)
(***************************************************************************)
EXTENDS ReplaySequentialProofs, FiniteSetTheorems

-----------------------------------------------------------------------------
(* Each message once, in order *)

NoCrash == MaxCrashes = 0

\* Before the first message; and from the first statement to the last.
Early     == {"begin", "list", "topology", "sources", "rebuild"}
Replaying == Early \union {"step"} \union AtMessage \union Judges
Replays(w, s) == pc[w] \in Replaying /\ view[w].sc = s

\* The trace counts the messages handled; none after the next is touched.
Counts(s) ==
    LET n == Len(trace[s]) IN
    /\ n <= Len(log[s])
    /\ \A i \in 1 .. n :
          /\ trace[s][i] = i
          /\ log[s][i].body.kind # "other" => log[s][i].status # "pending"
    /\ \A i \in n + 2 .. Len(log[s]) : log[s][i].status = "pending"

Ahead(s) ==
    \A i \in Len(trace[s]) + 1 .. Len(log[s]) : log[s][i].status = "pending"

\* A scenario that nobody replays: nothing is handled yet, or all of it.
Rests(s) ==
    /\ status[s] # "replaying" /\ Ahead(s)
    /\ status[s] = "editing" => trace[s] = <<>> /\ cursor[s] = 0
    /\ status[s] \in Settled => Len(trace[s]) = Len(log[s])

\* Where a replay is, against the trace; only the first replay of a scenario
\* comes to a message.
Follows(w) ==
    LET s == view[w].sc  n == Len(trace[s]) IN
    /\ pc[w] \in Early \union {"step", "release", "confirm", "write", "mark"}
       => Ahead(s)
    /\ pc[w] \in Early => n = view[w].start /\ view[w].start \in {0, Len(log[s])}
    /\ pc[w] = "step" => n = pos[w] - 1 /\ (InLog(w) => view[w].start = 0)
    /\ pc[w] \in AtMessage => n = pos[w] - 1 /\ view[w].start = 0
    /\ pc[w] \in {"write", "mark"} => eff[w].mark # "pending"
    /\ pc[w] = "violate" => Refused(log[s][pos[w]].status)
    /\ pc[w] = "trace" /\ log[s][pos[w]].body.kind # "other"
       => log[s][pos[w]].status # "pending"
    /\ pc[w] \in Judges => n = Len(log[s])

OnceInv ==
    /\ \A s \in Scenario : Counts(s)
    /\ \A w \in Worker, s \in Scenario : ~Replays(w, s) => Rests(s)
    /\ \A w \in Worker : Follows(w)

\* A step that writes none of it.
LEMMA OnceKeeps ==
    ASSUME OnceInv, OneWorker, NEW w \in Worker, Follows(w)',
           UNCHANGED <<status, cursor, log, trace>>,
           \A s \in Scenario : Replays(w, s) => Replays(w, s)'
    PROVE  OnceInv'
<1>1. \A u \in Worker : u = w
  BY DEF OneWorker
<1>2. \A s \in Scenario : Counts(s)'
  BY DEF OnceInv, Counts
<1>3. \A s \in Scenario : Rests(s) => Rests(s)'
  BY DEF Rests, Ahead
<1> QED BY <1>1, <1>2, <1>3 DEF OnceInv

\* A step that writes only of the scenario it replays.
LEMMA OnceWrites ==
    ASSUME OnceInv, OneWorker, NEW w \in Worker, NEW sc \in Scenario,
           Replays(w, sc), Replays(w, sc)', Follows(w)', Counts(sc)',
           \A s \in Scenario \ {sc} :
              /\ status'[s] = status[s] /\ cursor'[s] = cursor[s]
              /\ log'[s] = log[s] /\ trace'[s] = trace[s]
    PROVE  OnceInv'
<1>1. \A u \in Worker : u = w
  BY DEF OneWorker
<1>2. ASSUME NEW s \in Scenario
      PROVE  Counts(s)'
  <2>1. CASE s # sc
    BY <2>1 DEF OnceInv, Counts
  <2> QED BY <2>1
<1>3. ASSUME NEW s \in Scenario, ~Replays(w, s)'
      PROVE  Rests(s)'
  <2>1. s # sc /\ ~Replays(w, s)
    BY <1>3 DEF Replays
  <2>2. Rests(s)
    BY <2>1 DEF OnceInv
  <2> QED BY <2>1, <2>2 DEF Rests, Ahead
<1> QED BY <1>1, <1>2, <1>3 DEF OnceInv

LEMMA OnceRequest ==
    ASSUME TypeInv, LogInv, StandsInv, DraftPending, OnceInv, OneWorker,
           NEW w \in Worker, Request(w)
    PROVE  OnceInv'
<1> USE DEF TypeInv, TypeOK
<1>1. CASE AppendInsert(w)
  <2> PICK d \in Scenario : d = draft[w].sc
    BY DEF Draft
  <2>1. /\ status[d] = "editing" /\ pc[w] = "insert"
        /\ draft[w].msg \in Message /\ draft[w].msg.status = "pending"
    BY <1>1 DEF AppendInsert, At, Draft, StandsInv, Stands, DraftPending, FormOK
  <2>2. /\ UNCHANGED <<status, cursor, trace>> /\ pc'[w] = "idle"
        /\ log' = [log EXCEPT ![d] = Append(@, draft[w].msg)]
    BY <1>1 DEF AppendInsert, Return, Goto
  <2>3. \A s \in Scenario : ~Replays(w, s) /\ ~Replays(w, s)'
    BY <2>1, <2>2 DEF Replays, Replaying, Early, AtMessage, Judges
  <2>4. Follows(w)'
    BY <2>2 DEF Follows, Early, AtMessage, Judges
  <2>5. /\ log[d] \in Seq(Message) /\ Len(log'[d]) = Len(log[d]) + 1
        /\ \A i \in 1 .. Len(log[d]) : log'[d][i] = log[d][i]
        /\ log'[d][Len(log[d]) + 1].status = "pending"
    BY <2>1, <2>2
  <2>6. Counts(d) /\ Rests(d)
    BY <2>1, <2>3 DEF OnceInv
  <2>7. trace[d] = <<>>
    BY <2>1, <2>6 DEF Rests
  <2>8. Counts(d)' /\ Rests(d)'
    <3>1. Len(trace[d]) = 0 /\ trace'[d] = <<>> /\ Len(log[d]) \in Nat
      BY <2>2, <2>5, <2>7
    <3>2. \A i \in 1 .. Len(log[d]) : log[d][i].status = "pending"
      BY <2>6, <3>1 DEF Rests, Ahead
    <3>3. ASSUME NEW i \in 1 .. Len(log'[d])
          PROVE  log'[d][i].status = "pending"
      <4>1. CASE i = Len(log[d]) + 1
        BY <2>5, <4>1
      <4>2. CASE i # Len(log[d]) + 1
        <5>1. i \in 1 .. Len(log[d])
          BY <2>5, <3>1, <4>2
        <5> QED BY <2>5, <3>2, <5>1
      <4> QED BY <4>1, <4>2
    <3>4. Counts(d)'
      BY <2>5, <3>1, <3>3 DEF Counts
    <3>5. Ahead(d)'
      BY <3>1, <3>3 DEF Ahead
    <3>6. status'[d] = "editing" /\ cursor'[d] = 0
      BY <2>1, <2>2, <2>6 DEF Rests
    <3> QED BY <3>1, <3>4, <3>5, <3>6 DEF Rests, Settled, Final
  <2>9. ASSUME NEW s \in Scenario
        PROVE  Counts(s)' /\ Rests(s)'
    <3>1. Counts(s) /\ Rests(s)
      BY <2>3 DEF OnceInv
    <3>2. CASE s # d
      BY <2>1, <2>2, <3>1, <3>2 DEF Counts, Rests, Ahead
    <3> QED BY <2>8, <3>2
  <2>10. \A u \in Worker : u = w
    BY DEF OneWorker
  <2> QED BY <2>4, <2>9, <2>10 DEF OnceInv
<1>2. ASSUME NEW s \in Scenario, ReplayGet(w, s)
      PROVE  OnceInv'
  <2>1. /\ UNCHANGED <<status, cursor, log, trace>> /\ pc[w] = "idle"
        /\ pc'[w] = "begin" /\ view'[w].sc = s /\ view'[w].start = cursor[s]
        /\ status[s] \notin Final
    BY <1>2 DEF ReplayGet, At, Goto, Replayable, db, View
  <2>2. \A t \in Scenario : ~Replays(w, t)
    BY <2>1 DEF Replays, Replaying, Early, AtMessage, Judges
  <2>3. Rests(s)
    BY <2>2 DEF OnceInv
  <2>4. status[s] \in {"editing", "timeout"}
    BY <2>1, <2>3 DEF Rests, Status, Final
  <2>5. Len(trace[s]) = cursor[s] /\ cursor[s] \in {0, Len(log[s])}
    <3>1. CASE status[s] = "editing"
      BY <2>3, <3>1 DEF Rests
    <3>2. CASE status[s] = "timeout"
      BY <2>3, <3>2 DEF Rests, Settled, StandsInv, SettledCoversLog
    <3> QED BY <2>4, <3>1, <3>2
  <2>6. Follows(w)'
    BY <2>1, <2>3, <2>5 DEF Follows, Early, AtMessage, Judges, Rests, Ahead
  <2> QED BY <2>1, <2>2, <2>6, OnceKeeps
<1>3. CASE Request(w) /\ ~AppendInsert(w) /\ ~\E s \in Scenario : ReplayGet(w, s)
  <2>1. /\ UNCHANGED <<status, cursor, log, trace>>
        /\ pc[w] \notin Replaying /\ pc'[w] \notin Replaying
    BY <1>3 DEF Request, AppendCheck, AppendRefused, SourceRead, SourceWrite,
                RegisterReplica, SetReplicaStatus, At, Goto, Return, db, local,
                Replaying, Early, AtMessage, Judges
  <2>2. Follows(w)'
    BY <2>1 DEF Follows, Replaying, Early, AtMessage, Judges
  <2> QED BY <2>1, <2>2, OnceKeeps DEF Replays
<1> QED BY <1>1, <1>2, <1>3 DEF Request

LEMMA OnceReading ==
    ASSUME TypeInv, StandsInv, OnceInv, OneWorker, NEW w \in Worker, Reading(w)
    PROVE  OnceInv'
<1> PICK s \in Scenario : s = view[w].sc
  BY DEF TypeInv, TypeOK, View
<1>1. Follows(w) /\ Stands(w)
  BY DEF OnceInv, StandsInv
<1>2. /\ pc[w] \in Early /\ pc'[w] \in Early \union {"step"}
      /\ UNCHANGED <<log, trace>> /\ view'[w].sc = s
      /\ view'[w].start = view[w].start
  BY DEF Reading, ReplayBegin, ReplayList, ReplayTopology, ReplaySources,
         Rebuild, RebuildDone, At, Goto, Early, db, TypeInv, TypeOK, View
<1>3. Replays(w, s) /\ Replays(w, s)'
  BY <1>2 DEF Replays, Replaying
<1>4. CASE pc'[w] \in Early
  <2>1. Follows(w)'
    BY <1>1, <1>2, <1>4 DEF Follows, Early, AtMessage, Judges, Ahead
  <2>2. CASE ReplayBegin(w)
    <3>1. \A t \in Scenario \ {s} : /\ status'[t] = status[t]
                                    /\ cursor'[t] = cursor[t]
      BY <2>2 DEF ReplayBegin, TypeInv, TypeOK
    <3>2. Counts(s)'
      BY <1>2 DEF OnceInv, Counts
    <3> QED BY <1>2, <1>3, <2>1, <3>1, <3>2, OnceWrites
  <2>3. CASE ~ReplayBegin(w)
    <3>1. UNCHANGED <<status, cursor>>
      BY <2>3 DEF Reading, ReplayList, ReplayTopology, ReplaySources, Rebuild,
                  RebuildDone, db
    <3> QED BY <1>2, <1>3, <2>1, <3>1, OnceKeeps DEF Replays
  <2> QED BY <2>2, <2>3
<1>5. CASE pc'[w] \notin Early
  <2>1. RebuildDone(w)
    BY <1>5 DEF Reading, ReplayBegin, ReplayList, ReplayTopology, ReplaySources,
                Rebuild, At, Goto, Early, TypeInv, TypeOK
  <2>2. /\ UNCHANGED <<status, cursor, view>> /\ pc[w] = "rebuild"
        /\ pc'[w] = "step" /\ pos'[w] = view[w].start + 1
    BY <2>1 DEF RebuildDone, At, Goto, db, TypeInv, TypeOK
  <2>3. /\ Len(view[w].log) = Len(log[s]) /\ view[w].start \in Nat
        /\ Len(log[s]) \in Nat
    BY <1>1, <2>2 DEF Stands, Reads, TypeInv, TypeOK, View
  <2>4. /\ Len(trace[s]) = view[w].start /\ view[w].start \in {0, Len(log[s])}
        /\ Ahead(s)
    BY <1>1, <2>2 DEF Follows, Early
  <2>5. Follows(w)'
    BY <1>2, <2>2, <2>3, <2>4 DEF Follows, Early, AtMessage, Judges, InLog, Ahead
  <2> QED BY <1>2, <1>3, <2>2, <2>5, OnceKeeps DEF Replays
<1> QED BY <1>4, <1>5

\* A handler decides, and what it decides is not "pending".
LEMMA OnceHandle ==
    ASSUME TypeInv, LogInv, StandsInv, OnceInv, OneWorker,
           NEW w \in Worker, Handle(w)
    PROVE  OnceInv'
<1> PICK s \in Scenario : s = view[w].sc
  BY DEF TypeInv, TypeOK, View
<1>1. Follows(w)
  BY DEF OnceInv
<1>2. /\ UNCHANGED <<status, cursor, log, trace, view, pos>>
      /\ pc[w] \in {"step", "release", "confirm"}
      /\ pc'[w] \in {"release", "confirm", "write", "mark", "trace"}
  BY DEF Handle, RejectUnknown, HandleLease, HandleInvalidate, HandleUpdate,
         HandleAck, AckRelease, AckConfirm, HandleRetry, Ignore, Refuse, Decide,
         Handling, At, Goto, db, TypeInv, TypeOK
<1>3. pc[w] = "step" => InLog(w)
  BY DEF Handle, RejectUnknown, HandleLease, HandleInvalidate, HandleUpdate,
         HandleAck, AckRelease, AckConfirm, HandleRetry, Ignore, Handling, At
<1>4. pc'[w] \in {"write", "mark"} => eff'[w].mark # "pending"
  BY DEF Handle, RejectUnknown, HandleLease, HandleInvalidate, HandleUpdate,
         HandleAck, AckRelease, AckConfirm, HandleRetry, Ignore, Refuse, Decide,
         Goto, TypeInv, TypeOK
<1>5. pc'[w] = "trace" => log[s][pos[w]].body.kind = "other"
  <2> SUFFICES ASSUME pc'[w] = "trace"
               PROVE  log[s][pos[w]].body.kind = "other"
    OBVIOUS
  <2>1. Ignore(w)
    BY DEF Handle, RejectUnknown, HandleLease, HandleInvalidate, HandleUpdate,
           HandleAck, AckRelease, AckConfirm, HandleRetry, Refuse, Decide,
           Goto, TypeInv, TypeOK
  <2>2. Here(w).body.kind = "other" /\ InRange(w)
    BY <2>1, HandlingInRange DEF Ignore, Handling
  <2>3. view[w].start \in Nat /\ view[w].log \in Seq(Message)
    BY DEF TypeInv, TypeOK, View
  <2>4. pos[w] \in 1 .. Len(view[w].log)
    BY <2>2, <2>3 DEF InRange
  <2> QED BY <2>2, <2>4 DEF LogInv, Copied, Same, Here
<1>6. Len(trace[s]) = pos[w] - 1 /\ view[w].start = 0 /\ Ahead(s)
  BY <1>1, <1>2, <1>3 DEF Follows, AtMessage
<1>7. Follows(w)'
  BY <1>2, <1>4, <1>5, <1>6 DEF Follows, Early, AtMessage, Judges, Ahead
<1>8. Replays(w, s) /\ Replays(w, s)'
  BY <1>2 DEF Replays, Replaying, AtMessage
<1> QED BY <1>2, <1>7, <1>8, OnceKeeps DEF Replays

LEMMA OnceRecord ==
    ASSUME TypeInv, LogInv, StandsInv, OnceInv, OneWorker,
           NEW w \in Worker, Record(w)
    PROVE  OnceInv'
<1> PICK s \in Scenario : s = view[w].sc
  BY DEF TypeInv, TypeOK, View
<1>1. Follows(w) /\ Counts(s)
  BY DEF OnceInv
<1>2. /\ UNCHANGED <<status, cursor, view>>
      /\ pc[w] \in AtMessage /\ pc'[w] \in AtMessage \union {"step"}
  BY DEF Record, WriteRow, Mark, Violate, LogEvent, At, Goto, AfterMark,
         AtMessage, TypeInv, TypeOK
<1>3. Replays(w, s) /\ Replays(w, s)'
  BY <1>2 DEF Replays, Replaying
<1>4. /\ pos[w] \in Nat \ {0} /\ pos[w] <= Len(log[s]) /\ Len(log[s]) \in Nat
      /\ Len(trace[s]) = pos[w] - 1 /\ view[w].start = 0
  <2>1. InRange(w)
    BY <1>2 DEF TypeInv, PosOK
  <2>2. Len(view[w].log) \in Nat /\ Len(log[s]) \in Nat /\ view[w].start \in Nat
    BY DEF TypeInv, TypeOK, View
  <2>3. Len(view[w].log) <= Len(log[s])
    BY DEF LogInv, Within
  <2>4. pos[w] \in Nat /\ pos[w] >= view[w].start + 1 /\ pos[w] <= Len(view[w].log)
    BY <2>1 DEF InRange
  <2>5. Len(trace[s]) = pos[w] - 1 /\ view[w].start = 0
    BY <1>1, <1>2 DEF Follows
  <2>6. pos[w] # 0 /\ pos[w] <= Len(log[s])
    BY <2>2, <2>3, <2>4
  <2> QED BY <2>2, <2>4, <2>5, <2>6
<1>5. CASE WriteRow(w)
  <2>1. /\ UNCHANGED <<log, trace, pos, eff>> /\ pc[w] = "write" /\ pc'[w] = "mark"
    BY <1>5 DEF WriteRow, At, Goto, TypeInv, TypeOK
  <2>2. Follows(w)'
    BY <1>1, <1>2, <1>4, <2>1 DEF Follows, Early, AtMessage, Judges, Ahead
  <2> QED BY <1>2, <1>3, <2>1, <2>2, OnceKeeps DEF Replays
<1>6. CASE Violate(w)
  <2>1. /\ UNCHANGED <<log, trace, pos, eff>> /\ pc[w] = "violate" /\ pc'[w] = "trace"
    BY <1>6 DEF Violate, At, Goto, TypeInv, TypeOK
  <2>2. log[s][pos[w]].status # "pending"
    BY <1>1, <2>1 DEF Follows, Refused
  <2>3. Follows(w)'
    BY <1>2, <1>4, <2>1, <2>2 DEF Follows, Early, AtMessage, Judges
  <2> QED BY <1>2, <1>3, <2>1, <2>3, OnceKeeps DEF Replays
<1>7. CASE Mark(w)
  <2>1. /\ UNCHANGED <<trace, pos, eff>> /\ pc[w] = "mark" /\ pc'[w] = AfterMark(w)
    BY <1>7 DEF Mark, At, Goto, TypeInv, TypeOK
  <2>2. /\ Len(log'[s]) = Len(log[s])
        /\ \A i \in 1 .. Len(log[s]) :
              log'[s][i] = IF i = pos[w]
                           THEN Marked(log[s][i], Here(w), eff[w].mark)
                           ELSE log[s][i]
    BY <1>7, MarkWrites
  <2>3. log[s] \in Seq(Message)
    BY DEF TypeInv, TypeOK
  <2>4. log[s][pos[w]] \in Message
    BY <1>4, <2>3
  <2>5. log'[s][pos[w]].status = eff[w].mark /\ eff[w].mark # "pending"
    <3>1. \A m \in Message : Marked(m, Here(w), eff[w].mark).status = eff[w].mark
      BY DEF Marked, Message
    <3>2. log'[s][pos[w]] = Marked(log[s][pos[w]], Here(w), eff[w].mark)
      BY <1>4, <2>2
    <3>3. eff[w].mark # "pending"
      BY <1>1, <2>1 DEF Follows
    <3> QED BY <2>4, <3>1, <3>2, <3>3
  <2>6. \A t \in Scenario \ {s} : log'[t] = log[t]
    BY <1>7 DEF Mark, TypeInv, TypeOK
  <2>7. Counts(s)'
    <3>1. \A i \in 1 .. Len(log[s]) : i # pos[w] => log'[s][i] = log[s][i]
      BY <2>2
    <3>2. \A i \in 1 .. pos[w] - 1 : log'[s][i] = log[s][i]
      BY <1>4, <3>1
    <3>3. \A i \in pos[w] + 1 .. Len(log[s]) : log'[s][i] = log[s][i]
      BY <1>4, <3>1
    <3>4. \A i \in 1 .. pos[w] - 1 :
             /\ trace'[s][i] = i
             /\ log'[s][i].body.kind # "other" => log'[s][i].status # "pending"
      BY <1>1, <1>4, <2>1, <3>2, SMTT(30) DEF Counts
    <3>5. \A i \in pos[w] + 1 .. Len(log[s]) : log'[s][i].status = "pending"
      BY <1>1, <1>4, <3>3, SMTT(30) DEF Counts
    <3>6. Len(trace'[s]) = pos[w] - 1 /\ Len(log'[s]) = Len(log[s])
      BY <1>4, <2>1, <2>2
    <3> QED BY <1>4, <3>4, <3>5, <3>6 DEF Counts
  <2>8. Follows(w)'
    BY <1>2, <1>4, <2>1, <2>5 DEF Follows, AfterMark, Refused, Early, AtMessage, Judges
  <2> QED BY <1>2, <1>3, <2>1, <2>6, <2>7, <2>8, OnceWrites
<1>8. CASE LogEvent(w)
  <2>1. /\ UNCHANGED log /\ pc[w] = "trace" /\ pc'[w] = "step"
        /\ pos'[w] = pos[w] + 1
        /\ trace' = [trace EXCEPT ![s] = Append(@, StepSeq(w))]
    BY <1>8 DEF LogEvent, At, Goto, TypeInv, TypeOK
  <2>2. /\ trace[s] \in Seq(Nat) /\ trace'[s] = Append(trace[s], pos[w])
        /\ \A t \in Scenario \ {s} : trace'[t] = trace[t]
    BY <1>4, <2>1, SMTT(30) DEF StepSeq, TypeInv, TypeOK
  <2>3. /\ Len(trace'[s]) = pos[w] /\ trace'[s][pos[w]] = pos[w]
        /\ \A i \in 1 .. pos[w] - 1 : trace'[s][i] = trace[s][i]
    BY <1>4, <2>2
  <2>4. log[s][pos[w]].body.kind # "other" => log[s][pos[w]].status # "pending"
    BY <1>1, <2>1 DEF Follows
  <2>5. Counts(s)' /\ Ahead(s)'
    <3>1. \A i \in 1 .. pos[w] - 1 :
             /\ trace[s][i] = i
             /\ log[s][i].body.kind # "other" => log[s][i].status # "pending"
      BY <1>1, <1>4 DEF Counts
    <3>2. \A i \in 1 .. pos[w] :
             /\ trace'[s][i] = i
             /\ log[s][i].body.kind # "other" => log[s][i].status # "pending"
      <4>1. \A i \in 1 .. pos[w] : i = pos[w] \/ i \in 1 .. pos[w] - 1
        BY <1>4
      <4> QED BY <2>3, <2>4, <3>1, <4>1
    <3>3. \A i \in pos[w] + 1 .. Len(log[s]) : log[s][i].status = "pending"
      BY <1>1, <1>4 DEF Counts
    <3>4. \A i \in pos[w] + 2 .. Len(log[s]) : log[s][i].status = "pending"
      BY <1>4, <3>3
    <3> QED BY <1>4, <2>1, <2>3, <3>2, <3>3, <3>4 DEF Counts, Ahead
  <2>6. Follows(w)'
    BY <1>2, <1>4, <2>1, <2>3, <2>5 DEF Follows, Early, AtMessage, Judges, Ahead
  <2> QED BY <1>2, <1>3, <2>1, <2>2, <2>5, <2>6, OnceWrites
<1> QED BY <1>5, <1>6, <1>7, <1>8 DEF Record

LEMMA OnceJudge ==
    ASSUME TypeInv, StandsInv, OnceInv, OneWorker, NEW w \in Worker, Judge(w)
    PROVE  OnceInv'
<1> PICK s \in Scenario : s = view[w].sc
  BY DEF TypeInv, TypeOK, View
<1>1. Follows(w) /\ Counts(s) /\ Stands(w)
  BY DEF OnceInv, StandsInv
<1>2. UNCHANGED <<log, trace>>
  BY DEF Judge, AdvanceCursor, ScanPair, SettleViolated, SettleScanned, Settle, db
<1>3. CASE AdvanceCursor(w)
  <2>1. /\ pc[w] = "step" /\ pc'[w] \in Judges /\ ~InLog(w)
        /\ UNCHANGED <<view, pos>>
        /\ \A t \in Scenario \ {s} : status'[t] = status[t] /\ cursor'[t] = cursor[t]
    BY <1>3 DEF AdvanceCursor, At, Goto, Judges, TypeInv, TypeOK
  <2>2. Len(trace[s]) = Len(log[s])
    <3>1. Len(view[w].log) = Len(log[s])
      BY <1>1, <2>1 DEF Stands, Reads
    <3>2. pos[w] \in Nat /\ Len(log[s]) \in Nat /\ Len(trace[s]) \in Nat
      BY DEF TypeInv, TypeOK
    <3>3. Len(trace[s]) = pos[w] - 1 /\ Len(trace[s]) <= Len(log[s])
      BY <1>1, <2>1 DEF Follows, Counts
    <3> QED BY <2>1, <3>1, <3>2, <3>3 DEF InLog
  <2>3. Follows(w)'
    BY <1>2, <2>1, <2>2 DEF Follows, Early, AtMessage, Judges
  <2>4. Counts(s)' /\ Replays(w, s) /\ Replays(w, s)'
    BY <1>1, <1>2, <2>1 DEF Counts, Replays, Replaying
  <2> QED BY <1>2, <2>1, <2>3, <2>4, OnceWrites
<1>4. CASE \E r \in Replica, k \in Key : ScanPair(w, r, k)
  <2>1. UNCHANGED <<status, cursor, pc, view, pos, eff>>
    BY <1>4 DEF ScanPair, db
  <2>2. Follows(w)'
    BY <1>1, <1>2, <2>1 DEF Follows, Ahead, InLog
  <2> QED BY <1>2, <2>1, <2>2, OnceKeeps DEF Replays
<1>5. ASSUME NEW v \in Settled, Settle(w, v), pc[w] \in Judges
      PROVE  OnceInv'
  <2>1. /\ \A t \in Scenario \ {s} : status'[t] = status[t] /\ cursor'[t] = cursor[t]
        /\ status'[s] = v /\ pc'[w] = "idle"
    BY <1>5 DEF Settle, Return, Goto, TypeInv, TypeOK
  <2>2. Len(trace[s]) = Len(log[s]) /\ Len(log[s]) \in Nat
    BY <1>1, <1>5 DEF Follows, TypeInv, TypeOK
  <2>3. Rests(s)'
    BY <1>2, <2>1, <2>2 DEF Rests, Ahead, Settled, Final
  <2>4. ASSUME NEW t \in Scenario \ {s}
        PROVE  Rests(t)'
    <3>1. Rests(t)
      BY DEF OnceInv, Replays
    <3> QED BY <1>2, <2>1, <3>1 DEF Rests, Ahead
  <2>5. \A t \in Scenario : Counts(t)'
    BY <1>2 DEF OnceInv, Counts
  <2>6. Follows(w)'
    BY <2>1 DEF Follows, Early, AtMessage, Judges
  <2>7. \A u \in Worker : u = w
    BY DEF OneWorker
  <2> QED BY <2>3, <2>4, <2>5, <2>6, <2>7 DEF OnceInv
<1>6. CASE SettleViolated(w) \/ SettleScanned(w)
  BY <1>5, <1>6 DEF SettleViolated, SettleScanned, At, Judges, Settled, Final
<1> QED BY <1>3, <1>4, <1>6 DEF Judge

LEMMA OnceNext ==
    ASSUME OneWorker, NoCrash, NoFault
    PROVE  TypeInv /\ LogInv /\ StandsInv /\ DraftPending /\ OnceInv /\ [Next]_vars
           => OnceInv'
<1> SUFFICES ASSUME TypeInv, LogInv, StandsInv, DraftPending, OnceInv, [Next]_vars
             PROVE  OnceInv'
  OBVIOUS
<1>1. CASE UNCHANGED vars \/ Tick
  <2>1. UNCHANGED <<status, cursor, log, trace, pc, view, pos, eff>>
    BY <1>1 DEF vars, Tick, db, local
  <2>2. \A s \in Scenario : Counts(s)'
    BY <2>1 DEF OnceInv, Counts
  <2>3. \A w \in Worker : Follows(w)'
    BY <2>1 DEF OnceInv, Follows, Ahead, InLog
  <2>4. ASSUME NEW w \in Worker, NEW s \in Scenario, ~Replays(w, s)'
        PROVE  Rests(s)'
    <3>1. Rests(s)
      BY <2>1, <2>4 DEF OnceInv, Replays
    <3> QED BY <2>1, <3>1 DEF Rests, Ahead
  <2> QED BY <2>2, <2>3, <2>4 DEF OnceInv
<1>2. ~Crash /\ \A w \in Worker : ~Failure(w)
  BY DEF Crash, Failure, Abort, RowFault, MarkLost, ScanFault, Fault, NoCrash,
         NoFault, TypeInv, TypeOK
<1>3. ASSUME NEW w \in Worker, Request(w) \/ ReplayStep(w)
      PROVE  OnceInv'
  BY <1>3, OnceRequest, OnceReading, OnceHandle, OnceRecord, OnceJudge
     DEF ReplayStep
<1> QED BY <1>1, <1>2, <1>3 DEF Next

LEMMA OnceInvariant ==
    ASSUME OneWorker, NoCrash, NoFault
    PROVE  Spec => [](TypeInv /\ LogInv /\ StandsInv /\ DraftPending /\ OnceInv)
<1>1. Init => DraftPending /\ OnceInv
  <2> SUFFICES ASSUME Init PROVE DraftPending /\ OnceInv
    OBVIOUS
  <2>1. DraftPending
    BY DEF Init, DraftPending
  <2>2. \A s \in Scenario : Counts(s) /\ Rests(s)
    BY DEF Init, Counts, Rests, Ahead, Settled, Final
  <2>3. \A w \in Worker : Follows(w)
    BY DEF Init, Follows, Early, AtMessage, Judges
  <2> QED BY <2>1, <2>2, <2>3 DEF OnceInv
<1>2. TypeInv /\ DraftPending /\ [Next]_vars => DraftPending'
  BY DraftStep
<1> QED BY <1>1, <1>2, StandsInvariant, OnceNext, PTL DEF Spec

\* Requests one after the other and nothing failing, each message is handled
\* once and in order: the trace counts up, and no message is touched before its
\* turn.
THEOREM HandledAlwaysOnce ==
    ASSUME OneWorker, NoCrash, NoFault
    PROVE  Spec => []HandledOnce
<1>1. TypeInv /\ OnceInv => HandledOnce
  <2> SUFFICES ASSUME TypeInv, OnceInv, NEW s \in Scenario
               PROVE  LET n == Len(trace[s]) IN
                      /\ \A i \in 1 .. n : trace[s][i] = i
                      /\ \A i \in DOMAIN log[s] :
                            /\ i <= n /\ log[s][i].body.kind # "other"
                               => log[s][i].status # "pending"
                            /\ i > n + 1 => log[s][i].status = "pending"
    BY DEF HandledOnce
  <2>1. /\ Len(trace[s]) \in Nat /\ Len(log[s]) \in Nat
        /\ DOMAIN log[s] = 1 .. Len(log[s])
    BY DEF TypeInv, TypeOK
  <2> QED BY <2>1 DEF OnceInv, Counts
<1> QED BY <1>1, OnceInvariant, PTL

-----------------------------------------------------------------------------
(* Undisturbed: the violations are the steps of the refused messages, each *)
(* once, but for one that is still to be written.                          *)

\* The refused messages but the one whose violation is about to be written.
Told(w, s) ==
    RefusedSteps(s)
    \ (IF pc[w] = "violate" /\ view[w].sc = s THEN {pos[w]} ELSE {})

Records(s, told) ==
    /\ {violations[s][i] : i \in DOMAIN violations[s]} = told
    /\ Len(violations[s]) = Cardinality(told)

\* A replay knows whether its scenario has violations.
\* A replay remembers whether there are any, and its verdict goes by that.
Recalls(w) ==
    /\ pc[w] \notin Replaying => ~tally[w].viol
    /\ pc[w] \in Replaying => (tally[w].viol <=> violations[view[w].sc] # <<>>)
    /\ pc[w] = "verdict" => tally[w].viol
    /\ pc[w] = "scan" => ~tally[w].viol

AddsInv ==
    /\ SettledAddsUp
    /\ \A w \in Worker : Recalls(w) /\ \A s \in Scenario : Records(s, Told(w, s))
    /\ \A w \in Worker, s \in Scenario :
          ~Replays(w, s) /\ status[s] # "violated" => violations[s] = <<>>

\* A step that refuses nothing and records nothing.
LEMMA AddsSame ==
    ASSUME AddsInv, OneWorker, NEW w \in Worker, UNCHANGED violations,
           pc[w] # "violate", pc'[w] # "violate",
           \A s \in Scenario : RefusedSteps(s)' = RefusedSteps(s)
    PROVE  /\ \A u \in Worker : u = w
           /\ \A s \in Scenario : Records(s, RefusedSteps(s))
           /\ \A u \in Worker, s \in Scenario : Records(s, Told(u, s))'
<1>1. \A u \in Worker : u = w
  BY DEF OneWorker
<1>2. ASSUME NEW s \in Scenario
      PROVE  Records(s, RefusedSteps(s)) /\ Records(s, Told(w, s))'
  <2>1. Told(w, s) = RefusedSteps(s)
    BY DEF Told
  <2>2. Told(w, s)' = RefusedSteps(s)
    BY DEF Told
  <2>3. Records(s, RefusedSteps(s))
    BY <2>1 DEF AddsInv
  <2> QED BY <2>2, <2>3 DEF Records
<1> QED BY <1>1, <1>2

\* Nor does it give a verdict.
LEMMA AddsKeeps ==
    ASSUME AddsInv, OneWorker, NEW w \in Worker, Recalls(w)',
           UNCHANGED <<status, violations>>, pc[w] # "violate", pc'[w] # "violate",
           \A s \in Scenario : /\ RefusedSteps(s)' = RefusedSteps(s)
                               /\ Replays(w, s) => Replays(w, s)'
    PROVE  AddsInv'
<1>1. /\ \A u \in Worker : u = w
      /\ \A u \in Worker, s \in Scenario : Records(s, Told(u, s))'
  BY AddsSame
<1>2. SettledAddsUp'
  BY DEF AddsInv, SettledAddsUp
<1>3. ASSUME NEW s \in Scenario, ~Replays(w, s)', status'[s] # "violated"
      PROVE  violations'[s] = <<>>
  BY <1>3 DEF AddsInv
<1> QED BY <1>1, <1>2, <1>3 DEF AddsInv

LEMMA AddsRequest ==
    ASSUME TypeInv, StandsInv, DraftPending, OnceInv, AddsInv, OneWorker,
           NEW w \in Worker, Request(w)
    PROVE  AddsInv'
<1> USE DEF TypeInv, TypeOK
<1>1. Recalls(w)
  BY DEF AddsInv
<1>2. /\ UNCHANGED <<status, violations, tally>> \/ pc'[w] = "idle"
      /\ UNCHANGED <<status, violations>>
      /\ pc[w] \in {"idle", "insert", "commit"}
      /\ pc'[w] \in {"idle", "insert", "commit", "begin"}
  BY DEF Request, AppendCheck, AppendInsert, ReplayGet, AppendRefused, SourceRead,
         SourceWrite, RegisterReplica, SetReplicaStatus, At, Goto, Return, db, local
<1>3. ASSUME NEW s \in Scenario
      PROVE  RefusedSteps(s)' = RefusedSteps(s)
  <2>1. CASE AppendInsert(w)
    <3> PICK d \in Scenario : d = draft[w].sc
      BY DEF Draft
    <3>1. /\ draft[w].msg \in Message /\ draft[w].msg.status = "pending"
          /\ log' = [log EXCEPT ![d] = Append(@, draft[w].msg)]
      BY <2>1 DEF AppendInsert, At, DraftPending, FormOK
    <3>2. /\ log[d] \in Seq(Message) /\ Len(log'[d]) = Len(log[d]) + 1
          /\ \A i \in 1 .. Len(log[d]) : log'[d][i] = log[d][i]
          /\ log'[d][Len(log[d]) + 1].status = "pending"
          /\ DOMAIN log[d] = 1 .. Len(log[d])
          /\ DOMAIN log'[d] = 1 .. Len(log[d]) + 1
      BY <3>1
    <3>3. CASE s = d
      <4> DEFINE n == Len(log[d])  old == log[d]  new == log'[d]
      <4>1. n \in Nat /\ 1 .. n + 1 = (1 .. n) \union {n + 1}
        <5>1. n \in Nat
          BY <3>2
        <5> HIDE DEF n
        <5> QED BY <5>1
      <4>2. RefusedSteps(d) = {i \in 1 .. n : Refused(old[i].status)}
        BY <3>2 DEF RefusedSteps
      <4>3. RefusedSteps(d)' = {i \in 1 .. n + 1 : Refused(new[i].status)}
        BY <3>2 DEF RefusedSteps
      <4>4. ~Refused(new[n + 1].status) /\ \A i \in 1 .. n : new[i] = old[i]
        BY <3>2 DEF Refused
      <4>5. {i \in 1 .. n + 1 : Refused(new[i].status)}
            = {i \in 1 .. n : Refused(old[i].status)}
        <5> HIDE DEF n, old, new
        <5> QED BY <4>1, <4>4
      <4> QED BY <3>3, <4>2, <4>3, <4>5
    <3>4. CASE s # d
      BY <3>1, <3>4 DEF RefusedSteps
    <3> QED BY <3>3, <3>4
  <2>2. CASE ~AppendInsert(w)
    <3>1. UNCHANGED log
      BY <2>2 DEF Request, AppendCheck, ReplayGet, AppendRefused, SourceRead,
                  SourceWrite, RegisterReplica, SetReplicaStatus, db
    <3> QED BY <3>1 DEF RefusedSteps
  <2> QED BY <2>1, <2>2
<1>4. \A s \in Scenario : ~Replays(w, s)
  BY <1>2 DEF Replays, Replaying, Early, AtMessage, Judges
<1>5. ~tally'[w].viol
  <2>1. ~tally[w].viol
    BY <1>1, <1>2 DEF Recalls, Replaying, Early, AtMessage, Judges
  <2>2. UNCHANGED tally \/ tally'[w] = NoTally
    BY DEF Request, AppendCheck, AppendInsert, ReplayGet, AppendRefused, SourceRead,
           SourceWrite, RegisterReplica, SetReplicaStatus, Return, local
  <2> QED BY <2>1, <2>2 DEF NoTally
<1>6. Recalls(w)'
  <2>1. ASSUME NEW s \in Scenario, ReplayGet(w, s)
        PROVE  Recalls(w)'
    <3>1. pc'[w] = "begin" /\ view'[w].sc = s /\ status[s] # "violated"
      BY <2>1 DEF ReplayGet, Goto, Replayable, Final, View
    <3>2. violations'[s] = <<>>
      BY <1>2, <1>4, <3>1 DEF AddsInv
    <3> QED BY <1>5, <3>1, <3>2 DEF Recalls
  <2>2. CASE ~\E s \in Scenario : ReplayGet(w, s)
    <3>1. pc'[w] # "begin"
      BY <2>2 DEF Request, AppendCheck, AppendInsert, AppendRefused, SourceRead,
                  SourceWrite, RegisterReplica, SetReplicaStatus, At, Goto, Return,
                  local
    <3> QED BY <1>2, <1>5, <3>1 DEF Recalls, Replaying, Early, AtMessage, Judges
  <2> QED BY <2>1, <2>2
<1> QED BY <1>2, <1>3, <1>4, <1>6, AddsKeeps

LEMMA ScanRemembers ==
    ASSUME TypeInv, NEW w \in Worker, NEW r \in Replica, NEW k \in Key, ScanPair(w, r, k)
    PROVE  tally'[w].viol = tally[w].viol
BY DEF ScanPair, Scanned, TypeInv, TypeOK, Tally

\* A step of a replay that writes neither a mark, a violation nor a verdict.
LEMMA AddsGoesOn ==
    ASSUME TypeInv, StandsInv, AddsInv, OneWorker, NEW w \in Worker,
           Reading(w) \/ Handle(w) \/ WriteRow(w) \/ LogEvent(w) \/ AdvanceCursor(w)
           \/ \E r \in Replica, k \in Key : ScanPair(w, r, k)
    PROVE  AddsInv'
<1> PICK s \in Scenario : s = view[w].sc
  BY DEF TypeInv, TypeOK, View
<1>1. /\ UNCHANGED <<log, violations>> /\ view'[w].sc = s
      /\ \A t \in Scenario \ {s} : status'[t] = status[t]
      /\ pc[w] \in Replaying \ {"violate"} /\ pc'[w] \in Replaying \ {"violate"}
  <2>1. CASE Reading(w)
    BY <2>1, SMTT(30)
       DEF Reading, ReplayBegin, ReplayList, ReplayTopology, ReplaySources,
           Rebuild, RebuildDone, At, Goto, Replaying, Early, db, TypeInv,
           TypeOK, View
  <2>2. CASE Handle(w)
    BY <2>2 DEF Handle, RejectUnknown, HandleLease, HandleInvalidate, HandleUpdate,
                HandleAck, AckRelease, AckConfirm, HandleRetry, Ignore, Refuse,
                Decide, Handling, At, Goto, Replaying, AtMessage, db, TypeInv, TypeOK
  <2>3. CASE WriteRow(w) \/ LogEvent(w)
    BY <2>3 DEF WriteRow, LogEvent, At, Goto, Replaying, AtMessage, TypeInv, TypeOK
  <2>4. CASE AdvanceCursor(w)
    BY <2>4 DEF AdvanceCursor, At, Goto, Replaying, AtMessage, Judges, TypeInv, TypeOK
  <2>5. CASE \E r \in Replica, k \in Key : ScanPair(w, r, k)
    BY <2>5 DEF ScanPair, At, Replaying, AtMessage, Judges, db
  <2> QED BY <2>1, <2>2, <2>3, <2>4, <2>5
<1>2. /\ tally'[w].viol = tally[w].viol
      /\ pc'[w] = "verdict" => tally[w].viol
      /\ pc'[w] = "scan" => ~tally[w].viol
  <2>1. Recalls(w)
    BY DEF AddsInv
  <2>2. CASE Reading(w)
    BY <2>2 DEF Reading, ReplayBegin, ReplayList, ReplayTopology, ReplaySources,
                Rebuild, RebuildDone, At, Goto, TypeInv, TypeOK
  <2>3. CASE Handle(w)
    BY <2>3 DEF Handle, RejectUnknown, HandleLease, HandleInvalidate, HandleUpdate,
                HandleAck, AckRelease, AckConfirm, HandleRetry, Ignore, Refuse,
                Decide, Goto, TypeInv, TypeOK
  <2>4. CASE WriteRow(w) \/ LogEvent(w)
    BY <2>4 DEF WriteRow, LogEvent, Goto, TypeInv, TypeOK
  <2>5. CASE AdvanceCursor(w)
    BY <2>5 DEF AdvanceCursor, Goto, TypeInv, TypeOK, Tally
  <2>6. ASSUME NEW r \in Replica, NEW k \in Key, ScanPair(w, r, k)
        PROVE  tally'[w].viol = tally[w].viol /\ pc'[w] = "scan" /\ ~tally[w].viol
    <3>1. pc[w] = "scan" /\ UNCHANGED pc
      BY <2>6 DEF ScanPair, At
    <3>2. tally'[w].viol = tally[w].viol
      BY <2>6, ScanRemembers
    <3> QED BY <2>1, <3>1, <3>2 DEF Recalls
  <2> QED BY <2>2, <2>3, <2>4, <2>5, <2>6
<1>3. Recalls(w)'
  BY <1>1, <1>2 DEF AddsInv, Recalls
<1>4. \A t \in Scenario : RefusedSteps(t)' = RefusedSteps(t)
  BY <1>1 DEF RefusedSteps
<1>5. \A t \in Scenario : /\ Replays(w, t) <=> t = s
                          /\ Replays(w, t)' <=> t = s
  BY <1>1 DEF Replays
<1>6. /\ \A u \in Worker : u = w
      /\ \A u \in Worker, t \in Scenario : Records(t, Told(u, t))'
  BY <1>1, <1>4, AddsSame
<1>7. status'[s] = status[s] \/ status'[s] = "replaying"
  <2>1. CASE ReplayBegin(w) \/ AdvanceCursor(w)
    BY <2>1 DEF ReplayBegin, AdvanceCursor, TypeInv, TypeOK
  <2>2. CASE Handle(w)
    BY <2>2 DEF Handle, RejectUnknown, HandleLease, HandleInvalidate, HandleUpdate,
                HandleAck, AckRelease, AckConfirm, HandleRetry, Ignore, db
  <2>3. CASE ~ReplayBegin(w) /\ ~AdvanceCursor(w) /\ ~Handle(w)
    BY <2>3 DEF Reading, ReplayList, ReplayTopology, ReplaySources, Rebuild,
                RebuildDone, WriteRow, LogEvent, ScanPair, db
  <2> QED BY <2>1, <2>2, <2>3
<1>8. SettledAddsUp'
  BY <1>1, <1>4, <1>7 DEF AddsInv, SettledAddsUp, Settled, Final
<1>9. ASSUME NEW t \in Scenario, ~Replays(w, t)', status'[t] # "violated"
      PROVE  violations'[t] = <<>>
  BY <1>1, <1>5, <1>9 DEF AddsInv
<1> QED BY <1>3, <1>6, <1>8, <1>9 DEF AddsInv

\* What a replay stands at: one message of the log, the next after the trace.
LEMMA AtItsMessage ==
    ASSUME TypeInv, LogInv, StandsInv, OnceInv, NEW w \in Worker,
           pc[w] \in AtMessage, NEW s \in Scenario, s = view[w].sc
    PROVE  /\ log[s] \in Seq(Message) /\ pos[w] \in DOMAIN log[s]
           /\ pos[w] = Len(trace[s]) + 1 /\ StepSeq(w) = pos[w]
           /\ status[s] = "replaying"
<1>1. Follows(w) /\ Stands(w) /\ Within(w) /\ InRange(w)
  BY DEF OnceInv, StandsInv, LogInv, TypeInv, PosOK
<1>2. /\ log[s] \in Seq(Message) /\ view[w].log \in Seq(Message)
      /\ view[w].start \in Nat /\ Len(trace[s]) \in Nat
  BY DEF TypeInv, TypeOK, View
<1>3. view[w].start = 0 /\ Len(trace[s]) = pos[w] - 1 /\ status[s] = "replaying"
  BY <1>1 DEF Follows, Stands, Reads
<1>4. pos[w] \in 1 .. Len(log[s])
  <2>1. /\ pos[w] \in Nat /\ pos[w] >= view[w].start + 1
        /\ pos[w] <= Len(view[w].log) /\ Len(view[w].log) <= Len(log[s])
    BY <1>1 DEF InRange, Within
  <2>2. Len(view[w].log) \in Nat /\ Len(log[s]) \in Nat
    BY <1>2
  <2> QED BY <1>2, <2>1, <2>2
<1> QED BY <1>2, <1>3, <1>4 DEF StepSeq

LEMMA AddsMark ==
    ASSUME TypeInv, LogInv, StandsInv, OnceInv, AddsInv, OneWorker,
           NEW w \in Worker, Mark(w)
    PROVE  AddsInv'
<1> PICK s \in Scenario : s = view[w].sc
  BY DEF TypeInv, TypeOK, View
<1>1. /\ UNCHANGED <<status, violations, tally, view, pos>>
      /\ pc[w] = "mark" /\ pc'[w] = AfterMark(w)
      /\ \A t \in Scenario \ {s} : log'[t] = log[t]
  BY DEF Mark, At, Goto, TypeInv, TypeOK
<1>2. /\ log[s] \in Seq(Message) /\ pos[w] \in DOMAIN log[s]
      /\ pos[w] = Len(trace[s]) + 1 /\ status[s] = "replaying"
  BY <1>1, AtItsMessage DEF AtMessage
<1>3. Follows(w) /\ Recalls(w)
  BY DEF OnceInv, AddsInv
<1>4. /\ DOMAIN log'[s] = DOMAIN log[s]
      /\ \A i \in DOMAIN log[s] :
            log'[s][i].status = IF i = pos[w] THEN eff[w].mark ELSE log[s][i].status
  <2>1. \A m \in Message : Marked(m, Here(w), eff[w].mark).status = eff[w].mark
    BY DEF Marked, Message
  <2>2. log' = [log EXCEPT ![s][pos[w]] = Marked(@, Here(w), eff[w].mark)]
    BY DEF Mark
  <2>3. log'[s] = [log[s] EXCEPT ![pos[w]] = Marked(@, Here(w), eff[w].mark)]
    BY <2>2 DEF TypeInv, TypeOK
  <2>4. log[s][pos[w]] \in Message
    BY <1>2
  <2> QED BY <1>2, <2>1, <2>3, <2>4
<1>5. log[s][pos[w]].status = "pending"
  BY <1>1, <1>2, <1>3 DEF Follows, Ahead
<1>6. pos[w] \notin RefusedSteps(s)
  BY <1>5 DEF RefusedSteps, Refused
<1>7. RefusedSteps(s)' = RefusedSteps(s)
                         \union (IF Refused(eff[w].mark) THEN {pos[w]} ELSE {})
  BY <1>2, <1>4, <1>5 DEF RefusedSteps, Refused
<1>8. \A t \in Scenario \ {s} : RefusedSteps(t)' = RefusedSteps(t)
  BY <1>1 DEF RefusedSteps
<1>9. ASSUME NEW t \in Scenario
      PROVE  Records(t, Told(w, t))'
  <2>1. Told(w, t) = RefusedSteps(t)
    BY <1>1 DEF Told
  <2>2. Told(w, t)' = RefusedSteps(t)
    <3>1. CASE t # s
      BY <1>1, <1>8, <3>1 DEF Told
    <3>2. CASE t = s /\ Refused(eff[w].mark)
      <4>1. pc'[w] = "violate"
        BY <1>1, <3>2 DEF AfterMark
      <4> QED BY <1>1, <1>6, <1>7, <3>2, <4>1 DEF Told
    <3>3. CASE t = s /\ ~Refused(eff[w].mark)
      <4>1. pc'[w] # "violate"
        BY <1>1, <3>3 DEF AfterMark
      <4> QED BY <1>7, <3>3, <4>1 DEF Told
    <3> QED BY <3>1, <3>2, <3>3
  <2>3. Records(t, RefusedSteps(t))
    BY <2>1 DEF AddsInv
  <2> QED BY <1>1, <2>2, <2>3 DEF Records
<1>10. Recalls(w)'
  BY <1>1, <1>3 DEF Recalls, AfterMark, Replaying, AtMessage
<1>11. SettledAddsUp'
  BY <1>1, <1>2, <1>8 DEF AddsInv, SettledAddsUp, Settled, Final
<1>12. ASSUME NEW t \in Scenario, ~Replays(w, t)', status'[t] # "violated"
       PROVE  violations'[t] = <<>>
  <2>1. ~Replays(w, t)
    BY <1>1, <1>12 DEF Replays, Replaying, AtMessage, AfterMark
  <2> QED BY <1>1, <1>12, <2>1 DEF AddsInv
<1>13. \A u \in Worker : u = w
  BY DEF OneWorker
<1> QED BY <1>9, <1>10, <1>11, <1>12, <1>13 DEF AddsInv

LEMMA OneMoreValue ==
    ASSUME NEW n \in Nat, NEW v, NEW u, \A i \in 1 .. n : u[i] = v[i]
    PROVE  {u[i] : i \in 1 .. n + 1} = {v[i] : i \in 1 .. n} \union {u[n + 1]}
<1>1. 1 .. n + 1 = (1 .. n) \union {n + 1}
  OBVIOUS
<1> QED BY <1>1

LEMMA AddsViolate ==
    ASSUME TypeInv, LogInv, StandsInv, OnceInv, AddsInv, OneWorker,
           NEW w \in Worker, Violate(w)
    PROVE  AddsInv'
<1> PICK s \in Scenario : s = view[w].sc
  BY DEF TypeInv, TypeOK, View
<1>1. /\ UNCHANGED <<status, log, view, pos>>
      /\ pc[w] = "violate" /\ pc'[w] = "trace"
      /\ violations' = [violations EXCEPT ![s] = Append(@, StepSeq(w))]
      /\ tally'[w].viol
  BY DEF Violate, AppendViolation, At, Goto, TypeInv, TypeOK, Tally
<1>2. /\ log[s] \in Seq(Message) /\ pos[w] \in DOMAIN log[s]
      /\ StepSeq(w) = pos[w] /\ status[s] = "replaying"
  BY <1>1, AtItsMessage DEF AtMessage
<1>3. pos[w] \in RefusedSteps(s)
  BY <1>1, <1>2 DEF OnceInv, Follows, RefusedSteps
<1>4. \A t \in Scenario : RefusedSteps(t)' = RefusedSteps(t)
  BY <1>1 DEF RefusedSteps
<1>5. /\ violations[s] \in Seq(Nat) /\ violations'[s] = Append(violations[s], pos[w])
      /\ \A t \in Scenario \ {s} : violations'[t] = violations[t]
  BY <1>1, <1>2 DEF TypeInv, TypeOK
<1>6. \A t \in Scenario : Told(w, t)' = RefusedSteps(t)
  BY <1>1, <1>4 DEF Told
<1>7. Records(s, Told(w, s))'
  <2> DEFINE told == RefusedSteps(s) \ {pos[w]}
  <2>1. Records(s, told)
    BY <1>1 DEF AddsInv, Told
  <2>2. IsFiniteSet(told)
    <3>1. Len(log[s]) \in Nat /\ told \subseteq 1 .. Len(log[s])
      BY <1>2 DEF RefusedSteps
    <3>2. IsFiniteSet(1 .. Len(log[s]))
      BY <3>1, FS_Interval
    <3> HIDE DEF told
    <3> QED BY <3>1, <3>2, FS_Subset
  <2>3. Cardinality(RefusedSteps(s)) = Cardinality(told) + 1
    <3>1. pos[w] \notin told /\ told \union {pos[w]} = RefusedSteps(s)
      BY <1>3
    <3> QED BY <2>2, <3>1, FS_AddElement
  <2>4. Len(violations'[s]) = Cardinality(RefusedSteps(s))
    BY <1>5, <2>1, <2>3 DEF Records
  <2>5. {violations'[s][i] : i \in DOMAIN violations'[s]} = RefusedSteps(s)
    <3> DEFINE v == violations[s]  n == Len(violations[s])
    <3>1. /\ n \in Nat /\ DOMAIN v = 1 .. n /\ DOMAIN violations'[s] = 1 .. n + 1
          /\ violations'[s][n + 1] = pos[w]
          /\ \A i \in 1 .. n : violations'[s][i] = v[i]
      BY <1>5
    <3>2. {v[i] : i \in 1 .. n} = told
      BY <2>1, <3>1 DEF Records
    <3>3. {violations'[s][i] : i \in 1 .. n + 1} = {v[i] : i \in 1 .. n} \union {pos[w]}
      <4> PICK u : u = violations'[s]
        OBVIOUS
      <4> HIDE DEF v, n
      <4>1. \A i \in 1 .. n : u[i] = v[i]
        BY <3>1
      <4>2. {u[i] : i \in 1 .. n + 1} = {v[i] : i \in 1 .. n} \union {u[n + 1]}
        BY <3>1, <4>1, OneMoreValue
      <4> QED BY <3>1, <4>2
    <3> QED BY <1>3, <3>1, <3>2, <3>3
  <2> QED BY <1>6, <2>4, <2>5 DEF Records
<1>8. ASSUME NEW t \in Scenario
      PROVE  Records(t, Told(w, t))'
  <2>1. CASE t # s
    <3>1. Records(t, RefusedSteps(t))
      BY <2>1 DEF AddsInv, Told
    <3> QED BY <1>5, <1>6, <2>1, <3>1 DEF Records
  <2> QED BY <1>7, <2>1
<1>9. Recalls(w)'
  <2>1. Len(violations'[s]) = Len(violations[s]) + 1 /\ Len(violations[s]) \in Nat
    BY <1>5
  <2>2. violations'[s] # <<>>
    BY <2>1
  <2> QED BY <1>1, <2>2 DEF Recalls, Replaying, AtMessage
<1>10. SettledAddsUp'
  BY <1>1, <1>2, <1>4, <1>5 DEF AddsInv, SettledAddsUp, Settled, Final
<1>11. ASSUME NEW t \in Scenario, ~Replays(w, t)', status'[t] # "violated"
       PROVE  violations'[t] = <<>>
  <2>1. t # s /\ ~Replays(w, t)
    BY <1>1, <1>11 DEF Replays, Replaying, AtMessage
  <2> QED BY <1>1, <1>5, <1>11, <2>1 DEF AddsInv
<1>12. \A u \in Worker : u = w
  BY DEF OneWorker
<1> QED BY <1>8, <1>9, <1>10, <1>11, <1>12 DEF AddsInv

LEMMA AddsSettle ==
    ASSUME TypeInv, AddsInv, OneWorker, NEW w \in Worker,
           SettleViolated(w) \/ SettleScanned(w)
    PROVE  AddsInv'
<1> PICK s \in Scenario : s = view[w].sc
  BY DEF TypeInv, TypeOK, View
<1>1. /\ UNCHANGED <<log, violations>> /\ pc[w] \in Judges /\ pc'[w] = "idle"
      /\ tally'[w] = NoTally
      /\ \A t \in Scenario \ {s} : status'[t] = status[t]
      /\ pc[w] = "verdict" => status'[s] = "violated"
      /\ pc[w] = "scan" => status'[s] \in {"converged", "timeout"}
  BY DEF SettleViolated, SettleScanned, Settle, At, Return, Goto, Judges, TypeInv, TypeOK
<1>2. Recalls(w)
  BY DEF AddsInv
<1>3. status'[s] = "violated" <=> violations[s] # <<>>
  BY <1>1, <1>2 DEF Recalls, Judges, Replaying
<1>4. \A t \in Scenario : RefusedSteps(t)' = RefusedSteps(t)
  BY <1>1 DEF RefusedSteps
<1>5. /\ \A u \in Worker : u = w
      /\ \A t \in Scenario : Records(t, RefusedSteps(t))
      /\ \A u \in Worker, t \in Scenario : Records(t, Told(u, t))'
  BY <1>1, <1>4, AddsSame DEF Judges
<1>6. violations[s] # <<>> <=> RefusedSteps(s) # {}
  <2>1. violations[s] \in Seq(Nat)
    BY <1>1 DEF TypeInv, TypeOK
  <2>2. {violations[s][i] : i \in DOMAIN violations[s]} = RefusedSteps(s)
    BY <1>5 DEF Records
  <2>3. violations[s] # <<>> => 1 \in DOMAIN violations[s]
    BY <2>1
  <2>4. violations[s] = <<>> => DOMAIN violations[s] = {}
    BY <2>1
  <2> QED BY <2>2, <2>3, <2>4
<1>7. SettledAddsUp'
  <2>1. \A t \in Scenario \ {s} : status[t] \in Settled =>
           (status[t] = "violated" <=> RefusedSteps(t) # {})
    BY DEF AddsInv, SettledAddsUp
  <2> QED BY <1>1, <1>3, <1>4, <1>5, <1>6, <2>1 DEF SettledAddsUp, Records
<1>8. Recalls(w)'
  BY <1>1 DEF Recalls, NoTally, Replaying, Early, AtMessage, Judges
<1>9. ASSUME NEW t \in Scenario, status'[t] # "violated"
      PROVE  violations'[t] = <<>>
  <2>1. CASE t # s
    BY <1>1, <1>9, <2>1 DEF AddsInv, Replays
  <2> QED BY <1>1, <1>3, <1>9, <2>1
<1> QED BY <1>5, <1>7, <1>8, <1>9 DEF AddsInv

LEMMA AddsNext ==
    ASSUME OneWorker, NoCrash, NoFault
    PROVE  TypeInv /\ LogInv /\ StandsInv /\ DraftPending /\ OnceInv /\ AddsInv
           /\ [Next]_vars => AddsInv'
<1> SUFFICES ASSUME TypeInv, LogInv, StandsInv, DraftPending, OnceInv, AddsInv,
                    [Next]_vars
             PROVE  AddsInv'
  OBVIOUS
<1>1. CASE UNCHANGED vars \/ Tick
  <2>1. UNCHANGED <<status, log, violations, pc, view, pos, tally>>
    BY <1>1 DEF vars, Tick, db, local
  <2>2. SettledAddsUp'
    <3>1. \A s \in Scenario : RefusedSteps(s)' = RefusedSteps(s)
      BY <2>1 DEF RefusedSteps
    <3> QED BY <2>1, <3>1 DEF AddsInv, SettledAddsUp
  <2>3. ASSUME NEW w \in Worker
        PROVE  Recalls(w)' /\ \A s \in Scenario : Records(s, Told(w, s))'
    <3>1. Recalls(w) /\ \A s \in Scenario : Records(s, Told(w, s))
      BY DEF AddsInv
    <3>2. Recalls(w)'
      BY <2>1, <3>1 DEF Recalls
    <3>3. \A s \in Scenario : Told(w, s)' = Told(w, s)
      BY <2>1 DEF Told, RefusedSteps
    <3> QED BY <2>1, <3>1, <3>2, <3>3 DEF Records
  <2>4. ASSUME NEW w \in Worker, NEW s \in Scenario, ~Replays(w, s)',
               status'[s] # "violated"
        PROVE  violations'[s] = <<>>
    BY <2>1, <2>4 DEF AddsInv, Replays
  <2> QED BY <2>2, <2>3, <2>4 DEF AddsInv
<1>2. ~Crash /\ \A w \in Worker : ~Failure(w)
  BY DEF Crash, Failure, Abort, RowFault, MarkLost, ScanFault, Fault, NoCrash,
         NoFault, TypeInv, TypeOK
<1>3. ASSUME NEW w \in Worker, Request(w) \/ ReplayStep(w)
      PROVE  AddsInv'
  BY <1>3, AddsRequest, AddsGoesOn, AddsMark, AddsViolate, AddsSettle
     DEF ReplayStep, Record, Judge
<1> QED BY <1>1, <1>2, <1>3 DEF Next

\* Requests one after the other and nothing failing, verdict, violations and log
\* tell one story: each refused message has one violation, at its step, and they
\* decide the verdict.
THEOREM SettledAlwaysAddsUp ==
    ASSUME OneWorker, NoCrash, NoFault
    PROVE  Spec => []SettledAddsUp
<1>1. Init => AddsInv
  <2> SUFFICES ASSUME Init PROVE AddsInv
    OBVIOUS
  <2>1. SettledAddsUp
    BY DEF Init, SettledAddsUp, Settled, Final
  <2>2. \A w \in Worker : Recalls(w)
    BY DEF Init, Recalls, NoTally, Replaying, Early, AtMessage, Judges
  <2>3. ASSUME NEW w \in Worker, NEW s \in Scenario
        PROVE  Records(s, Told(w, s))
    <3>1. log[s] = <<>> /\ violations[s] = <<>>
      BY DEF Init
    <3>2. Told(w, s) = {}
      BY <3>1 DEF Told, RefusedSteps
    <3> QED BY <3>1, <3>2, FS_EmptySet DEF Records
  <2> QED BY <2>1, <2>2, <2>3 DEF Init, AddsInv
<1>2. AddsInv => SettledAddsUp
  BY DEF AddsInv
<1> QED BY <1>1, <1>2, OnceInvariant, AddsNext, PTL DEF Spec

\* Requests one after the other and nothing failing, a converged scenario has no
\* violation on record: that one has after a crash is the crash's doing alone.
THEOREM ConvergedWithoutViolation ==
    ASSUME OneWorker, NoCrash, NoFault
    PROVE  Spec => []NoViolationInConverged
<1>1. ASSUME TypeInv, SettledAddsUp, NEW s \in Scenario, status[s] = "converged"
      PROVE  violations[s] = <<>>
  <2>1. violations[s] \in Seq(Nat)
    BY <1>1 DEF TypeInv, TypeOK
  <2>2. {violations[s][i] : i \in DOMAIN violations[s]} = {}
    BY <1>1 DEF SettledAddsUp, Settled, Final
  <2>3. DOMAIN violations[s] = {}
    BY <2>2
  <2>4. DOMAIN violations[s] = 1 .. Len(violations[s]) /\ Len(violations[s]) \in Nat
    BY <2>1, LenProperties
  <2>5. Len(violations[s]) = 0
    <3>1. ASSUME NEW n \in Nat, 1 .. n = {}
          PROVE  n = 0
      BY <3>1
    <3> QED BY <2>3, <2>4, <3>1
  <2> QED BY <2>1, <2>5, EmptySeq
<1>2. TypeInv /\ SettledAddsUp => NoViolationInConverged
  BY <1>1 DEF NoViolationInConverged
<1> QED BY <1>2, TypeInvariant, SettledAlwaysAddsUp, PTL

-----------------------------------------------------------------------------
(* Undisturbed, with one scenario: while there are messages to handle,     *)
(* each lease was granted by the last message of the log that concerned    *)
(* it.  With another scenario it could be a message of that one.           *)

OneScenario == \A s, t \in Scenario : s = t

\* Message i granted or used up the lease of a replica and key.
Uses(s, i, r, k) ==
    /\ Delivered(s, i)
    /\ log[s][i].body.replica = r /\ log[s][i].body.key = k
    /\ log[s][i].body.kind \in {"ack", "lease", "retry"}

\* The last of the first n messages to do so granted it, with version v.
Backed(s, r, k, v, n) ==
    \E j \in 1 .. n :
       /\ Uses(s, j, r, k) /\ Grants(log[s][j]) /\ log[s][j].body.version = v
       /\ \A h \in j + 1 .. n : ~Uses(s, h, r, k)

AllBacked(s) ==
    \A r \in Replica, k \in Key :
       leases[r][k] # NoLease
       => Backed(s, r, k, leases[r][k].version, Len(trace[s]))

\* The message a replay is at has had its effect on the leases.
Done(w) == /\ pc[w] \in {"confirm", "write", "mark", "trace"}
           /\ eff[w].mark = "delivered"

\* In the middle of a message all leases but its own are backed by the ones
\* before; its own is gone, or what it granted.
BackedBut(w) ==
    LET s == view[w].sc  m == log[s][pos[w]].body IN
    \A r \in Replica, k \in Key :
       leases[r][k] # NoLease =>
          IF Done(w) /\ m.replica = r /\ m.key = k
             /\ m.kind \in {"ack", "lease", "retry"}
          THEN m.kind # "ack" /\ leases[r][k].version = m.version
          ELSE Backed(s, r, k, leases[r][k].version, Len(trace[s]))

Holds(w) ==
    LET s == view[w].sc  n == Len(trace[s])  m == log[s][pos[w]].body IN
    /\ pc[w] \in Early \union {"step"} /\ n < Len(log[s]) => AllBacked(s)
    /\ pc[w] \in AtMessage => BackedBut(w)
    /\ pc[w] \in {"release", "confirm"} => eff[w].mark = "delivered"
    /\ pc[w] \in {"release", "confirm", "write", "mark"} /\ eff[w].mark = "delivered"
       /\ m.kind = "ack" => Backed(s, m.replica, m.key, m.version, n)
    /\ pc[w] \in {"violate", "trace"}
       => (Delivered(s, pos[w]) <=> eff[w].mark = "delivered")

LeaseInv ==
    /\ AckUsesLease
    /\ \A w \in Worker : Holds(w)
    /\ \A w \in Worker, s \in Scenario :
          ~Replays(w, s) /\ status[s] = "editing" => AllBacked(s)

\* Messages that stay as they are back what they backed.
LEMMA BackedSame ==
    ASSUME NEW s \in Scenario, NEW n \in Nat, NEW r \in Replica, NEW k \in Key, NEW v,
           \A i \in 1 .. n : log'[s][i] = log[s][i]
    PROVE  Backed(s, r, k, v, n)' <=> Backed(s, r, k, v, n)
<1>1. \A i \in 1 .. n : (Uses(s, i, r, k))' <=> Uses(s, i, r, k)
  BY DEF Uses, Delivered
<1>2. \A j \in 1 .. n : j + 1 .. n \subseteq 1 .. n
  OBVIOUS
<1>3. \A j \in 1 .. n : (\A h \in j + 1 .. n : ~Uses(s, h, r, k)')
                        <=> (\A h \in j + 1 .. n : ~Uses(s, h, r, k))
  BY <1>1, <1>2
<1> QED BY <1>1, <1>3 DEF Backed, Grants

\* One more message, which concerns another lease or granted this one.
LEMMA BackedMore ==
    ASSUME NEW s \in Scenario, NEW n \in Nat, NEW r \in Replica, NEW k \in Key, NEW v,
           Backed(s, r, k, v, n), ~Uses(s, n + 1, r, k)
    PROVE  Backed(s, r, k, v, n + 1)
<1>1. PICK j \in 1 .. n :
         /\ Uses(s, j, r, k) /\ Grants(log[s][j]) /\ log[s][j].body.version = v
         /\ \A h \in j + 1 .. n : ~Uses(s, h, r, k)
  BY DEF Backed
<1>2. ASSUME NEW h \in j + 1 .. n + 1
      PROVE  ~Uses(s, h, r, k)
  <2>1. h = n + 1 \/ h \in j + 1 .. n
    OBVIOUS
  <2> QED BY <1>1, <2>1
<1>3. j \in 1 .. n + 1
  OBVIOUS
<1> QED BY <1>1, <1>2, <1>3 DEF Backed

LEMMA BackedHere ==
    ASSUME NEW s \in Scenario, NEW n \in Nat, NEW r \in Replica, NEW k \in Key,
           Uses(s, n + 1, r, k), Grants(log[s][n + 1])
    PROVE  Backed(s, r, k, log[s][n + 1].body.version, n + 1)
<1>1. n + 1 \in 1 .. n + 1 /\ (n + 1) + 1 .. n + 1 = {}
  OBVIOUS
<1> QED BY <1>1 DEF Backed

\* What AckUsesLease says of one ack is that the messages before it back it.
AckBacked(s, i) ==
    \E j \in 1 .. i - 1 :
       /\ Grants(log[s][j]) /\ Delivered(s, j)
       /\ SameLease(log[s][i], log[s][j])
       /\ log[s][j].body.version = log[s][i].body.version
       /\ \A h \in j + 1 .. i - 1 :
             SameLease(log[s][i], log[s][h]) /\ Delivered(s, h)
             => log[s][h].body.kind \notin {"ack", "lease", "retry"}

LEMMA AcksBacked ==
    ASSUME NEW s \in Scenario, NEW i,
           LET m == log[s][i].body IN Backed(s, m.replica, m.key, m.version, i - 1)
    PROVE  AckBacked(s, i)
<1> DEFINE m == log[s][i].body
<1>1. \A h : Uses(s, h, m.replica, m.key)
             <=> /\ SameLease(log[s][i], log[s][h]) /\ Delivered(s, h)
                 /\ log[s][h].body.kind \in {"ack", "lease", "retry"}
  BY DEF Uses, SameLease
<1> HIDE DEF m
<1> QED BY <1>1 DEF Backed, AckBacked, m

LEMMA AckSame ==
    ASSUME NEW s \in Scenario, NEW i \in Nat, AckBacked(s, i),
           log'[s][i].body = log[s][i].body,
           \A j \in 1 .. i - 1 : log'[s][j] = log[s][j]
    PROVE  AckBacked(s, i)'
<1>1. PICK j \in 1 .. i - 1 :
         /\ Grants(log[s][j]) /\ Delivered(s, j)
         /\ SameLease(log[s][i], log[s][j])
         /\ log[s][j].body.version = log[s][i].body.version
         /\ \A h \in j + 1 .. i - 1 :
               SameLease(log[s][i], log[s][h]) /\ Delivered(s, h)
               => log[s][h].body.kind \notin {"ack", "lease", "retry"}
  BY DEF AckBacked
<1>2. j + 1 .. i - 1 \subseteq 1 .. i - 1
  OBVIOUS
<1> QED BY <1>1, <1>2 DEF AckBacked, Grants, Delivered, SameLease

LEMMA LeaseStep ==
    ASSUME OneWorker, NEW w \in Worker, Holds(w)', AckUsesLease',
           \A s \in Scenario :
              ~Replays(w, s)' /\ status'[s] = "editing" => AllBacked(s)'
    PROVE  LeaseInv'
<1>1. \A u \in Worker : u = w
  BY DEF OneWorker
<1> QED BY <1>1 DEF LeaseInv

\* No lease is granted.
Wanes == \A r \in Replica, k \in Key :
            leases'[r][k] # NoLease
            => /\ leases[r][k] # NoLease
               /\ leases'[r][k].version = leases[r][k].version

LEMMA BackedWanes ==
    ASSUME NEW s \in Scenario, AllBacked(s), Wanes, UNCHANGED <<log, trace>>
    PROVE  AllBacked(s)'
<1> SUFFICES ASSUME NEW r \in Replica, NEW k \in Key, leases'[r][k] # NoLease
             PROVE  Backed(s, r, k, leases[r][k].version, Len(trace[s]))'
  BY DEF AllBacked, Wanes
<1>1. Backed(s, r, k, leases[r][k].version, Len(trace[s]))
  BY DEF AllBacked, Wanes
<1>2. leases'[r][k].version = leases[r][k].version
  BY DEF Wanes
<1> QED BY <1>1, <1>2 DEF Backed, Uses, Delivered, Grants

\* Requests grant nothing, and an append puts its message after the others.
LEMMA LeaseRequest ==
    ASSUME TypeInv, StandsInv, DraftPending, OnceInv, LeaseInv, OneWorker, OneScenario,
           NEW w \in Worker, Request(w)
    PROVE  LeaseInv'
<1> USE DEF TypeInv, TypeOK
<1>1. CASE AppendInsert(w)
  <2> PICK d \in Scenario : d = draft[w].sc
    BY DEF Draft
  <2>1. /\ status[d] = "editing" /\ pc[w] = "insert"
        /\ draft[w].msg \in Message /\ draft[w].msg.status = "pending"
    BY <1>1 DEF AppendInsert, At, StandsInv, Stands, DraftPending, FormOK
  <2>2. /\ UNCHANGED <<status, trace, leases>> /\ pc'[w] = "idle"
        /\ log' = [log EXCEPT ![d] = Append(@, draft[w].msg)]
    BY <1>1 DEF AppendInsert, Return, Goto
  <2>3. ~Replays(w, d)
    BY <2>1 DEF Replays, Replaying, Early, AtMessage, Judges
  <2>4. trace[d] = <<>> /\ Ahead(d) /\ AllBacked(d)
    BY <2>1, <2>3 DEF OnceInv, Rests, LeaseInv
  <2>5. \A r \in Replica, k \in Key : leases[r][k] = NoLease
    BY <2>4 DEF AllBacked, Backed
  <2>6. AllBacked(d)'
    BY <2>2, <2>5 DEF AllBacked
  <2>7. Holds(w)'
    BY <2>2 DEF Holds, Early, AtMessage
  <2>8. \A i \in DOMAIN log'[d] : log'[d][i].status = "pending"
    <3>1. /\ log[d] \in Seq(Message) /\ Len(log[d]) \in Nat
          /\ DOMAIN log'[d] = 1 .. Len(log[d]) + 1
          /\ \A i \in 1 .. Len(log[d]) : log'[d][i] = log[d][i]
          /\ log'[d][Len(log[d]) + 1].status = "pending"
      BY <2>1, <2>2
    <3>2. \A i \in 1 .. Len(log[d]) : log[d][i].status = "pending"
      BY <2>4 DEF Ahead
    <3>3. \A i \in 1 .. Len(log[d]) + 1 : i = Len(log[d]) + 1 \/ i \in 1 .. Len(log[d])
      BY <3>1
    <3> QED BY <3>1, <3>2, <3>3
  <2>9. \A s \in Scenario : s = d
    BY DEF OneScenario
  <2>10. AckUsesLease'
    BY <2>8, <2>9 DEF AckUsesLease, Delivered
  <2> QED BY <2>6, <2>7, <2>9, <2>10, LeaseStep
<1>2. CASE ~AppendInsert(w)
  <2>1. /\ UNCHANGED <<status, log, trace, leases>>
        /\ pc[w] \in {"idle", "insert", "commit"}
        /\ pc'[w] \in {"idle", "insert", "commit", "begin"}
    BY <1>2 DEF Request, AppendCheck, ReplayGet, AppendRefused, SourceRead,
                SourceWrite, RegisterReplica, SetReplicaStatus, At, Goto, Return,
                db, local
  <2>2. \A s \in Scenario : ~Replays(w, s)
    BY <2>1 DEF Replays, Replaying, Early, AtMessage, Judges
  <2>3. Wanes
    BY <2>1 DEF Wanes
  <2>4. \A s \in Scenario : status'[s] = "editing" => AllBacked(s)'
    BY <2>1, <2>2, <2>3, BackedWanes DEF LeaseInv
  <2>5. AckUsesLease'
    BY <2>1 DEF LeaseInv, AckUsesLease, Delivered
  <2>6. Holds(w)'
    <3>1. ASSUME NEW s \in Scenario, ReplayGet(w, s)
          PROVE  Holds(w)'
      <4>1. pc'[w] = "begin" /\ view'[w].sc = s /\ status[s] \notin Final
        BY <3>1 DEF ReplayGet, Goto, Replayable, View
      <4>2. Rests(s)
        BY <2>2 DEF OnceInv
      <4>3. CASE status[s] = "editing"
        BY <2>1, <2>4, <4>1, <4>3 DEF Holds, Early, AtMessage
      <4>4. CASE status[s] # "editing"
        <5>1. Len(trace'[s]) = Len(log'[s]) /\ Len(log'[s]) \in Nat
          BY <2>1, <4>1, <4>2, <4>4 DEF Rests, Status, Settled, Final
        <5> QED BY <4>1, <5>1 DEF Holds, Early, AtMessage
      <4> QED BY <4>3, <4>4
    <3>2. CASE ~\E s \in Scenario : ReplayGet(w, s)
      <4>1. pc'[w] # "begin"
        BY <1>2, <3>2 DEF Request, AppendCheck, AppendRefused, SourceRead,
                    SourceWrite, RegisterReplica, SetReplicaStatus, At, Goto,
                    Return, local
      <4> QED BY <2>1, <4>1 DEF Holds, Early, AtMessage
    <3> QED BY <3>1, <3>2
  <2> QED BY <2>4, <2>5, <2>6, LeaseStep
<1> QED BY <1>1, <1>2

\* With one scenario, a replay leaves nothing to say of scenarios at rest.
LEMMA LeaseReplays ==
    ASSUME OneWorker, OneScenario, NEW w \in Worker, NEW s \in Scenario,
           Replays(w, s)' \/ status'[s] # "editing", Holds(w)', AckUsesLease'
    PROVE  LeaseInv'
<1>1. \A t \in Scenario : t = s
  BY DEF OneScenario
<1>2. \A t \in Scenario : ~Replays(w, t)' /\ status'[t] = "editing" => AllBacked(t)'
  BY <1>1
<1> QED BY <1>2, LeaseStep

LEMMA LeaseReading ==
    ASSUME TypeInv, OnceInv, LeaseInv, OneWorker, OneScenario,
           NEW w \in Worker, Reading(w)
    PROVE  LeaseInv'
<1> PICK s \in Scenario : s = view[w].sc
  BY DEF TypeInv, TypeOK, View
<1>1. /\ pc[w] \in Early /\ pc'[w] \in Early \union {"step"}
      /\ UNCHANGED <<log, trace>> /\ view'[w].sc = s
  BY DEF Reading, ReplayBegin, ReplayList, ReplayTopology, ReplaySources,
         Rebuild, RebuildDone, At, Goto, Early, db, TypeInv, TypeOK, View
<1>2. Follows(w) /\ Holds(w)
  BY DEF OnceInv, LeaseInv
<1>3. /\ Len(trace[s]) \in {0, Len(log[s])} /\ Len(trace[s]) = view[w].start
      /\ Len(log[s]) \in Nat
  BY <1>1, <1>2 DEF Follows, TypeInv, TypeOK
<1>4. Holds(w)'
  <2>1. CASE Len(trace[s]) = Len(log[s])
    BY <1>1, <1>3, <2>1 DEF Holds, Early, AtMessage
  <2>2. CASE Len(trace[s]) = 0 /\ Len(log[s]) # 0
    <3>1. UNCHANGED leases
      <4>1. ~Rebuild(w)
        BY <1>3, <2>2 DEF Rebuild, At, TypeInv, TypeOK, PosOK
      <4> QED BY <4>1 DEF Reading, ReplayBegin, ReplayList, ReplayTopology,
                          ReplaySources, RebuildDone
    <3>2. AllBacked(s)
      BY <1>1, <1>2, <1>3, <2>2 DEF Holds
    <3>3. AllBacked(s)'
      BY <1>1, <3>1, <3>2, BackedWanes DEF Wanes
    <3> QED BY <1>1, <3>3 DEF Holds, Early, AtMessage
  <2> QED BY <1>3, <2>1, <2>2
<1>5. AckUsesLease'
  BY <1>1 DEF LeaseInv, AckUsesLease, Delivered
<1>6. Replays(w, s)'
  BY <1>1 DEF Replays, Replaying
<1> QED BY <1>4, <1>5, <1>6, LeaseReplays

LEMMA LiveIsLease ==
    ASSUME NEW l \in Lease, Live(l)
    PROVE  l # NoLease
BY ProtocolAssumption DEF Lease, Live, NoLease

\* What a handler stands at.
LEMMA AtItsHandler ==
    ASSUME TypeInv, LogInv, StandsInv, OnceInv, NEW w \in Worker, Handle(w),
           NEW s \in Scenario, s = view[w].sc
    PROVE  /\ UNCHANGED <<status, log, trace, view, pos>>
           /\ Len(trace[s]) \in Nat /\ pos[w] = Len(trace[s]) + 1
           /\ pos[w] \in DOMAIN log[s]
           /\ Here(w).body = log[s][pos[w]].body /\ Here(w).body \in Body
           /\ pc[w] \in {"step", "release", "confirm"}
           /\ pc[w] = "step" => InLog(w)
<1>1. /\ UNCHANGED <<status, log, trace, view, pos>>
      /\ pc[w] \in {"step", "release", "confirm"}
      /\ pc[w] = "step" => InLog(w)
  BY DEF Handle, RejectUnknown, HandleLease, HandleInvalidate, HandleUpdate,
         HandleAck, AckRelease, AckConfirm, HandleRetry, Ignore, Refuse, Decide,
         Handling, At, db
<1>2. InRange(w) /\ Follows(w) /\ Within(w) /\ Copied(w)
  <2>1. InRange(w)
    <3>1. pos[w] \in Nat
      BY DEF TypeInv, TypeOK
    <3>2. CASE pc[w] = "step"
      BY <1>1, <3>1, <3>2 DEF TypeInv, PosOK, InRange, InLog
    <3>3. CASE pc[w] # "step"
      BY <1>1, <3>3 DEF TypeInv, PosOK, AtMessage
    <3> QED BY <3>2, <3>3
  <2> QED BY <2>1 DEF OnceInv, LogInv
<1>3. /\ view[w].log \in Seq(Message) /\ view[w].start \in Nat
      /\ log[s] \in Seq(Message) /\ Len(trace[s]) \in Nat /\ pos[w] \in Nat
  BY DEF TypeInv, TypeOK, View
<1>4. pos[w] = Len(trace[s]) + 1
  <2>1. Len(trace[s]) = pos[w] - 1
    BY <1>1, <1>2 DEF Follows, AtMessage
  <2> QED BY <1>3, <2>1
<1>5. /\ pos[w] \in 1 .. Len(view[w].log) /\ pos[w] \in 1 .. Len(log[s])
  <2>1. /\ pos[w] >= view[w].start + 1 /\ pos[w] <= Len(view[w].log)
        /\ Len(view[w].log) <= Len(log[s])
    BY <1>2 DEF InRange, Within
  <2>2. Len(view[w].log) \in Nat /\ Len(log[s]) \in Nat
    BY <1>3
  <2> QED BY <1>3, <2>1, <2>2
<1>6. Here(w).body = log[s][pos[w]].body /\ Here(w) \in Message
  <2>1. Same(view[w].log[pos[w]], log[s][pos[w]])
    BY <1>2, <1>5 DEF Copied
  <2>2. view[w].log[pos[w]] \in Message
    BY <1>3, <1>5
  <2> QED BY <2>1, <2>2 DEF Same, Here
<1>7. Here(w).body \in Body /\ pos[w] \in DOMAIN log[s]
  <2>1. Here(w).body \in Body
    BY <1>6 DEF Message
  <2>2. DOMAIN log[s] = 1 .. Len(log[s])
    BY <1>3
  <2> QED BY <1>5, <2>1, <2>2
<1> QED BY <1>1, <1>3, <1>4, <1>6, <1>7

\* A step at a message that leaves the log alone.
LEMMA LeaseDecides ==
    ASSUME TypeInv, LeaseInv, OneWorker, OneScenario, NEW w \in Worker,
           NEW s \in Scenario, s = view[w].sc, UNCHANGED <<log, view, pos>>,
           pc'[w] \in AtMessage \ {"violate"}, BackedBut(w)',
           pc'[w] \in {"release", "confirm"} => eff'[w].mark = "delivered",
           pc'[w] = "trace" => /\ ~Delivered(s, pos[w])
                               /\ eff'[w].mark # "delivered",
           LET m == log[s][pos[w]].body IN
           pc'[w] # "trace" /\ eff'[w].mark = "delivered" /\ m.kind = "ack"
           => Backed(s, m.replica, m.key, m.version, Len(trace[s]))'
    PROVE  LeaseInv'
<1>1. Holds(w)'
  BY DEF Holds, Early, AtMessage, Delivered
<1>2. AckUsesLease'
  BY DEF LeaseInv, AckUsesLease, Delivered
<1>3. Replays(w, s)'
  BY DEF Replays, Replaying
<1> QED BY <1>1, <1>2, <1>3, LeaseReplays

LEMMA LeaseHandle ==
    ASSUME TypeInv, LogInv, StandsInv, OnceInv, ActsInv, LeaseInv, OneWorker,
           OneScenario, NEW w \in Worker, Handle(w)
    PROVE  LeaseInv'
<1>s. PICK s \in Scenario : s = view[w].sc
  BY DEF TypeInv, TypeOK, View
<1>n. PICK n \in Nat : n = Len(trace[s])
  BY DEF TypeInv, TypeOK
<1>m. PICK m \in Body : m = log[s][n + 1].body
  BY <1>s, <1>n, AtItsHandler
<1>1. /\ UNCHANGED <<status, log, trace, view, pos>> /\ pos[w] = n + 1
      /\ n + 1 \in DOMAIN log[s] /\ Here(w).body = m
      /\ pc[w] \in {"step", "release", "confirm"}
      /\ pc[w] = "step" => InLog(w)
  BY <1>s, <1>n, <1>m, AtItsHandler
<1>2. Holds(w) /\ Follows(w) /\ Acts(w)
  BY DEF LeaseInv, OnceInv, ActsInv
<1>3. pc[w] = "step" =>
         \A r \in Replica, k \in Key : leases[r][k] # NoLease
            => Backed(s, r, k, leases[r][k].version, n)
  <2>1. log[s] \in Seq(Message) /\ Len(log[s]) \in Nat
    BY DEF TypeInv, TypeOK
  <2>2. n < Len(log[s])
    BY <1>1, <2>1
  <2> QED BY <1>s, <1>n, <1>2, <2>2 DEF Holds, AllBacked
<1>4. ASSUME NEW r \in Replica, NEW k \in Key, NEW v
      PROVE  Backed(s, r, k, v, n)' <=> Backed(s, r, k, v, n)
  BY <1>1, BackedSame
<1>5. ~Delivered(s, n + 1)
  <2>1. Ahead(s)
    BY <1>s, <1>1, <1>2 DEF Follows
  <2>2. n + 1 \in Len(trace[s]) + 1 .. Len(log[s])
    BY <1>n, <1>1 DEF TypeInv, TypeOK
  <2> QED BY <2>1, <2>2 DEF Ahead, Delivered
<1>6. leases \in [Replica -> [Key -> Lease]]
      /\ m.replica \in Replica /\ m.key \in Key
  BY DEF TypeInv, TypeOK, Body
<1>7. ASSUME pc'[w] \in AtMessage \ {"violate"},
             \A r \in Replica, k \in Key : leases'[r][k] # NoLease =>
                IF Done(w)' /\ m.replica = r /\ m.key = k
                   /\ m.kind \in {"ack", "lease", "retry"}
                THEN m.kind # "ack" /\ leases'[r][k].version = m.version
                ELSE Backed(s, r, k, leases'[r][k].version, n),
             pc'[w] \in {"release", "confirm"} => eff'[w].mark = "delivered",
             pc'[w] = "trace" => eff'[w].mark # "delivered",
             pc'[w] # "trace" /\ eff'[w].mark = "delivered" /\ m.kind = "ack"
             => Backed(s, m.replica, m.key, m.version, n)
      PROVE  LeaseInv'
  <2>1. BackedBut(w)'
    <3> SUFFICES ASSUME NEW r \in Replica, NEW k \in Key, leases'[r][k] # NoLease
                 PROVE  IF Done(w)' /\ m.replica = r /\ m.key = k
                           /\ m.kind \in {"ack", "lease", "retry"}
                        THEN m.kind # "ack" /\ leases'[r][k].version = m.version
                        ELSE Backed(s, r, k, leases[r][k].version, n)'
      BY <1>s, <1>n, <1>m, <1>1 DEF BackedBut
    <3> PICK v : v = leases'[r][k].version
      OBVIOUS
    <3>1. Backed(s, r, k, v, n)' <=> Backed(s, r, k, v, n)
      BY <1>4
    <3>2. Backed(s, r, k, leases[r][k].version, n)' <=> Backed(s, r, k, v, n)'
      OBVIOUS
    <3> QED BY <1>7, <3>1, <3>2
  <2>2. m.kind = "ack" /\ pc'[w] # "trace" /\ eff'[w].mark = "delivered"
        => Backed(s, m.replica, m.key, m.version, Len(trace[s]))'
    BY <1>n, <1>1, <1>4, <1>6, <1>7
  <2>3. pc'[w] = "trace" => ~Delivered(s, pos[w]) /\ eff'[w].mark # "delivered"
    BY <1>1, <1>5, <1>7
  <2> QED BY <1>s, <1>m, <1>1, <1>7, <2>1, <2>2, <2>3, LeaseDecides
<1>8. CASE /\ pc[w] = "step" /\ UNCHANGED leases
           /\ pc'[w] \in {"write", "mark", "trace"}
           /\ eff'[w].mark = "delivered" =>
                 pc'[w] # "trace" /\ m.kind \notin {"ack", "lease", "retry"}
  <2>1. \A r \in Replica, k \in Key : leases'[r][k] # NoLease
           => Backed(s, r, k, leases'[r][k].version, n)
    BY <1>3, <1>8
  <2>2. Done(w)' => m.kind \notin {"ack", "lease", "retry"}
    BY <1>8 DEF Done
  <2> QED BY <1>7, <1>8, <2>1, <2>2 DEF AtMessage
<1>9. CASE /\ pc[w] = "step" /\ pc'[w] = "mark" /\ eff'[w].mark = "delivered"
           /\ m.kind \in {"lease", "retry"}
           /\ leases' = GrantLease(leases, m.replica, m.key, m.version)
  <2>1. \A r \in Replica, k \in Key :
           leases'[r][k] = IF r = m.replica /\ k = m.key
                           THEN [version |-> m.version, left |-> TTL]
                           ELSE leases[r][k]
    BY <1>6, <1>9 DEF GrantLease
  <2>2. Done(w)'
    BY <1>9 DEF Done
  <2>3. \A r \in Replica, k \in Key : leases[r][k] # NoLease
           => Backed(s, r, k, leases[r][k].version, n)
    BY <1>3, <1>9
  <2>4. \A r \in Replica, k \in Key : leases'[r][k] # NoLease =>
           IF m.replica = r /\ m.key = k
           THEN leases'[r][k].version = m.version
           ELSE Backed(s, r, k, leases'[r][k].version, n)
    BY <2>1, <2>3
  <2> QED BY <1>7, <1>9, <2>2, <2>4 DEF AtMessage
<1>10. CASE HandleAck(w)
  <2>1. pc[w] = "step" /\ UNCHANGED leases /\ m.kind = "ack"
    BY <1>1, <1>10 DEF HandleAck, Handling, At
  <2>2. IF ValidateAck(leases[m.replica][m.key], m.version) = "ok"
        THEN Decide(w, NoRow, "delivered", "release") ELSE Refuse(w)
    BY <1>1, <1>10 DEF HandleAck
  <2>3. CASE ValidateAck(leases[m.replica][m.key], m.version) = "ok"
    <3>1. pc'[w] = "release" /\ eff'[w].mark = "delivered"
      <4>1. Decide(w, NoRow, "delivered", "release")
        BY <2>2, <2>3
      <4> QED BY <4>1 DEF Decide, Goto, TypeInv, TypeOK
    <3>2. /\ leases[m.replica][m.key] # NoLease
          /\ leases[m.replica][m.key].version = m.version
      <4>l. PICK l \in Lease : l = leases[m.replica][m.key]
        BY <1>6
      <4>1. l.left > 0 /\ l.version = m.version
        BY <4>l, <2>3 DEF ValidateAck, Live
      <4>2. l # NoLease
        BY <4>1, LiveIsLease DEF Live
      <4> QED BY <4>l, <4>1, <4>2
    <3>3. \A r \in Replica, k \in Key : leases[r][k] # NoLease
             => Backed(s, r, k, leases[r][k].version, n)
      BY <1>3, <2>1
    <3>4. Backed(s, m.replica, m.key, m.version, n)
      BY <1>6, <3>2, <3>3
    <3>5. ~Done(w)'
      BY <3>1 DEF Done
    <3> QED BY <1>7, <2>1, <3>1, <3>3, <3>4, <3>5 DEF AtMessage
  <2>4. CASE ValidateAck(leases[m.replica][m.key], m.version) # "ok"
    <3>1. pc'[w] = "mark" /\ eff'[w].mark = "rejected"
      <4>1. Refuse(w)
        BY <2>2, <2>4
      <4> QED BY <4>1 DEF Refuse, Decide, Goto, TypeInv, TypeOK
    <3> QED BY <1>8, <2>1, <3>1
  <2> QED BY <2>3, <2>4
<1>11. CASE AckRelease(w)
  <2>1. /\ pc[w] = "release" /\ pc'[w] = "confirm" /\ UNCHANGED eff
        /\ leases' = ReleaseLease(leases, m.replica, m.key)
        /\ m.kind = "ack"
    BY <1>1, <1>2, <1>11 DEF AckRelease, At, Goto, Acts, TypeInv, TypeOK
  <2>2. \A r \in Replica, k \in Key :
           leases'[r][k] = IF r = m.replica /\ k = m.key THEN NoLease ELSE leases[r][k]
    BY <1>6, <2>1 DEF ReleaseLease
  <2>3. \A r \in Replica, k \in Key : leases[r][k] # NoLease
           => Backed(s, r, k, leases[r][k].version, n)
    BY <1>s, <1>n, <1>m, <1>1, <1>2, <2>1 DEF Holds, BackedBut, Done, AtMessage
  <2>4. eff[w].mark = "delivered" /\ Backed(s, m.replica, m.key, m.version, n)
    BY <1>s, <1>n, <1>m, <1>1, <1>2, <2>1 DEF Holds
  <2>5. Done(w)' /\ eff'[w].mark = "delivered"
    BY <2>1, <2>4 DEF Done
  <2>6. \A r \in Replica, k \in Key : leases'[r][k] # NoLease =>
           /\ ~(m.replica = r /\ m.key = k)
           /\ Backed(s, r, k, leases'[r][k].version, n)
    BY <2>2, <2>3
  <2> QED BY <1>7, <2>1, <2>4, <2>5, <2>6 DEF AtMessage
<1>12. CASE AckConfirm(w)
  <2>1. /\ pc[w] = "confirm" /\ pc'[w] \in {"mark", "write"} /\ UNCHANGED leases
        /\ eff'[w].mark = "delivered" /\ m.kind = "ack"
    <3>1. /\ pc[w] = "confirm" /\ UNCHANGED leases
          /\ \/ Decide(w, NoRow, "delivered", "mark")
             \/ \E row : Decide(w, row, "delivered", "write")
      BY <1>12 DEF AckConfirm, At
    <3>2. pc'[w] \in {"mark", "write"} /\ eff'[w].mark = "delivered"
      BY <3>1 DEF Decide, Goto, TypeInv, TypeOK
    <3> QED BY <1>1, <1>2, <3>1, <3>2 DEF Acts
  <2>2. eff[w].mark = "delivered" /\ Backed(s, m.replica, m.key, m.version, n)
    BY <1>s, <1>n, <1>m, <1>1, <1>2, <2>1 DEF Holds
  <2>3. Done(w) /\ Done(w)'
    BY <2>1, <2>2 DEF Done
  <2>4. \A r \in Replica, k \in Key : leases[r][k] # NoLease =>
           /\ ~(m.replica = r /\ m.key = k)
           /\ Backed(s, r, k, leases[r][k].version, n)
    BY <1>s, <1>n, <1>m, <1>1, <1>2, <2>1, <2>3 DEF Holds, BackedBut, AtMessage
  <2> QED BY <1>7, <2>1, <2>2, <2>3, <2>4 DEF AtMessage
<1>13. CASE RejectUnknown(w) \/ HandleInvalidate(w) \/ HandleUpdate(w) \/ Ignore(w)
  <2>1. /\ pc[w] = "step" /\ UNCHANGED leases
        /\ pc'[w] \in {"write", "mark", "trace"}
    BY <1>13 DEF RejectUnknown, HandleInvalidate, HandleUpdate, Ignore, Handling,
                 Refuse, Decide, At, Goto, TypeInv, TypeOK
  <2>2. eff'[w].mark = "delivered" =>
           pc'[w] # "trace" /\ m.kind \in {"invalidate", "update"}
    <3>1. CASE RejectUnknown(w)
      BY <3>1 DEF RejectUnknown, Refuse, Decide, TypeInv, TypeOK
    <3>2. CASE Ignore(w)
      BY <3>2 DEF Ignore, Decide, TypeInv, TypeOK
    <3>3. CASE HandleInvalidate(w)
      <4>1. m.kind = "invalidate"
        BY <1>1, <3>3 DEF HandleInvalidate, Handling
      <4>2. pc'[w] # "trace"
        BY <3>3 DEF HandleInvalidate, Refuse, Decide, Goto, TypeInv, TypeOK
      <4> QED BY <4>1, <4>2
    <3>4. CASE HandleUpdate(w)
      <4>1. m.kind = "update"
        BY <1>1, <3>4 DEF HandleUpdate, Handling
      <4>2. pc'[w] # "trace"
        BY <3>4 DEF HandleUpdate, Refuse, Decide, Goto, TypeInv, TypeOK
      <4> QED BY <4>1, <4>2
    <3> QED BY <1>13, <3>1, <3>2, <3>3, <3>4
  <2> QED BY <1>8, <2>1, <2>2
<1>14. CASE HandleLease(w) \/ HandleRetry(w)
  <2>1. pc[w] = "step" /\ pc'[w] = "mark" /\ m.kind \in {"lease", "retry"}
    BY <1>1, <1>14 DEF HandleLease, HandleRetry, Handling, Decide, At, Goto,
                       TypeInv, TypeOK
  <2>2. \/ /\ eff'[w].mark = "delivered"
           /\ leases' = GrantLease(leases, m.replica, m.key, m.version)
        \/ eff'[w].mark = "expired" /\ UNCHANGED leases
    BY <1>1, <1>14 DEF HandleLease, HandleRetry, Decide, TypeInv, TypeOK
  <2> QED BY <1>8, <1>9, <2>1, <2>2
<1> QED BY <1>10, <1>11, <1>12, <1>13, <1>14 DEF Handle

\* Leases that wane in the middle of a message stay backed.
LEMMA BackedButWanes ==
    ASSUME NEW w \in Worker, BackedBut(w), Wanes, Done(w)' <=> Done(w),
           UNCHANGED <<log, trace, view, pos>>
    PROVE  BackedBut(w)'
<1> PICK s, n : s = view[w].sc /\ n = Len(trace[s])
  OBVIOUS
<1> PICK m : m = log[s][pos[w]].body
  OBVIOUS
<1> SUFFICES ASSUME NEW r \in Replica, NEW k \in Key, leases'[r][k] # NoLease
             PROVE  IF Done(w)' /\ m.replica = r /\ m.key = k
                       /\ m.kind \in {"ack", "lease", "retry"}
                    THEN m.kind # "ack" /\ leases'[r][k].version = m.version
                    ELSE Backed(s, r, k, leases[r][k].version, n)'
  BY DEF BackedBut
<1> PICK v : v = leases[r][k].version
  OBVIOUS
<1>1. leases[r][k] # NoLease /\ leases'[r][k].version = v
  BY DEF Wanes
<1>2. IF Done(w) /\ m.replica = r /\ m.key = k
         /\ m.kind \in {"ack", "lease", "retry"}
      THEN m.kind # "ack" /\ v = m.version
      ELSE Backed(s, r, k, v, n)
  BY <1>1 DEF BackedBut
<1>3. Backed(s, r, k, v, n)' <=> Backed(s, r, k, v, n)
  BY DEF Backed, Uses, Delivered, Grants
<1>4. Backed(s, r, k, leases[r][k].version, n)' <=> Backed(s, r, k, v, n)'
  BY <1>1
<1> QED BY <1>1, <1>2, <1>3, <1>4

LEMMA AgedWanes ==
    ASSUME NEW l \in Lease, Aged(l) # NoLease
    PROVE  l # NoLease /\ Aged(l).version = l.version
<1>1. l.left > 1 /\ Aged(l) = [l EXCEPT !.left = @ - 1]
  BY ProtocolAssumption DEF Aged, Lease
<1>2. l # NoLease
  BY <1>1, ProtocolAssumption DEF NoLease, Lease
<1> QED BY <1>1, <1>2 DEF Lease

\* At the end of a message its own lease is backed too.
LEMMA LeaseTurn ==
    ASSUME NEW w \in Worker, Holds(w), pc[w] = "trace",
           NEW s \in Scenario, s = view[w].sc,
           NEW n \in Nat, n = Len(trace[s]), pos[w] = n + 1,
           NEW r \in Replica, NEW k \in Key, leases[r][k] # NoLease
    PROVE  Backed(s, r, k, leases[r][k].version, n + 1)
<1>v. PICK v : v = leases[r][k].version
  OBVIOUS
<1>m. PICK m : m = log[s][n + 1].body
  OBVIOUS
<1>1. /\ BackedBut(w)
      /\ Delivered(s, n + 1) <=> eff[w].mark = "delivered"
  BY DEF Holds, AtMessage
<1>2. Done(w) <=> Delivered(s, n + 1)
  BY <1>1 DEF Done
<1>3. Uses(s, n + 1, r, k) <=> /\ Done(w) /\ m.replica = r /\ m.key = k
                              /\ m.kind \in {"ack", "lease", "retry"}
  BY <1>m, <1>2 DEF Uses
<1>4. IF Uses(s, n + 1, r, k) THEN m.kind # "ack" /\ v = m.version
      ELSE Backed(s, r, k, v, n)
  BY <1>v, <1>m, <1>1, <1>3 DEF BackedBut
<1>5. CASE Uses(s, n + 1, r, k)
  <2>1. Grants(log[s][n + 1]) /\ v = m.version
    BY <1>m, <1>4, <1>5 DEF Uses, Grants
  <2>2. Backed(s, r, k, m.version, n + 1)
    BY <1>m, <1>5, <2>1, BackedHere
  <2> QED BY <1>v, <2>1, <2>2
<1>6. CASE ~Uses(s, n + 1, r, k)
  BY <1>v, <1>4, <1>6, BackedMore
<1> QED BY <1>5, <1>6

\* The mark is what makes a message count: an ack that is marked delivered was
\* backed when the handler took it.
LEMMA LeaseMark ==
    ASSUME TypeInv, LogInv, StandsInv, OnceInv, LeaseInv, OneWorker, OneScenario,
           NEW w \in Worker, Mark(w)
    PROVE  LeaseInv'
<1>s. PICK s \in Scenario : s = view[w].sc
  BY DEF TypeInv, TypeOK, View
<1>n. PICK n \in Nat : n = Len(trace[s])
  BY DEF TypeInv, TypeOK
<1>m. PICK m : m = log[s][n + 1].body
  OBVIOUS
<1>1. /\ UNCHANGED <<status, trace, leases, view, pos, eff>>
      /\ pc[w] = "mark" /\ pc'[w] = AfterMark(w)
  BY DEF Mark, At, Goto, TypeInv, TypeOK
<1>2. /\ log[s] \in Seq(Message) /\ n + 1 \in DOMAIN log[s] /\ pos[w] = n + 1
  BY <1>s, <1>n, <1>1, AtItsMessage DEF AtMessage
<1>3. Holds(w) /\ Follows(w)
  BY DEF LeaseInv, OnceInv
<1>4. /\ DOMAIN log'[s] = DOMAIN log[s]
      /\ \A i \in DOMAIN log[s] : i # n + 1 => log'[s][i] = log[s][i]
      /\ log'[s][n + 1].body = m /\ log'[s][n + 1].status = eff[w].mark
  <2>1. \A q \in Message : /\ Marked(q, Here(w), eff[w].mark).status = eff[w].mark
                           /\ Marked(q, Here(w), eff[w].mark).body = q.body
    BY DEF Marked, Message
  <2>2. log' = [log EXCEPT ![s][pos[w]] = Marked(@, Here(w), eff[w].mark)]
    BY <1>s DEF Mark
  <2>3. log'[s] = [log[s] EXCEPT ![n + 1] = Marked(@, Here(w), eff[w].mark)]
    BY <1>s, <1>2, <2>2 DEF TypeInv, TypeOK
  <2>4. log[s][n + 1] \in Message
    BY <1>2
  <2> QED BY <1>m, <1>2, <2>1, <2>3, <2>4
<1>5. \A i \in 1 .. n : log'[s][i] = log[s][i]
  <2>1. Len(log[s]) \in Nat /\ DOMAIN log[s] = 1 .. Len(log[s])
    BY <1>2
  <2>2. \A i \in 1 .. n : i \in DOMAIN log[s] /\ i # n + 1
    BY <1>2, <2>1
  <2> QED BY <1>4, <2>2
<1>6. ASSUME NEW r \in Replica, NEW k \in Key, NEW v
      PROVE  Backed(s, r, k, v, n)' <=> Backed(s, r, k, v, n)
  BY <1>5, BackedSame
<1>7. /\ pc'[w] \in {"violate", "trace"}
      /\ eff[w].mark = "delivered" => pc'[w] = "trace"
  BY <1>1 DEF AfterMark, Refused
<1>8. Done(w)' <=> Done(w)
  BY <1>1, <1>7 DEF Done
<1>9. BackedBut(w)'
  <2> SUFFICES ASSUME NEW r \in Replica, NEW k \in Key, leases'[r][k] # NoLease
               PROVE  IF Done(w)' /\ m.replica = r /\ m.key = k
                         /\ m.kind \in {"ack", "lease", "retry"}
                      THEN m.kind # "ack" /\ leases'[r][k].version = m.version
                      ELSE Backed(s, r, k, leases[r][k].version, n)'
    <3>1. /\ view'[w].sc = s /\ Len(trace'[s]) = n
          /\ log'[s][pos'[w]].body = m
      BY <1>s, <1>n, <1>1, <1>2, <1>4
    <3> QED BY <3>1 DEF BackedBut
  <2>v. PICK v : v = leases[r][k].version
    OBVIOUS
  <2>1. IF Done(w) /\ m.replica = r /\ m.key = k
           /\ m.kind \in {"ack", "lease", "retry"}
        THEN m.kind # "ack" /\ v = m.version
        ELSE Backed(s, r, k, v, n)
    BY <1>s, <1>n, <1>m, <1>1, <1>2, <1>3, <2>v DEF Holds, BackedBut, AtMessage
  <2>2. Backed(s, r, k, leases[r][k].version, n)' <=> Backed(s, r, k, v, n)'
    BY <1>1, <2>v
  <2> QED BY <1>1, <1>6, <1>8, <2>v, <2>1, <2>2
<1>10. Delivered(s, n + 1)' <=> eff'[w].mark = "delivered"
  BY <1>1, <1>4 DEF Delivered
<1>11. Holds(w)'
  BY <1>s, <1>1, <1>2, <1>7, <1>9, <1>10 DEF Holds, Early
<1>12. ASSUME NEW i \in DOMAIN log'[s], log'[s][i].body.kind = "ack", Delivered(s, i)'
       PROVE  AckBacked(s, i)'
  <2>1. i \in Nat /\ \A j \in 1 .. i - 1 : i <= n + 1 => log'[s][j] = log[s][j]
    BY <1>2, <1>4, <1>5
  <2>2. CASE i = n + 1
    <3>1. m.kind = "ack" /\ eff[w].mark = "delivered"
      BY <1>1, <1>4, <1>10, <1>12, <2>2
    <3>2. Backed(s, m.replica, m.key, m.version, n)
      BY <1>s, <1>n, <1>m, <1>1, <1>2, <1>3, <3>1 DEF Holds
    <3>3. i - 1 = n /\ m = log[s][i].body
      BY <1>m, <2>2
    <3>4. AckBacked(s, i)
      BY <3>2, <3>3, AcksBacked
    <3> QED BY <1>4, <2>1, <2>2, <3>3, <3>4, AckSame
  <2>3. CASE i < n + 1
    <3>1. log'[s][i] = log[s][i]
      BY <1>4, <2>1, <2>3
    <3>2. i \in DOMAIN log[s] /\ log[s][i].body.kind = "ack" /\ Delivered(s, i)
      BY <1>4, <1>12, <3>1 DEF Delivered
    <3>3. AckUsesLease
      BY DEF LeaseInv
    <3>4. AckBacked(s, i)
      BY <3>2, <3>3 DEF AckUsesLease, AckBacked
    <3> QED BY <2>1, <2>3, <3>1, <3>4, AckSame
  <2>4. CASE i > n + 1
    <3>1. i \in n + 1 .. Len(log[s]) /\ log'[s][i] = log[s][i]
      BY <1>2, <1>4, <2>1, <2>4
    <3>2. log[s][i].status = "pending"
      BY <1>s, <1>n, <1>1, <1>3, <3>1 DEF Follows, Ahead
    <3> QED BY <1>12, <3>1, <3>2 DEF Delivered
  <2> QED BY <2>1, <2>2, <2>3, <2>4
<1>13. AckUsesLease'
  <2>1. \A t \in Scenario : t = s
    BY DEF OneScenario
  <2> QED BY <1>12, <2>1 DEF AckUsesLease, AckBacked
<1>14. Replays(w, s)'
  BY <1>s, <1>1, <1>7 DEF Replays, Replaying, AtMessage
<1> QED BY <1>11, <1>13, <1>14, LeaseReplays

LEMMA LeaseRecord ==
    ASSUME TypeInv, LogInv, StandsInv, OnceInv, LeaseInv, OneWorker, OneScenario,
           NEW w \in Worker, Record(w)
    PROVE  LeaseInv'
<1> PICK s \in Scenario : s = view[w].sc
  BY DEF TypeInv, TypeOK, View
<1>1. Holds(w) /\ Follows(w)
  BY DEF LeaseInv, OnceInv
<1>2. CASE WriteRow(w)
  <2>1. /\ UNCHANGED <<log, trace, leases, view, pos, eff>>
        /\ pc[w] = "write" /\ pc'[w] = "mark"
    BY <1>2 DEF WriteRow, At, Goto, TypeInv, TypeOK
  <2>2. BackedBut(w)'
    BY <1>1, <2>1, BackedButWanes DEF Holds, AtMessage, Done, Wanes
  <2>3. LET m == log[s][pos[w]].body IN
        eff'[w].mark = "delivered" /\ m.kind = "ack"
        => Backed(s, m.replica, m.key, m.version, Len(trace[s]))'
    <3>m. PICK m, n : m = log[s][pos[w]].body /\ n = Len(trace[s])
      OBVIOUS
    <3>1. eff'[w].mark = "delivered" /\ m.kind = "ack"
          => Backed(s, m.replica, m.key, m.version, n)
      BY <1>1, <2>1, <3>m DEF Holds
    <3>2. Backed(s, m.replica, m.key, m.version, n)'
          <=> Backed(s, m.replica, m.key, m.version, n)
      BY <2>1 DEF Backed, Uses, Delivered, Grants
    <3>3. log'[s][pos'[w]].body = m /\ Len(trace'[s]) = n
      BY <2>1, <3>m
    <3> QED BY <3>m, <3>1, <3>2, <3>3
  <2> QED BY <2>1, <2>2, <2>3, LeaseDecides DEF AtMessage
<1>3. CASE Violate(w)
  <2>1. /\ UNCHANGED <<log, trace, leases, view, pos, eff>>
        /\ pc[w] = "violate" /\ pc'[w] = "trace"
    BY <1>3 DEF Violate, At, Goto, TypeInv, TypeOK
  <2>2. ~Delivered(s, pos[w]) /\ eff[w].mark # "delivered"
    BY <1>1, <2>1 DEF Follows, Refused, Delivered, Holds
  <2>3. BackedBut(w)'
    BY <1>1, <2>1, <2>2, BackedButWanes DEF Holds, AtMessage, Done, Wanes
  <2> QED BY <2>1, <2>2, <2>3, LeaseDecides DEF AtMessage
<1>4. CASE LogEvent(w)
  <2> PICK n \in Nat : n = Len(trace[s])
    BY DEF TypeInv, TypeOK
  <2>1. /\ UNCHANGED <<log, leases, view>> /\ pc[w] = "trace" /\ pc'[w] = "step"
        /\ trace' = [trace EXCEPT ![s] = Append(@, StepSeq(w))]
    BY <1>4 DEF LogEvent, At, Goto, TypeInv, TypeOK
  <2>2. pos[w] = n + 1 /\ Len(trace'[s]) = n + 1
    <3>1. pos[w] = n + 1
      BY <2>1, AtItsMessage DEF AtMessage
    <3>2. trace[s] \in Seq(Nat) /\ trace'[s] = Append(trace[s], StepSeq(w))
      BY <2>1 DEF TypeInv, TypeOK
    <3> QED BY <3>1, <3>2
  <2>3. AllBacked(s)'
    <3> SUFFICES ASSUME NEW r \in Replica, NEW k \in Key, leases'[r][k] # NoLease
                 PROVE  Backed(s, r, k, leases[r][k].version, n + 1)'
      BY <2>2 DEF AllBacked
    <3> PICK v : v = leases[r][k].version
      OBVIOUS
    <3> PICK q \in Nat : q = n + 1
      OBVIOUS
    <3>1. Backed(s, r, k, v, q)
      BY <1>1, <2>1, <2>2, LeaseTurn
    <3>2. \A i \in 1 .. q : log'[s][i] = log[s][i]
      BY <2>1
    <3>3. Backed(s, r, k, v, q)'
      BY <3>1, <3>2, BackedSame
    <3> QED BY <2>1, <3>3
  <2>4. Holds(w)' /\ Replays(w, s)'
    BY <2>1, <2>3 DEF Holds, Early, AtMessage, Replays, Replaying
  <2>5. AckUsesLease'
    BY <2>1 DEF LeaseInv, AckUsesLease, Delivered
  <2> QED BY <2>4, <2>5, LeaseReplays
<1> QED BY <1>2, <1>3, <1>4, LeaseMark DEF Record

LEMMA LeaseJudge ==
    ASSUME TypeInv, LeaseInv, OneWorker, OneScenario, NEW w \in Worker, Judge(w)
    PROVE  LeaseInv'
<1> PICK s \in Scenario : s = view[w].sc
  BY DEF TypeInv, TypeOK, View
<1>1. /\ UNCHANGED log /\ pc'[w] \in Judges \union {"idle"}
      /\ Replays(w, s)' \/ status'[s] # "editing"
  <2>1. CASE AdvanceCursor(w)
    BY <2>1 DEF AdvanceCursor, Goto, Judges, TypeInv, TypeOK
  <2>2. CASE \E r \in Replica, k \in Key : ScanPair(w, r, k)
    BY <2>2 DEF ScanPair, At, Judges, db, Replays, Replaying
  <2>3. CASE SettleViolated(w) \/ SettleScanned(w)
    BY <2>3 DEF SettleViolated, SettleScanned, Settle, Return, Goto, Judges,
                TypeInv, TypeOK
  <2> QED BY <2>1, <2>2, <2>3 DEF Judge
<1>2. Holds(w)'
  BY <1>1 DEF Holds, Early, AtMessage, Judges
<1>3. AckUsesLease'
  BY <1>1 DEF LeaseInv, AckUsesLease, Delivered
<1> QED BY <1>1, <1>2, <1>3, LeaseReplays

\* Time passes, or nothing does.
LEMMA LeaseIdle ==
    ASSUME TypeInv, LeaseInv, UNCHANGED vars \/ Tick
    PROVE  LeaseInv'
<1>1. UNCHANGED <<status, log, trace, pc, view, pos, eff>>
  BY DEF vars, Tick, db, local
<1>2. Wanes
  <2>1. CASE UNCHANGED vars
    BY <2>1 DEF vars, Wanes
  <2>2. CASE Tick
    <3> SUFFICES ASSUME NEW r \in Replica, NEW k \in Key, leases'[r][k] # NoLease
                 PROVE  /\ leases[r][k] # NoLease
                        /\ leases'[r][k].version = leases[r][k].version
      BY DEF Wanes
    <3>1. leases[r][k] \in Lease /\ leases'[r][k] = Aged(leases[r][k])
      BY <2>2 DEF Tick, TypeInv, TypeOK
    <3> QED BY <3>1, AgedWanes
  <2> QED BY <2>1, <2>2
<1>3. \A s \in Scenario : AllBacked(s) => AllBacked(s)'
  BY <1>1, <1>2, BackedWanes
<1>4. ASSUME NEW w \in Worker
      PROVE  Holds(w)'
  <2>1. Holds(w) /\ view[w].sc \in Scenario
    BY DEF LeaseInv, TypeInv, TypeOK, View
  <2>2. Done(w)' <=> Done(w)
    BY <1>1 DEF Done
  <2>3. BackedBut(w) => BackedBut(w)'
    BY <1>1, <1>2, <2>2, BackedButWanes
  <2>4. \A s, r, k, v, n : Backed(s, r, k, v, n)' <=> Backed(s, r, k, v, n)
    BY <1>1 DEF Backed, Uses, Delivered, Grants
  <2> QED BY <1>1, <1>3, <2>1, <2>3, <2>4 DEF Holds, Delivered
<1>5. AckUsesLease'
  BY <1>1 DEF LeaseInv, AckUsesLease, Delivered
<1> QED BY <1>1, <1>3, <1>4, <1>5 DEF LeaseInv, Replays

LEMMA LeaseNext ==
    ASSUME OneWorker, OneScenario, NoCrash, NoFault
    PROVE  TypeInv /\ LogInv /\ StandsInv /\ DraftPending /\ OnceInv /\ ActsInv
           /\ LeaseInv /\ [Next]_vars => LeaseInv'
<1> SUFFICES ASSUME TypeInv, LogInv, StandsInv, DraftPending, OnceInv, ActsInv,
                    LeaseInv, [Next]_vars
             PROVE  LeaseInv'
  OBVIOUS
<1>1. CASE UNCHANGED vars \/ Tick
  BY <1>1, LeaseIdle
<1>2. ~Crash /\ \A w \in Worker : ~Failure(w)
  BY DEF Crash, Failure, Abort, RowFault, MarkLost, ScanFault, Fault, NoCrash,
         NoFault, TypeInv, TypeOK
<1>3. ASSUME NEW w \in Worker, Request(w) \/ ReplayStep(w)
      PROVE  LeaseInv'
  BY <1>3, LeaseRequest, LeaseReading, LeaseHandle, LeaseRecord, LeaseJudge
     DEF ReplayStep
<1> QED BY <1>1, <1>2, <1>3 DEF Next

\* Requests one after the other and nothing failing, on one scenario, each
\* delivered ack uses up a lease granted for its version, and none twice.
THEOREM AckAlwaysUsesLease ==
    ASSUME OneWorker, OneScenario, NoCrash, NoFault
    PROVE  Spec => []AckUsesLease
<1>1. Init => LeaseInv
  BY DEF Init, LeaseInv, AckUsesLease, Holds, Early, AtMessage, AllBacked
<1>2. LeaseInv => AckUsesLease
  BY DEF LeaseInv
<1> QED BY <1>1, <1>2, OnceInvariant, ActsInvariant, LeaseNext, PTL DEF Spec

\* An ack, its grant, and no ack of the same lease in between.
Answers(acks, p, q) ==
    /\ q[1] = p[1] /\ q[2] \in Nat /\ p[2] \in Nat /\ q[2] < p[2]
    /\ \A h \in q[2] + 1 .. p[2] - 1 : <<p[1], h>> \notin acks

LEMMA EachAckAnswers ==
    ASSUME TypeInv, AckUsesLease, NEW r \in Replica, NEW k \in Key,
           NEW p \in Log({"ack"}, r, k)
    PROVE  \E q \in Log({"lease", "retry"}, r, k) : Answers(Log({"ack"}, r, k), p, q)
<1>1. /\ p \in Scenario \X (1 .. MaxLog) /\ p[2] \in DOMAIN log[p[1]]
      /\ Delivered(p[1], p[2]) /\ log[p[1]][p[2]].body.kind = "ack"
      /\ log[p[1]][p[2]].body.replica = r /\ log[p[1]][p[2]].body.key = k
  BY DEF Log
<1>s. PICK s \in Scenario, i \in 1 .. MaxLog : p = <<s, i>>
  BY <1>1
<1>2. /\ i \in DOMAIN log[s] /\ Delivered(s, i) /\ log[s][i].body.kind = "ack"
      /\ log[s][i].body.replica = r /\ log[s][i].body.key = k
      /\ DOMAIN log[s] = 1 .. Len(log[s]) /\ Len(log[s]) \in Nat
  BY <1>1, <1>s DEF TypeInv, TypeOK
<1>3. PICK j \in 1 .. i - 1 :
         /\ Grants(log[s][j]) /\ Delivered(s, j) /\ SameLease(log[s][i], log[s][j])
         /\ \A h \in j + 1 .. i - 1 :
               SameLease(log[s][i], log[s][h]) /\ Delivered(s, h)
               => log[s][h].body.kind \notin {"ack", "lease", "retry"}
  BY <1>2 DEF AckUsesLease
<1>4. j \in 1 .. MaxLog /\ j \in DOMAIN log[s]
  BY <1>2, <1>3, ServiceAssumption
<1>5. <<s, j>> \in Log({"lease", "retry"}, r, k)
  BY <1>2, <1>3, <1>4 DEF Log, Grants, SameLease
<1>6. \A h \in j + 1 .. i - 1 : <<s, h>> \notin Log({"ack"}, r, k)
  BY <1>2, <1>3 DEF Log, SameLease
<1>7. Answers(Log({"ack"}, r, k), p, <<s, j>>)
  BY <1>s, <1>3, <1>6 DEF Answers
<1> QED BY <1>5, <1>7

\* Requests one after the other and nothing failing, on one scenario, a replica
\* has no more acks of a key delivered than it was granted leases.
THEOREM AcksAlwaysWithinGrants ==
    ASSUME OneWorker, OneScenario, NoCrash, NoFault
    PROVE  Spec => []AcksWithinGrants
<1>1. TypeInv /\ AckUsesLease => AcksWithinGrants
  <2> SUFFICES ASSUME TypeInv, AckUsesLease, NEW r \in Replica, NEW k \in Key
               PROVE  Cardinality(Log({"ack"}, r, k))
                         <= Cardinality(Log({"lease", "retry"}, r, k))
    BY DEF AcksWithinGrants
  <2> DEFINE acks   == Log({"ack"}, r, k)
             grants == Log({"lease", "retry"}, r, k)
             f == [p \in acks |-> CHOOSE q \in grants : Answers(acks, p, q)]
  <2>1. IsFiniteSet(acks) /\ IsFiniteSet(grants)
    <3>1. PICK s \in Scenario : Scenario = {s}
      BY ServiceAssumption DEF OneScenario
    <3>2. IsFiniteSet(Scenario \X (1 .. MaxLog))
      <4>1. IsFiniteSet(Scenario)
        BY <3>1, FS_Singleton
      <4>2. IsFiniteSet(1 .. MaxLog)
        BY FS_Interval, ServiceAssumption
      <4> QED BY <4>1, <4>2, FS_Product
    <3>3. /\ acks \in SUBSET (Scenario \X (1 .. MaxLog))
          /\ grants \in SUBSET (Scenario \X (1 .. MaxLog))
      BY DEF Log
    <3> QED BY <3>2, <3>3, FS_Subset
  <2>2. \A p \in acks : \E q \in grants : Answers(acks, p, q)
    BY EachAckAnswers
  <2>3. \A p \in acks : f[p] \in grants /\ Answers(acks, p, f[p])
    BY <2>2
  <2>4. f \in [acks -> grants]
    BY <2>3
  <2>5. ASSUME NEW x \in acks, NEW y \in acks, x # y, f[x] = f[y]
        PROVE  FALSE
    <3>1. Answers(acks, x, f[x]) /\ Answers(acks, y, f[x])
      BY <2>3, <2>5
    <3>2. x = <<x[1], x[2]>> /\ y = <<y[1], y[2]>>
      BY DEF Log
    <3> HIDE DEF acks, f
    <3>3. x[2] # y[2] /\ x[1] = y[1]
      BY <2>5, <3>1, <3>2 DEF Answers
    <3>4. CASE x[2] < y[2]
      <4>1. x[2] \in f[x][2] + 1 .. y[2] - 1
        BY <3>1, <3>4 DEF Answers
      <4> QED BY <3>1, <3>2, <3>3, <4>1 DEF Answers
    <3>5. CASE y[2] < x[2]
      <4>1. y[2] \in f[x][2] + 1 .. x[2] - 1
        BY <3>1, <3>5 DEF Answers
      <4> QED BY <3>1, <3>2, <3>3, <4>1 DEF Answers
    <3> QED BY <3>1, <3>3, <3>4, <3>5 DEF Answers
  <2> HIDE DEF acks, grants, f
  <2>6. ~(Cardinality(grants) < Cardinality(acks))
    BY <2>1, <2>4, <2>5, FS_PigeonHole
  <2>7. Cardinality(grants) \in Nat /\ Cardinality(acks) \in Nat
    BY <2>1, FS_CardinalityType
  <2> QED BY <2>6, <2>7 DEF acks, grants
<1> QED BY <1>1, AckAlwaysUsesLease, TypeInvariant, PTL

=============================================================================
