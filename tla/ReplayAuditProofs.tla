-------------------------- MODULE ReplayAuditProofs --------------------------
(***************************************************************************)
(* What a replay leaves behind against its log: the rows of the replicas,  *)
(* and the static audit of the log (CheckMonotonicObservations).           *)
(***************************************************************************)
EXTENDS ReplayUndisturbedProofs, WellFoundedInduction

-----------------------------------------------------------------------------
(* Induction over a set of natural numbers, from the well-foundedness of <. *)

LEMMA LeastNatural ==
    ASSUME NEW T \in SUBSET Nat, T # {}
    PROVE  \E m \in T : \A n \in T : m <= n
<1>1. \A m, n \in Nat : <<n, m>> \in OpToRel(<, Nat) <=> n < m
  BY DEF OpToRel
<1>2. PICK Below : /\ IsWellFoundedOn(Below, Nat)
                   /\ \A m, n \in Nat : <<n, m>> \in Below <=> n < m
  BY <1>1, NatLessThanWellFounded, Zenon
<1>3. PICK m \in T : \A n \in T : <<n, m>> \notin Below
  BY <1>2, WFMin, Zenon
<1>4. \A n \in T : ~ (n < m)
  BY <1>2, <1>3
<1> QED BY <1>4

LEMMA SetInduction ==
    ASSUME NEW T, 0 \in T, \A n \in T \cap Nat : n + 1 \in T
    PROVE  Nat \subseteq T
<1> DEFINE Out == Nat \ T
<1> SUFFICES ASSUME Out # {} PROVE FALSE
  OBVIOUS
<1>1. PICK m \in Out : \A n \in Out : m <= n
  BY LeastNatural
<1>2. m \in Nat /\ m # 0 /\ m - 1 \in Nat
  OBVIOUS
<1>3. m - 1 \in T
  BY <1>1, <1>2
<1>4. m - 1 + 1 \in T
  BY <1>2, <1>3
<1> QED BY <1>2, <1>4

-----------------------------------------------------------------------------
(* The audit goes through a log with a running maximum, a recursive        *)
(* function.  What it finds can be said without: a message is complained   *)
(* about if an earlier one of its replica and key has a higher version.    *)

\* One step of the running maximum.
NextSeen(msgs, r, k, n, before) ==
    IF /\ Advances(msgs[n]) /\ Concerns(msgs[n], r, k)
       /\ ~Regresses(msgs[n].body.version, before)
    THEN msgs[n].body.version
    ELSE before

\* f is the running maximum of the first n messages.
Runs(msgs, r, k, f, n) ==
    \A i \in 0 .. n :
       f[i] = IF i = 0 THEN 0 ELSE NextSeen(msgs, r, k, i, f[i - 1])

\* There is a function that is defined like that up to n.
HasRun(msgs, r, k, n) ==
    \E f : f = [i \in 0 .. n |-> IF i = 0 THEN 0
                                ELSE NextSeen(msgs, r, k, i, f[i - 1])]

LEMMA SeenExists ==
    ASSUME NEW msgs, NEW r, NEW k, NEW n \in Nat
    PROVE  HasRun(msgs, r, k, n)
<1> DEFINE T == {m \in Nat : HasRun(msgs, r, k, m)}
<1>1. 0 \in T
  <2> DEFINE f == [i \in 0 .. 0 |-> 0]
  <2>1. f = [i \in 0 .. 0 |-> IF i = 0 THEN 0 ELSE NextSeen(msgs, r, k, i, f[i - 1])]
    OBVIOUS
  <2> QED BY <2>1 DEF HasRun
<1>2. ASSUME NEW m \in T \cap Nat
      PROVE  m + 1 \in T
  <2>1. PICK f : f = [i \in 0 .. m |-> IF i = 0 THEN 0
                                      ELSE NextSeen(msgs, r, k, i, f[i - 1])]
    BY DEF HasRun
  <2> DEFINE g == [i \in 0 .. m + 1 |->
                     IF i = m + 1 THEN NextSeen(msgs, r, k, m + 1, f[m]) ELSE f[i]]
  <2>2. \A i \in 0 .. m : g[i] = f[i]
    OBVIOUS
  <2>3. ASSUME NEW i \in 0 .. m + 1
        PROVE  g[i] = IF i = 0 THEN 0 ELSE NextSeen(msgs, r, k, i, g[i - 1])
    <3>1. CASE i = m + 1
      <4>1. g[i] = NextSeen(msgs, r, k, i, f[m]) /\ i # 0 /\ i - 1 = m
        BY <3>1
      <4>2. g[i - 1] = f[m]
        BY <2>2, <4>1
      <4> QED BY <4>1, <4>2
    <3>2. CASE i = 0
      <4>1. i \in 0 .. m
        BY <3>2
      <4> QED BY <2>1, <2>2, <3>2, <4>1
    <3>3. CASE i \in 0 .. m /\ i # 0
      <4>1. i - 1 \in 0 .. m
        BY <3>3
      <4>2. f[i] = NextSeen(msgs, r, k, i, f[i - 1])
        BY <2>1, <3>3
      <4> QED BY <2>2, <3>3, <4>1, <4>2
    <3> QED BY <3>1, <3>2, <3>3
  <2>4. g = [i \in 0 .. m + 1 |-> IF i = 0 THEN 0
                                 ELSE NextSeen(msgs, r, k, i, g[i - 1])]
    <3>1. g = [i \in 0 .. m + 1 |-> g[i]]
      OBVIOUS
    <3> HIDE DEF g
    <3> QED BY <2>3, <3>1
  <2> HIDE DEF g
  <2> QED BY <2>4 DEF HasRun
<1> HIDE DEF T
<1>3. Nat \subseteq T
  BY <1>1, <1>2, SetInduction
<1> QED BY <1>3 DEF T

\* The audit's own function is the running maximum of the whole log.
LEMMA SeenRuns ==
    ASSUME NEW msgs, Len(msgs) \in Nat, NEW r, NEW k
    PROVE  Runs(msgs, r, k, Seen(msgs, r, k), Len(msgs))
<1> DEFINE step(i, f) == IF i = 0 THEN 0 ELSE NextSeen(msgs, r, k, i, f[i - 1])
           seen == Seen(msgs, r, k)
<1>1. \E f : f = [i \in 0 .. Len(msgs) |-> step(i, f)]
  <2>1. HasRun(msgs, r, k, Len(msgs))
    BY SeenExists
  <2> QED BY <2>1 DEF HasRun
<1>2. seen = CHOOSE f : f = [i \in 0 .. Len(msgs) |-> step(i, f)]
  BY DEF Seen, NextSeen
<1>3. seen = [i \in 0 .. Len(msgs) |-> step(i, seen)]
  BY <1>1, <1>2
<1> HIDE DEF seen
<1>4. \A i \in 0 .. Len(msgs) : seen[i] = step(i, seen)
  BY <1>3
<1> QED BY <1>4 DEF Runs, seen

\* v bounds the versions of the first n messages, and is one of them or 0.
IsTop(msgs, r, k, n, v) ==
    LET moves == Moves(msgs, 1 .. n, r, k) IN
    /\ v \in Nat
    /\ \A i \in moves : msgs[i].body.version <= v
    /\ v = 0 \/ \E i \in moves : msgs[i].body.version = v

LEMMA SeenIsTop ==
    ASSUME NEW msgs, Len(msgs) \in Nat, NEW r, NEW k,
           \A i \in 1 .. Len(msgs) : msgs[i].body.version \in Int
    PROVE  \A n \in 0 .. Len(msgs) : IsTop(msgs, r, k, n, Seen(msgs, r, k)[n])
<1> DEFINE seen == Seen(msgs, r, k)
           Met(n) == Moves(msgs, 1 .. n, r, k)
           Good(n) ==
              /\ seen[n] \in Nat
              /\ \A i \in Met(n) : msgs[i].body.version <= seen[n]
              /\ seen[n] = 0 \/ \E i \in Met(n) : msgs[i].body.version = seen[n]
           T == {n \in Nat : n <= Len(msgs) => Good(n)}
<1>1. \A i \in 0 .. Len(msgs) :
         seen[i] = IF i = 0 THEN 0 ELSE NextSeen(msgs, r, k, i, seen[i - 1])
  BY SeenRuns DEF Runs
<1> HIDE DEF seen
<1>2. 0 \in T
  <2>1. seen[0] = 0 /\ Met(0) = {}
    BY <1>1 DEF Moves
  <2> QED BY <2>1
<1>3. ASSUME NEW n \in T \cap Nat
      PROVE  n + 1 \in T
  <2> SUFFICES ASSUME n + 1 <= Len(msgs) PROVE Good(n + 1)
    OBVIOUS
  <2> DEFINE m == msgs[n + 1]
  <2>1. Good(n)
    BY <1>3
  <2>2. seen[n + 1] = NextSeen(msgs, r, k, n + 1, seen[n])
    BY <1>1
  <2>3. Met(n + 1) = Met(n) \union
           (IF Advances(m) /\ Concerns(m, r, k) THEN {n + 1} ELSE {})
    BY DEF Moves
  <2>4. m.body.version \in Int
    OBVIOUS
  <2>5. \A i \in Met(n) : msgs[i].body.version \in Int
    BY DEF Moves
  <2> HIDE DEF Met
  <2>6. CASE Advances(m) /\ Concerns(m, r, k) /\ ~Regresses(m.body.version, seen[n])
    <3>1. seen[n + 1] = m.body.version /\ m.body.version >= seen[n]
      BY <2>1, <2>2, <2>4, <2>6 DEF NextSeen, Regresses
    <3> QED BY <2>1, <2>3, <2>4, <2>5, <2>6, <3>1
  <2>7. CASE Advances(m) /\ Concerns(m, r, k) /\ Regresses(m.body.version, seen[n])
    <3>1. seen[n + 1] = seen[n] /\ m.body.version <= seen[n]
      BY <2>1, <2>2, <2>4, <2>7 DEF NextSeen, Regresses
    <3> QED BY <2>1, <2>3, <2>7, <3>1
  <2>8. CASE ~(Advances(m) /\ Concerns(m, r, k))
    <3>1. seen[n + 1] = seen[n] /\ Met(n + 1) = Met(n)
      BY <2>2, <2>3, <2>8 DEF NextSeen
    <3> QED BY <2>1, <3>1
  <2> QED BY <2>6, <2>7, <2>8
<1> HIDE DEF T
<1>4. Nat \subseteq T
  BY <1>2, <1>3, SetInduction
<1>5. \A n \in 0 .. Len(msgs) : Good(n)
  BY <1>4 DEF T
<1> QED BY <1>5 DEF seen, IsTop

\* The audit of a list of messages, said without its running maximum: it
\* complains about an update or invalidation if its version is negative or an
\* earlier one of the same replica and key has a higher version.
THEOREM AuditIsPairwise ==
    ASSUME NEW msgs \in Seq(Message), NEW i \in DOMAIN msgs
    PROVE  i \in CheckMonotonicObservations(msgs) <=>
              LET b == msgs[i].body IN
              /\ Advances(msgs[i])
              /\ \/ b.version < 0
                 \/ \E j \in 1 .. i - 1 :
                       /\ Advances(msgs[j]) /\ Concerns(msgs[j], b.replica, b.key)
                       /\ msgs[j].body.version > b.version
<1> DEFINE b == msgs[i].body
           seen == Seen(msgs, b.replica, b.key)
           met == Moves(msgs, 1 .. i - 1, b.replica, b.key)
<1>1. Len(msgs) \in Nat /\ i \in 1 .. Len(msgs) /\ DOMAIN msgs = 1 .. Len(msgs)
  BY LenProperties
<1>2. \A j \in 1 .. Len(msgs) : msgs[j].body.version \in Int
  <2>1. \A j \in 1 .. Len(msgs) : msgs[j] \in Message
    BY <1>1
  <2> QED BY <2>1 DEF Message, Body
<1>3. IsTop(msgs, b.replica, b.key, i - 1, seen[i - 1])
  <2>1. i - 1 \in 0 .. Len(msgs)
    BY <1>1
  <2> QED BY <1>1, <1>2, <2>1, SeenIsTop
<1> HIDE DEF seen
<1>4. b.version < seen[i - 1] <=>
         b.version < 0 \/ \E j \in met : msgs[j].body.version > b.version
  <2>1. \A j \in met : msgs[j].body.version \in Int
    BY <1>1, <1>2 DEF Moves
  <2>2. b.version \in Int
    BY <1>1, <1>2
  <2>3. /\ seen[i - 1] \in Nat
        /\ \A j \in met : msgs[j].body.version <= seen[i - 1]
        /\ \/ seen[i - 1] = 0
           \/ \E j \in met : msgs[j].body.version = seen[i - 1]
    BY <1>3 DEF IsTop
  <2> HIDE DEF met, b
  <2> QED BY <2>1, <2>2, <2>3
<1>5. i \in CheckMonotonicObservations(msgs)
      <=> Advances(msgs[i]) /\ b.version < seen[i - 1]
  BY DEF CheckMonotonicObservations, Regresses, seen
<1> QED BY <1>4, <1>5 DEF Moves

-----------------------------------------------------------------------------
(* One more message, and the rules of KeyVersions: a row that says what    *)
(* the messages before say, moved as the rule has it, says it of all.      *)

\* n comes after the messages in those.
Succeeds(msgs, those, n) ==
    /\ n \in Nat /\ those \subseteq Nat /\ \A i \in those : i < n
    /\ \A i \in those \union {n} : msgs[i].body \in Body

LEMMA TellsUpdate ==
    ASSUME NEW msgs, NEW those, NEW n, Succeeds(msgs, those, n), NEW r, NEW k,
           NEW row \in Row, TellsOf(msgs, those, r, k, row),
           msgs[n].body.kind = "update", Concerns(msgs[n], r, k),
           ObserveOK(row, msgs[n].body.version)
    PROVE  TellsOf(msgs, those \union {n}, r, k, Observed(row, msgs[n].body.version))
<1> DEFINE v     == msgs[n].body.version
           moves == Moves(msgs, those, r, k)
           acks  == Confirms(msgs, those, r, k)
<1>1. /\ Moves(msgs, those \union {n}, r, k) = moves \union {n}
      /\ Confirms(msgs, those \union {n}, r, k) = acks
      /\ \A i \in moves : i < n /\ i \in Nat /\ msgs[i].body.version \in Int
      /\ \A i \in acks : i < n /\ i \in Nat
      /\ n \in Nat /\ v \in Int
  <2>1. Advances(msgs[n]) /\ msgs[n].body.kind # "ack"
    BY DEF Advances
  <2> QED BY <2>1 DEF Moves, Confirms, Succeeds, Body
<1>2. row.version \in Int
  BY DEF Row
<1>3. CASE ~Absent(row) /\ v = row.version
  <2>1. Observed(row, v) = row
    BY <1>3 DEF Observed
  <2> HIDE DEF moves, acks
  <2> QED BY <1>1, <1>2, <1>3, <2>1 DEF TellsOf, moves, acks
<1>4. CASE ~(~Absent(row) /\ v = row.version)
  <2>1. Observed(row, v) = [version |-> v, status |-> "valid"]
    BY <1>4 DEF Observed
  <2>2. \A i \in moves : msgs[i].body.version < v
    BY <1>1, <1>2, <1>4 DEF TellsOf, ObserveOK
  <2>3. {i \in moves \union {n} : msgs[i].body.version = v} = {n}
    BY <1>1, <2>2
  <2>4. \A i \in moves \union {n} : msgs[i].body.version <= v
    BY <1>1, <2>2
  <2>5. /\ \A i \in {n} : msgs[i].body.kind = "update"
        /\ \A i \in {n}, h \in acks : h < i
    BY <1>1
  <2> HIDE DEF moves, acks, v
  <2>6. TellsOf(msgs, those \union {n}, r, k, [version |-> v, status |-> "valid"])
    BY <1>1, <2>3, <2>4, <2>5 DEF TellsOf, Absent
  <2> QED BY <2>1, <2>6 DEF v
<1> QED BY <1>3, <1>4

LEMMA TellsInvalidate ==
    ASSUME NEW msgs, NEW those, NEW n, Succeeds(msgs, those, n), NEW r, NEW k,
           NEW row \in Row, TellsOf(msgs, those, r, k, row),
           msgs[n].body.kind = "invalidate", Concerns(msgs[n], r, k),
           InvalidateOK(row, msgs[n].body.version)
    PROVE  TellsOf(msgs, those \union {n}, r, k, Invalidated(row, msgs[n].body.version))
<1> DEFINE v     == msgs[n].body.version
           moves == Moves(msgs, those, r, k)
           new   == Invalidated(row, v)
<1>1. /\ Moves(msgs, those \union {n}, r, k) = moves \union {n}
      /\ \A i \in moves : i < n /\ i \in Nat /\ msgs[i].body.version \in Int
      /\ n \in Nat /\ v \in Int
  <2>1. Advances(msgs[n]) /\ msgs[n].body.kind # "ack"
    BY DEF Advances
  <2> QED BY <2>1 DEF Moves, Confirms, Succeeds, Body
<1>2. row.version \in Int
  BY DEF Row
<1>3. new.version = v /\ new.status \in {"stale", "pending_invalidation"}
  BY DEF Invalidated
<1>4. \A i \in moves : msgs[i].body.version <= v
  BY <1>1, <1>2 DEF TellsOf, InvalidateOK
<1>5. n \in {i \in moves \union {n} : msgs[i].body.version = v}
  OBVIOUS
<1>6. \A i \in moves \union {n} : msgs[i].body.version <= v
  BY <1>1, <1>4
<1>7. msgs[n].body.kind # "update"
  OBVIOUS
<1> HIDE DEF moves, new, v
<1>8. TellsOf(msgs, those \union {n}, r, k, new)
  BY <1>1, <1>3, <1>5, <1>6, <1>7 DEF TellsOf, Absent
<1> QED BY <1>8 DEF new, v

LEMMA TellsAck ==
    ASSUME NEW msgs, NEW those, NEW n, Succeeds(msgs, those, n), NEW r, NEW k,
           NEW row \in Row, TellsOf(msgs, those, r, k, row),
           msgs[n].body.kind = "ack", Concerns(msgs[n], r, k)
    PROVE  /\ Absent(row) => TellsOf(msgs, those \union {n}, r, k, row)
           /\ ~Absent(row) => TellsOf(msgs, those \union {n}, r, k, Confirmed(row))
<1> DEFINE moves == Moves(msgs, those, r, k)
           acks  == Confirms(msgs, those, r, k)
<1>1. /\ Moves(msgs, those \union {n}, r, k) = moves
      /\ Confirms(msgs, those \union {n}, r, k) = acks \union {n}
      /\ \A i \in moves : i < n /\ i \in Nat
      /\ n \in Nat
  <2>1. ~Advances(msgs[n])
    BY DEF Advances
  <2> QED BY <2>1 DEF Moves, Confirms, Succeeds, Body
<1>2. CASE Absent(row)
  <2>1. moves = {} /\ row.status # "valid"
    BY <1>2 DEF TellsOf, Absent
  <2> HIDE DEF moves, acks
  <2> QED BY <1>1, <1>2, <2>1 DEF TellsOf
<1>3. CASE ~Absent(row)
  <2>1. /\ Confirmed(row).version = row.version
        /\ Confirmed(row).status = "stale"
    BY DEF Confirmed, Row
  <2>2. PICK i \in moves : msgs[i].body.version = row.version
    BY <1>3 DEF TellsOf
  <2>3. ~(n < i)
    BY <1>1
  <2> HIDE DEF moves, acks
  <2> QED BY <1>1, <1>3, <2>1, <2>2, <2>3 DEF TellsOf, Absent, moves
<1> QED BY <1>2, <1>3

\* A message of another replica or key, or of a kind that leaves rows alone.
LEMMA TellsOther ==
    ASSUME NEW msgs, NEW those, NEW n, Succeeds(msgs, those, n), NEW r, NEW k,
           NEW row, TellsOf(msgs, those, r, k, row),
           Concerns(msgs[n], r, k) =>
              msgs[n].body.kind \notin {"update", "invalidate", "ack"}
    PROVE  TellsOf(msgs, those \union {n}, r, k, row)
<1>1. /\ Moves(msgs, those \union {n}, r, k) = Moves(msgs, those, r, k)
      /\ Confirms(msgs, those \union {n}, r, k) = Confirms(msgs, those, r, k)
  <2>1. /\ ~(Advances(msgs[n]) /\ Concerns(msgs[n], r, k))
        /\ ~(msgs[n].body.kind = "ack" /\ Concerns(msgs[n], r, k))
    BY DEF Advances
  <2> QED BY <2>1 DEF Moves, Confirms, Succeeds, Body
<1> QED BY <1>1 DEF TellsOf

-----------------------------------------------------------------------------
(* Undisturbed, with one scenario: at every moment the rows say what the   *)
(* messages say that have had their effect.  A message has its effect on   *)
(* the rows before its status is written, so the invariant is about the    *)
(* statuses that are decided, whether they are written or not.             *)

Marking(w, s, i) == pc[w] = "mark" /\ view[w].sc = s /\ pos[w] = i

\* The messages of a scenario that have a status, or are about to get it.
Given(s, st) ==
    {i \in DOMAIN log[s] :
        \/ \E w \in Worker : Marking(w, s, i) /\ eff[w].mark = st
        \/ log[s][i].status = st /\ ~\E w \in Worker : Marking(w, s, i)}

\* The versions for one row come in order.
Sorted(msgs, those) ==
    \A i \in those : Advances(msgs[i]) =>
       \A j \in Moves(msgs, those, msgs[i].body.replica, msgs[i].body.key) :
          j < i => msgs[j].body.version <= msgs[i].body.version

\* A reason to refuse a message: its version, or an earlier higher one.
Outdone(msgs, those, i) ==
    \/ msgs[i].body.version <= 0
    \/ \E j \in Moves(msgs, those, msgs[i].body.replica, msgs[i].body.key) :
          j < i /\ msgs[j].body.version > msgs[i].body.version

\* A message that was refused for another reason is to a replica that is not
\* registered, and none of its messages is delivered.
Account(s) ==
    LET msgs == Sent(s)  done == Given(s, "delivered")  refused == Given(s, "rejected") IN
    /\ \A r \in Replica, k \in Key : TellsOf(msgs, done, r, k, rkv[r][k])
    /\ Sorted(msgs, done)
    /\ \A i \in refused :
          /\ Advances(msgs[i])
          /\ \E j \in done : msgs[j].body.replica = msgs[i].body.replica
          => Outdone(msgs, done, i)
    /\ \A i \in DOMAIN log[s] :
          Advances(msgs[i]) => i \in done \union refused \union Given(s, "pending")

\* What a replay has decided on is what its message says.
Weighs(w) ==
    LET s == view[w].sc  msgs == Sent(s)  n == pos[w]
        done == Given(s, "delivered")  refused == Given(s, "rejected")
        r == msgs[n].body.replica  k == msgs[n].body.key
    IN  /\ pc[w] \in AtMessage \/ (pc[w] = "step" /\ InLog(w)) =>
              /\ \A j \in done : Known(w, msgs[j].body.replica)
              /\ \A i \in refused :
                    Advances(msgs[i]) /\ Known(w, msgs[i].body.replica)
                    => Outdone(msgs, done, i)
        /\ pc[w] \in {"release", "confirm", "write"} => Known(w, r)
        /\ pc[w] = "write" =>
              /\ eff[w].mark = "delivered"
              /\ TellsOf(msgs, done \union {n}, r, k, eff[w].row)
              /\ Sorted(msgs, done \union {n})

RowInv ==
    /\ \A s \in Scenario : Account(s)
    /\ \A w \in Worker : Weighs(w)

LEMMA SentBody ==
    ASSUME TypeInv, NEW s \in Scenario
    PROVE  /\ log[s] \in Seq(Message) /\ Len(log[s]) \in Nat
           /\ DOMAIN log[s] = 1 .. Len(log[s])
           /\ \A i \in DOMAIN log[s] : /\ Sent(s)[i].body = log[s][i].body
                                       /\ Sent(s)[i].body \in Body
                                       /\ log[s][i] \in Message
<1>1. log[s] \in Seq(Message) /\ Len(log[s]) \in Nat /\ DOMAIN log[s] = 1 .. Len(log[s])
  BY LenProperties DEF TypeInv, TypeOK
<1>2. ASSUME NEW i \in DOMAIN log[s]
      PROVE  Sent(s)[i].body = log[s][i].body /\ log[s][i] \in Message
  BY <1>1 DEF Sent
<1> QED BY <1>1, <1>2 DEF Message

\* One replay alone writes statuses: what is given changes only with its own.
LEMMA GivenAlone ==
    ASSUME OneWorker, NEW w \in Worker, NEW s, NEW st
    PROVE  /\ Given(s, st) =
                 {i \in DOMAIN log[s] : IF Marking(w, s, i) THEN eff[w].mark = st
                                       ELSE log[s][i].status = st}
           /\ Given(s, st)' =
                 {i \in DOMAIN log'[s] : IF Marking(w, s, i)' THEN eff'[w].mark = st
                                        ELSE log'[s][i].status = st}
<1>1. \A u \in Worker : u = w
  BY DEF OneWorker
<1> QED BY <1>1 DEF Given

LEMMA GivenSame ==
    ASSUME OneWorker, NEW w \in Worker, NEW s, NEW st, UNCHANGED log,
           \/ pc[w] # "mark" /\ pc'[w] # "mark"
           \/ pc'[w] = pc[w] /\ UNCHANGED <<view, pos, eff>>
    PROVE  Given(s, st)' = Given(s, st)
<1>1. ASSUME NEW i \in DOMAIN log[s]
      PROVE  /\ Marking(w, s, i)' <=> Marking(w, s, i)
             /\ Marking(w, s, i) => eff'[w].mark = eff[w].mark
  BY DEF Marking
<1> HIDE DEF Marking
<1>2. Given(s, st) = {i \in DOMAIN log[s] : IF Marking(w, s, i) THEN eff[w].mark = st
                                           ELSE log[s][i].status = st}
  BY GivenAlone
<1>3. Given(s, st)' = {i \in DOMAIN log[s] : IF Marking(w, s, i) THEN eff[w].mark = st
                                            ELSE log[s][i].status = st}
  BY <1>1, GivenAlone
<1> QED BY <1>2, <1>3

LEMMA NoneGiven ==
    ASSUME TypeInv, OneWorker, NEW w \in Worker, pc[w] # "mark",
           NEW s \in Scenario, \A i \in DOMAIN log[s] : log[s][i].status = "pending",
           NEW st, st # "pending"
    PROVE  Given(s, st) = {}
BY GivenAlone DEF Marking

\* The message whose turn it is comes after those that are done.
LEMMA AtNext ==
    ASSUME TypeInv, LogInv, StandsInv, OnceInv, OneWorker, NEW w \in Worker,
           \/ pc[w] \in {"release", "confirm", "write"}
           \/ pc[w] = "step" /\ InLog(w),
           NEW s \in Scenario, s = view[w].sc
    PROVE  /\ pos[w] \in DOMAIN log[s] /\ log[s][pos[w]].status = "pending"
           /\ Here(w).body = Sent(s)[pos[w]].body /\ Here(w).body \in Body
           /\ Succeeds(Sent(s), Given(s, "delivered"), pos[w])
<1>1. /\ Follows(w) /\ Within(w) /\ Copied(w) /\ pos[w] \in Nat
      /\ view[w].log \in Seq(Message) /\ view[w].start \in Nat
      /\ Len(trace[s]) \in Nat
  BY DEF OnceInv, LogInv, TypeInv, TypeOK, View
<1>2. InRange(w)
  <2>1. CASE pc[w] = "step" /\ InLog(w)
    BY <1>1, <2>1 DEF TypeInv, PosOK, InRange, InLog
  <2>2. CASE pc[w] \in {"release", "confirm", "write"}
    BY <2>2 DEF TypeInv, PosOK, AtMessage
  <2> QED BY <2>1, <2>2
<1>3. Len(trace[s]) = pos[w] - 1 /\ Ahead(s)
  BY <1>1 DEF Follows, AtMessage
<1>4. pos[w] \in 1 .. Len(view[w].log) /\ pos[w] \in 1 .. Len(log[s])
  <2>1. /\ pos[w] >= view[w].start + 1 /\ pos[w] <= Len(view[w].log)
        /\ Len(view[w].log) <= Len(log[s])
    BY <1>1, <1>2 DEF InRange, Within
  <2>2. Len(view[w].log) \in Nat /\ Len(log[s]) \in Nat
    BY <1>1, SentBody
  <2> QED BY <1>1, <2>1, <2>2
<1>5. \A i \in pos[w] .. Len(log[s]) : log[s][i].status = "pending"
  BY <1>3, <1>4 DEF Ahead
<1>6. pos[w] \in DOMAIN log[s] /\ log[s][pos[w]].status = "pending"
  BY <1>4, <1>5, SentBody
<1>7. Here(w).body = Sent(s)[pos[w]].body
  <2>1. Same(view[w].log[pos[w]], log[s][pos[w]])
    BY <1>1, <1>4 DEF Copied
  <2> QED BY <1>6, <2>1, SentBody DEF Same, Here
<1>8. ASSUME NEW i \in Given(s, "delivered")
      PROVE  i \in DOMAIN log[s] /\ i < pos[w]
  <2>1. i \in DOMAIN log[s] /\ log[s][i].status = "delivered"
    BY GivenAlone DEF Marking
  <2>2. i \in 1 .. Len(log[s]) /\ Len(log[s]) \in Nat
    BY <2>1, SentBody
  <2> QED BY <1>1, <1>5, <2>1, <2>2
<1>9. Succeeds(Sent(s), Given(s, "delivered"), pos[w])
  <2>1. DOMAIN log[s] \subseteq Nat
    BY SentBody
  <2> QED BY <1>6, <1>8, <2>1, SentBody DEF Succeeds
<1> QED BY <1>6, <1>7, <1>9, SentBody

\* A refusal stays justified as more messages have their effect.
LEMMA OutdoneMore ==
    ASSUME NEW msgs, NEW those, NEW i, Outdone(msgs, those, i), NEW n
    PROVE  Outdone(msgs, those \union {n}, i)
BY DEF Outdone, Moves

\* A step that gives no message a status and writes no row.
LEMMA AccountSame ==
    ASSUME OneWorker, RowInv, NEW w \in Worker, Weighs(w)',
           UNCHANGED rkv, NEW s \in Scenario, OneScenario,
           DOMAIN log'[s] = DOMAIN log[s], Sent(s)' = Sent(s),
           \A st : Given(s, st)' = Given(s, st)
    PROVE  RowInv'
<1>1. \A u \in Worker : u = w
  BY DEF OneWorker
<1>2. \A t \in Scenario : t = s
  BY DEF OneScenario
<1>3. Account(s)'
  <2>1. Account(s)
    BY DEF RowInv
  <2>2. /\ Given(s, "delivered")' = Given(s, "delivered")
        /\ Given(s, "rejected")' = Given(s, "rejected")
        /\ Given(s, "pending")' = Given(s, "pending")
    OBVIOUS
  <2> QED BY <2>1, <2>2 DEF Account
<1> QED BY <1>1, <1>2, <1>3 DEF RowInv

\* A step inside a message, or to the next.
LEMMA AccountGoesOn ==
    ASSUME TypeInv, OneWorker, OneScenario, RowInv, NEW w \in Worker,
           UNCHANGED <<log, rkv>>, pc[w] # "mark", pc'[w] # "mark", Weighs(w)'
    PROVE  RowInv'
<1>1. PICK s \in Scenario : s = view[w].sc
  BY DEF TypeInv, TypeOK, View
<1>2. \A st : Given(s, st)' = Given(s, st)
  BY GivenSame
<1>3. Sent(s)' = Sent(s)
  BY DEF Sent
<1> QED BY <1>2, <1>3, AccountSame

\* The message a replay is at is given its status.
GivenGrows(w, s) ==
    /\ \A st : st # "pending" => Given(s, st)' = Given(s, st) \union
          (IF eff'[w].mark = st THEN {pos[w]} ELSE {})
    /\ Given(s, "pending") \subseteq Given(s, "pending")' \union {pos[w]}

LEMMA GivenMore ==
    ASSUME OneWorker, NEW w \in Worker, pc[w] # "mark", pc'[w] = "mark",
           UNCHANGED <<log, view, pos>>, NEW s, s = view[w].sc,
           pos[w] \in DOMAIN log[s], log[s][pos[w]].status = "pending"
    PROVE  GivenGrows(w, s)
<1>1. ASSUME NEW i \in DOMAIN log[s]
      PROVE  ~Marking(w, s, i) /\ (Marking(w, s, i)' <=> i = pos[w])
  BY DEF Marking
<1> HIDE DEF Marking
<1>2. ASSUME NEW st
      PROVE  Given(s, st) = {i \in DOMAIN log[s] : log[s][i].status = st}
  BY <1>1, GivenAlone
<1>3. ASSUME NEW st
      PROVE  Given(s, st)' = {i \in DOMAIN log[s] : IF i = pos[w] THEN eff'[w].mark = st
                                                   ELSE log[s][i].status = st}
  BY <1>1, GivenAlone
<1>4. ASSUME NEW st, st # "pending"
      PROVE  Given(s, st)' = Given(s, st) \union
                 (IF eff'[w].mark = st THEN {pos[w]} ELSE {})
  BY <1>2, <1>3, <1>4
<1> QED BY <1>2, <1>3, <1>4 DEF GivenGrows

\* A message has its effect.
LEMMA AccountDelivers ==
    ASSUME TypeInv, LogInv, StandsInv, OnceInv, OneWorker, OneScenario, RowInv,
           NEW w \in Worker,
           \/ pc[w] \in {"release", "confirm", "write"}
           \/ pc[w] = "step" /\ InLog(w),
           pc'[w] = "mark", eff'[w].mark = "delivered",
           UNCHANGED <<log, view, pos>>,
           NEW s \in Scenario, s = view[w].sc, NEW n, n = pos[w],
           NEW done, done = Given(s, "delivered"),
           Known(w, Sent(s)[n].body.replica),
           Sorted(Sent(s), done \union {n}),
           \A r \in Replica, k \in Key :
              TellsOf(Sent(s), done \union {n}, r, k, rkv'[r][k])
    PROVE  RowInv'
<1> DEFINE msgs    == Sent(s)
           refused == Given(s, "rejected")
<1>1. n \in DOMAIN log[s] /\ log[s][n].status = "pending"
  BY AtNext
<1>2. /\ Given(s, "delivered")' = done \union {n}
      /\ Given(s, "rejected")' = refused
      /\ Given(s, "pending") \subseteq Given(s, "pending")' \union {n}
  <2>1. /\ pc[w] # "mark" /\ pos[w] \in DOMAIN log[s]
        /\ log[s][pos[w]].status = "pending"
        /\ UNCHANGED <<log, view, pos>>
    BY <1>1
  <2>2. GivenGrows(w, s)
    BY <2>1, GivenMore
  <2>3. /\ Given(s, "delivered")' = Given(s, "delivered") \union
                 (IF eff'[w].mark = "delivered" THEN {pos[w]} ELSE {})
        /\ Given(s, "rejected")' = Given(s, "rejected") \union
                 (IF eff'[w].mark = "rejected" THEN {pos[w]} ELSE {})
    BY <2>2 DEF GivenGrows
  <2> QED BY <2>2, <2>3 DEF GivenGrows
<1>3. msgs' = msgs /\ \A r : Known(w, r)' <=> Known(w, r)
  BY DEF Sent, Known
<1>4. Account(s) /\ Weighs(w)
  BY DEF RowInv
<1>5. /\ \A j \in done : Known(w, msgs[j].body.replica)
      /\ \A i \in refused : Advances(msgs[i]) /\ Known(w, msgs[i].body.replica)
                            => Outdone(msgs, done, i)
  BY <1>4 DEF Weighs, AtMessage
<1> HIDE DEF msgs, refused
<1>6. ASSUME NEW i \in refused, Advances(msgs[i]), Known(w, msgs[i].body.replica)
      PROVE  Outdone(msgs, done \union {n}, i)
  BY <1>5, <1>6, OutdoneMore
<1>7. \A j \in done \union {n} : Known(w, msgs[j].body.replica)
  BY <1>5 DEF msgs
<1>8. Weighs(w)'
  BY <1>2, <1>3, <1>6, <1>7 DEF Weighs, msgs, refused
<1>9. Account(s)'
  <2>1. \A i \in refused :
           /\ Advances(msgs[i])
           /\ \E j \in done \union {n} : msgs[j].body.replica = msgs[i].body.replica
           => Outdone(msgs, done \union {n}, i)
    BY <1>6, <1>7
  <2>2. \A i \in DOMAIN log[s] : Advances(msgs[i]) =>
           i \in (done \union {n}) \union refused \union Given(s, "pending")'
    BY <1>2, <1>4 DEF Account, msgs, refused
  <2> QED BY <1>2, <1>3, <2>1, <2>2 DEF Account, msgs, refused
<1>10. \A u \in Worker : u = w
  BY DEF OneWorker
<1>11. \A t \in Scenario : t = s
  BY DEF OneScenario
<1> QED BY <1>8, <1>9, <1>10, <1>11 DEF RowInv

\* A message is refused, or has expired.
LEMMA AccountRefuses ==
    ASSUME TypeInv, LogInv, StandsInv, OnceInv, OneWorker, OneScenario, RowInv,
           NEW w \in Worker, pc[w] = "step", InLog(w),
           pc'[w] = "mark", UNCHANGED <<log, rkv, view, pos>>,
           NEW s \in Scenario, s = view[w].sc, NEW n, n = pos[w],
           \/ /\ eff'[w].mark = "rejected"
              /\ Advances(Sent(s)[n]) /\ Known(w, Sent(s)[n].body.replica)
                 => Outdone(Sent(s), Given(s, "delivered"), n)
           \/ eff'[w].mark = "expired" /\ ~Advances(Sent(s)[n])
    PROVE  RowInv'
<1> DEFINE msgs    == Sent(s)
           done    == Given(s, "delivered")
           refused == Given(s, "rejected")
           more    == Given(s, "rejected")'
<1>1. n \in DOMAIN log[s] /\ log[s][n].status = "pending"
  BY AtNext
<1>2. /\ Given(s, "delivered")' = done
      /\ more = refused \union (IF eff'[w].mark = "rejected" THEN {n} ELSE {})
      /\ Given(s, "pending") \subseteq Given(s, "pending")' \union {n}
  <2>1. /\ pc[w] # "mark" /\ pos[w] \in DOMAIN log[s]
        /\ log[s][pos[w]].status = "pending"
        /\ UNCHANGED <<log, view, pos>>
    BY <1>1
  <2>2. GivenGrows(w, s)
    BY <2>1, GivenMore
  <2>3. /\ Given(s, "delivered")' = Given(s, "delivered") \union
                 (IF eff'[w].mark = "delivered" THEN {pos[w]} ELSE {})
        /\ Given(s, "rejected")' = Given(s, "rejected") \union
                 (IF eff'[w].mark = "rejected" THEN {pos[w]} ELSE {})
    BY <2>2 DEF GivenGrows
  <2> QED BY <2>2, <2>3 DEF GivenGrows
<1>3. msgs' = msgs /\ \A r : Known(w, r)' <=> Known(w, r)
  BY DEF Sent, Known
<1>4. Account(s) /\ Weighs(w)
  BY DEF RowInv
<1>5. /\ \A j \in done : Known(w, msgs[j].body.replica)
      /\ \A i \in refused : Advances(msgs[i]) /\ Known(w, msgs[i].body.replica)
                            => Outdone(msgs, done, i)
  BY <1>4 DEF Weighs, AtMessage
<1>6. \A i \in more : Advances(msgs[i]) /\ Known(w, msgs[i].body.replica)
                      => Outdone(msgs, done, i)
  BY <1>2, <1>5
<1>7. Weighs(w)'
  BY <1>2, <1>3, <1>5, <1>6 DEF Weighs
<1>8. Account(s)'
  <2>1. \A i \in more :
           /\ Advances(msgs[i])
           /\ \E j \in done : msgs[j].body.replica = msgs[i].body.replica
           => Outdone(msgs, done, i)
    BY <1>5, <1>6
  <2>2. \A i \in DOMAIN log[s] : Advances(msgs[i]) =>
           i \in done \union more \union Given(s, "pending")'
    BY <1>2, <1>4 DEF Account
  <2>3. \A r \in Replica, k \in Key : TellsOf(msgs, done, r, k, rkv'[r][k])
    BY <1>4 DEF Account
  <2>4. Sorted(msgs, done)
    BY <1>4 DEF Account
  <2> HIDE DEF done, more
  <2> QED BY <1>2, <1>3, <2>1, <2>2, <2>3, <2>4 DEF Account, done, more
<1>9. \A u \in Worker : u = w
  BY DEF OneWorker
<1>10. \A t \in Scenario : t = s
  BY DEF OneScenario
<1> QED BY <1>7, <1>8, <1>9, <1>10 DEF RowInv

\* The order of versions, with one more message.
LEMMA SortedMore ==
    ASSUME NEW msgs, NEW those, NEW n, Succeeds(msgs, those, n), Sorted(msgs, those),
           Advances(msgs[n]) =>
              \A j \in Moves(msgs, those, msgs[n].body.replica, msgs[n].body.key) :
                 msgs[j].body.version <= msgs[n].body.version
    PROVE  Sorted(msgs, those \union {n})
<1>1. n \in Nat /\ those \subseteq Nat /\ \A i \in those : i < n
  BY DEF Succeeds
<1>2. ASSUME NEW i \in those \union {n}, Advances(msgs[i]),
             NEW j \in Moves(msgs, those \union {n}, msgs[i].body.replica,
                             msgs[i].body.key), j < i
      PROVE  msgs[j].body.version <= msgs[i].body.version
  <2>1. j \in those \union {n} /\ Advances(msgs[j])
        /\ Concerns(msgs[j], msgs[i].body.replica, msgs[i].body.key)
    BY DEF Moves
  <2>2. j # n
    <3>1. i = n \/ (i \in Nat /\ i < n)
      BY <1>1
    <3> QED BY <1>1, <1>2, <3>1
  <2>3. j \in Moves(msgs, those, msgs[i].body.replica, msgs[i].body.key)
    BY <2>1, <2>2 DEF Moves
  <2>4. CASE i = n
    BY <1>2, <2>3, <2>4
  <2>5. CASE i # n
    <3>1. i \in those
      BY <2>5
    <3> QED BY <1>2, <2>3, <3>1 DEF Sorted
  <2> QED BY <2>4, <2>5
<1> QED BY <1>2 DEF Sorted

\* A row says as much of a log that has grown, when nothing of it is done.
LEMMA RowRequest ==
    ASSUME TypeInv, LogInv, StandsInv, DraftPending, OnceInv, RowInv, OneWorker,
           OneScenario, NEW w \in Worker, Request(w)
    PROVE  RowInv'
<1> USE DEF TypeInv, TypeOK
<1>1. Weighs(w)' /\ pc[w] # "mark" /\ pc'[w] # "mark" /\ UNCHANGED rkv
  <2>1. /\ pc[w] \in {"idle", "insert", "commit"}
        /\ pc'[w] \in {"idle", "insert", "commit", "begin"} /\ UNCHANGED rkv
    BY DEF Request, AppendCheck, ReplayGet, AppendInsert, AppendRefused,
           SourceRead, SourceWrite, RegisterReplica, SetReplicaStatus, At,
           Return, Goto, local, db
  <2> QED BY <2>1 DEF Weighs, AtMessage
<1>2. CASE UNCHANGED log
  BY <1>1, <1>2, AccountGoesOn
<1>3. CASE AppendInsert(w)
  <2> PICK s \in Scenario : s = draft[w].sc
    BY DEF Draft
  <2>1. /\ status[s] = "editing" /\ pc[w] = "insert"
        /\ draft[w].msg \in Message /\ draft[w].msg.status = "pending"
    BY <1>3 DEF AppendInsert, At, Draft, StandsInv, Stands, DraftPending, FormOK
  <2>2. log' = [log EXCEPT ![s] = Append(@, draft[w].msg)]
    BY <1>3 DEF AppendInsert
  <2>3. ~Replays(w, s)
    BY <2>1 DEF Replays, Replaying, Early, AtMessage, Judges
  <2>4. Rests(s) /\ trace[s] = <<>>
    BY <2>1, <2>3 DEF OnceInv, Rests
  <2>5. /\ log[s] \in Seq(Message) /\ Len(log'[s]) = Len(log[s]) + 1
        /\ Len(log[s]) \in Nat /\ DOMAIN log'[s] = 1 .. Len(log[s]) + 1
        /\ \A i \in 1 .. Len(log[s]) : log'[s][i] = log[s][i]
        /\ log'[s][Len(log[s]) + 1].status = "pending"
    BY <2>1, <2>2
  <2>6. \A i \in 1 .. Len(log[s]) : log[s][i].status = "pending"
    BY <2>4 DEF Rests, Ahead
  <2>7. \A i \in DOMAIN log[s] : log[s][i].status = "pending"
    BY <2>6, SentBody
  <2>8. ASSUME NEW i \in DOMAIN log'[s]
        PROVE  log'[s][i].status = "pending"
    <3>1. CASE i = Len(log[s]) + 1
      BY <2>5, <3>1
    <3>2. CASE i \in 1 .. Len(log[s])
      BY <2>5, <2>6, <3>2
    <3> QED BY <2>5, <3>1, <3>2
  <2>9. /\ Given(s, "delivered") = {} /\ Given(s, "rejected") = {}
    BY <1>1, <2>7, NoneGiven
  <2>10. /\ Given(s, "delivered")' = {} /\ Given(s, "rejected")' = {}
         /\ Given(s, "pending")' = DOMAIN log'[s]
    <3>1. \A i : ~Marking(w, s, i)'
      BY <1>1 DEF Marking
    <3> HIDE DEF Marking
    <3>2. /\ Given(s, "delivered")' =
                {i \in DOMAIN log'[s] : log'[s][i].status = "delivered"}
          /\ Given(s, "rejected")' =
                {i \in DOMAIN log'[s] : log'[s][i].status = "rejected"}
          /\ Given(s, "pending")' =
                {i \in DOMAIN log'[s] : log'[s][i].status = "pending"}
      BY <3>1, GivenAlone
    <3> QED BY <2>8, <3>2
  <2>11. Account(s)
    BY DEF RowInv
  <2>12. ASSUME NEW r \in Replica, NEW k \in Key
         PROVE  TellsOf(Sent(s)', {}, r, k, rkv'[r][k])
    <3>1. TellsOf(Sent(s), {}, r, k, rkv[r][k])
      BY <2>9, <2>11 DEF Account
    <3> QED BY <1>1, <3>1 DEF TellsOf, Moves, Confirms
  <2>13. Account(s)'
    BY <2>10, <2>12 DEF Account, Sorted
  <2>14. \A u \in Worker : u = w
    BY DEF OneWorker
  <2>15. \A t \in Scenario : t = s
    BY DEF OneScenario
  <2> QED BY <1>1, <2>13, <2>14, <2>15 DEF RowInv
<1>4. UNCHANGED log \/ AppendInsert(w)
  BY DEF Request, AppendCheck, ReplayGet, AppendRefused, SourceRead,
         SourceWrite, RegisterReplica, SetReplicaStatus, db
<1> QED BY <1>2, <1>3, <1>4

\* Before its first message a replay has nothing to go by.
LEMMA RowReading ==
    ASSUME TypeInv, LogInv, StandsInv, OnceInv, RowInv, OneWorker, OneScenario,
           NEW w \in Worker, Reading(w)
    PROVE  RowInv'
<1> PICK s \in Scenario : s = view[w].sc
  BY DEF TypeInv, TypeOK, View
<1>1. /\ UNCHANGED <<log, rkv, trace>>
      /\ pc[w] \in Early /\ pc'[w] \in Early \union {"step"} /\ view'[w].sc = s
  BY DEF Reading, ReplayBegin, ReplayList, ReplayTopology, ReplaySources,
         Rebuild, RebuildDone, At, Goto, db, Early, TypeInv, TypeOK, View
<1>2. CASE pc'[w] = "step" /\ InLog(w)'
  <2>1. RebuildDone(w)
    BY <1>1, <1>2 DEF Reading, ReplayBegin, ReplayList, ReplayTopology,
                      ReplaySources, Rebuild, At, Goto, TypeInv, TypeOK
  <2>2. pos'[w] = view[w].start + 1 /\ UNCHANGED view /\ pc[w] = "rebuild"
    BY <2>1 DEF RebuildDone, At, TypeInv, TypeOK
  <2>3. /\ view[w].start \in Nat /\ Len(log[s]) \in Nat /\ Len(trace[s]) \in Nat
        /\ Len(view[w].log) = Len(log[s])
    <3>1. view[w].start \in Nat /\ Len(log[s]) \in Nat /\ Len(trace[s]) \in Nat
      BY DEF TypeInv, TypeOK, View
    <3>2. Stands(w)
      BY DEF StandsInv
    <3> QED BY <2>2, <3>1, <3>2 DEF Stands, Reads
  <2>4. /\ Len(trace[s]) = view[w].start /\ view[w].start \in {0, Len(log[s])}
        /\ Ahead(s)
    BY <2>2 DEF OnceInv, Follows, Early
  <2>5. view[w].start + 1 <= Len(log[s])
    BY <1>2, <2>2, <2>3 DEF InLog
  <2>6. Len(trace[s]) = 0
    BY <2>3, <2>4, <2>5
  <2>7. \A i \in DOMAIN log[s] : log[s][i].status = "pending"
    BY <2>4, <2>6, SentBody DEF Ahead
  <2>8. Given(s, "delivered") = {} /\ Given(s, "rejected") = {}
    BY <2>2, <2>7, NoneGiven
  <2>9. Given(s, "delivered")' = {} /\ Given(s, "rejected")' = {}
    BY <1>1, <1>2, <2>2, <2>8, GivenSame
  <2>10. Weighs(w)'
    BY <1>1, <1>2, <2>9 DEF Weighs
  <2> QED BY <1>1, <1>2, <2>2, <2>10, AccountGoesOn
<1>3. CASE ~(pc'[w] = "step" /\ InLog(w)')
  <2>1. Weighs(w)'
    BY <1>1, <1>3 DEF Weighs, Early, AtMessage
  <2> QED BY <1>1, <2>1, AccountGoesOn DEF Early
<1> QED BY <1>2, <1>3

\* A version that the row admits keeps the order; one that it does not admit
\* is outdone.
LEMMA SortedAdmits ==
    ASSUME NEW msgs, NEW those, NEW n, Succeeds(msgs, those, n), Sorted(msgs, those),
           NEW row \in Row,
           TellsOf(msgs, those, msgs[n].body.replica, msgs[n].body.key, row)
    PROVE  /\ Absent(row) \/ msgs[n].body.version >= row.version
              => Sorted(msgs, those \union {n})
           /\ ~Absent(row) /\ msgs[n].body.version < row.version
              => Outdone(msgs, those, n)
<1> DEFINE moves == Moves(msgs, those, msgs[n].body.replica, msgs[n].body.key)
<1>1. /\ row.version \in Int /\ msgs[n].body.version \in Int /\ n \in Nat
      /\ \A j \in moves : msgs[j].body.version \in Int /\ j < n
  BY DEF Row, Succeeds, Body, Moves
<1>2. /\ Absent(row) => moves = {}
      /\ ~Absent(row) => \E j \in moves : msgs[j].body.version = row.version
      /\ \A j \in moves : msgs[j].body.version <= row.version
  BY DEF TellsOf
<1> HIDE DEF moves
<1>3. ASSUME Absent(row) \/ msgs[n].body.version >= row.version
      PROVE  Sorted(msgs, those \union {n})
  <2>1. \A j \in moves : msgs[j].body.version <= msgs[n].body.version
    BY <1>1, <1>2, <1>3
  <2> QED BY <2>1, SortedMore DEF moves
<1>4. ASSUME ~Absent(row), msgs[n].body.version < row.version
      PROVE  Outdone(msgs, those, n)
  <2>1. \E j \in moves : j < n /\ msgs[j].body.version > msgs[n].body.version
    BY <1>1, <1>2, <1>4
  <2> QED BY <2>1 DEF Outdone, moves
<1> QED BY <1>3, <1>4

\* A message has its effect on one row.
Puts(m, row) ==
    \A r \in Replica, k \in Key :
       rkv'[r][k] = IF Concerns(m, r, k) THEN row ELSE rkv[r][k]

LEMMA TellsAll ==
    ASSUME NEW msgs, NEW those, NEW n, Succeeds(msgs, those, n), NEW row,
           \A r \in Replica, k \in Key : TellsOf(msgs, those, r, k, rkv[r][k]),
           TellsOf(msgs, those \union {n}, msgs[n].body.replica, msgs[n].body.key, row),
           Puts(msgs[n], row)
    PROVE  \A r \in Replica, k \in Key : TellsOf(msgs, those \union {n}, r, k, rkv'[r][k])
<1> TAKE r \in Replica, k \in Key
<1> USE DEF Puts
<1>1. CASE Concerns(msgs[n], r, k)
  BY <1>1 DEF Concerns
<1>2. CASE ~Concerns(msgs[n], r, k)
  <2>1. TellsOf(msgs, those \union {n}, r, k, rkv[r][k])
    BY <1>2, TellsOther
  <2> QED BY <1>2, <2>1
<1> QED BY <1>1, <1>2

\* What a handler stands at, and when the row has what the message says.
Due(w) ==
    LET s == view[w].sc  n == pos[w]  msgs == Sent(s)  m == msgs[n].body
        done == Given(s, "delivered")  cur == rkv[m.replica][m.key] IN
    /\ Here(w).body = m /\ m \in Body /\ cur \in Row
    /\ Succeeds(msgs, done, n) /\ Sorted(msgs, done)
    /\ TellsOf(msgs, done, m.replica, m.key, cur)

LEMMA HandlerDue ==
    ASSUME TypeInv, LogInv, StandsInv, OnceInv, RowInv, OneWorker, NEW w \in Worker,
           \/ pc[w] \in {"release", "confirm", "write"}
           \/ pc[w] = "step" /\ InLog(w)
    PROVE  Due(w)
<1> PICK s \in Scenario : s = view[w].sc
  BY DEF TypeInv, TypeOK, View
<1>1. /\ Here(w).body = Sent(s)[pos[w]].body /\ Here(w).body \in Body
      /\ Succeeds(Sent(s), Given(s, "delivered"), pos[w])
  BY AtNext
<1>2. Account(s)
  BY DEF RowInv
<1>3. /\ Here(w).body.replica \in Replica /\ Here(w).body.key \in Key
      /\ rkv \in [Replica -> [Key -> Row]]
  BY <1>1 DEF Body, TypeInv, TypeOK
<1> QED BY <1>1, <1>2, <1>3 DEF Due, Account

\* A message has its effect, and its row is as it was.
LEMMA RowDelivers ==
    ASSUME TypeInv, LogInv, StandsInv, OnceInv, RowInv, OneWorker, OneScenario,
           NEW w \in Worker,
           \/ pc[w] \in {"release", "confirm"}
           \/ pc[w] = "step" /\ InLog(w),
           pc'[w] = "mark", eff'[w].mark = "delivered",
           UNCHANGED <<log, rkv, view, pos>>, Known(w, Here(w).body.replica),
           Here(w).body.kind = "update" =>
              /\ ObserveOK(rkv[Here(w).body.replica][Here(w).body.key], Here(w).body.version)
              /\ Observed(rkv[Here(w).body.replica][Here(w).body.key], Here(w).body.version)
                 = rkv[Here(w).body.replica][Here(w).body.key],
           Here(w).body.kind # "invalidate",
           Here(w).body.kind = "ack" =>
              Absent(rkv[Here(w).body.replica][Here(w).body.key])
    PROVE  RowInv'
<1>s. PICK s \in Scenario : s = view[w].sc
  BY DEF TypeInv, TypeOK, View
<1>n. PICK n : n = pos[w]
  OBVIOUS
<1>d. PICK done : done = Given(s, "delivered")
  OBVIOUS
<1>m. PICK m : m = Sent(s)[n].body
  OBVIOUS
<1>c. PICK cur : cur = rkv[m.replica][m.key]
  OBVIOUS
<1>1. /\ Here(w).body = m /\ m \in Body /\ cur \in Row
      /\ Succeeds(Sent(s), done, n) /\ Sorted(Sent(s), done)
      /\ TellsOf(Sent(s), done, m.replica, m.key, cur)
  <2>1. Due(w)
    BY HandlerDue
  <2> QED BY <1>s, <1>n, <1>d, <1>m, <1>c, <2>1 DEF Due
<1>2. TellsOf(Sent(s), done \union {n}, m.replica, m.key, cur)
  <2>1. Concerns(Sent(s)[n], m.replica, m.key)
    BY <1>m DEF Concerns
  <2>2. CASE m.kind = "update"
    <3>1. Observed(cur, m.version) = cur /\ ObserveOK(cur, m.version)
      BY <1>1, <1>c, <2>2
    <3>2. TellsOf(Sent(s), done \union {n}, m.replica, m.key, Observed(cur, m.version))
      BY <1>1, <1>m, <2>1, <2>2, <3>1, TellsUpdate
    <3> QED BY <3>1, <3>2
  <2>3. CASE m.kind = "ack"
    <3>1. Absent(cur)
      BY <1>1, <1>c, <2>3
    <3> QED BY <1>1, <1>m, <2>1, <2>3, <3>1, TellsAck
  <2>4. CASE m.kind \notin {"update", "invalidate", "ack"}
    BY <1>1, <1>m, <2>4, TellsOther
  <2> QED BY <1>1, <2>2, <2>3, <2>4
<1>3. Sorted(Sent(s), done \union {n})
  <2>1. CASE m.kind = "update"
    <3>1. Absent(cur) \/ m.version >= cur.version
      BY <1>1, <1>c, <2>1 DEF ObserveOK
    <3> QED BY <1>1, <1>m, <3>1, SortedAdmits
  <2>2. CASE m.kind # "update"
    <3>1. ~Advances(Sent(s)[n])
      BY <1>1, <1>m, <2>2 DEF Advances
    <3> QED BY <1>1, <3>1, SortedMore
  <2> QED BY <2>1, <2>2
<1>4. \A r \in Replica, k \in Key : TellsOf(Sent(s), done \union {n}, r, k, rkv'[r][k])
  <2>1. \A r \in Replica, k \in Key : TellsOf(Sent(s), done, r, k, rkv[r][k])
    BY <1>d DEF RowInv, Account
  <2>2. Puts(Sent(s)[n], cur)
    BY <1>m, <1>c DEF Concerns, Puts
  <2> QED BY <1>1, <1>2, <1>m, <2>1, <2>2, TellsAll
<1>5. Known(w, Sent(s)[n].body.replica) /\ UNCHANGED <<log, view, pos>>
  BY <1>1, <1>m
<1> QED BY <1>s, <1>n, <1>d, <1>3, <1>4, <1>5, AccountDelivers

\* A message goes on to the next of its statements.
LEMMA RowGoesOn ==
    ASSUME TypeInv, LogInv, StandsInv, OnceInv, RowInv, OneWorker, OneScenario,
           NEW w \in Worker,
           \/ pc[w] \in {"release", "confirm"}
           \/ pc[w] = "step" /\ InLog(w),
           UNCHANGED <<log, rkv, view, pos>>,
           pc'[w] \in {"release", "confirm", "write", "trace"},
           pc'[w] # "trace" => Known(w, Here(w).body.replica),
           pc'[w] = "write" =>
              LET s == view[w].sc  n == pos[w]  m == Sent(s)[n].body
                  all == Given(s, "delivered") \union {n}
              IN  /\ eff'[w].mark = "delivered"
                  /\ TellsOf(Sent(s), all, m.replica, m.key, eff'[w].row)
                  /\ Sorted(Sent(s), all)
    PROVE  RowInv'
<1> PICK s \in Scenario : s = view[w].sc
  BY DEF TypeInv, TypeOK, View
<1>1. pc[w] # "mark" /\ pc'[w] # "mark" /\ UNCHANGED <<log, rkv>>
  OBVIOUS
<1>2. /\ Given(s, "delivered")' = Given(s, "delivered")
      /\ Given(s, "rejected")' = Given(s, "rejected")
  BY <1>1, GivenSame
<1>3. Sent(s)' = Sent(s) /\ \A r : Known(w, r)' <=> Known(w, r)
  BY DEF Sent, Known
<1>4. Weighs(w) /\ Due(w)
  BY HandlerDue DEF RowInv
<1>5. Here(w).body = Sent(s)[pos[w]].body
  BY <1>4 DEF Due
<1>6. Weighs(w)'
  BY <1>2, <1>3, <1>4, <1>5 DEF Weighs, AtMessage
<1> QED BY <1>1, <1>6, AccountGoesOn

LEMMA RowHandle ==
    ASSUME TypeInv, LogInv, StandsInv, OnceInv, ActsInv, RowInv, OneWorker,
           OneScenario, NEW w \in Worker, Handle(w)
    PROVE  RowInv'
<1>s. PICK s \in Scenario : s = view[w].sc
  BY DEF TypeInv, TypeOK, View
<1>1. /\ UNCHANGED <<log, rkv, view, pos>>
      /\ pc[w] \in {"step", "release", "confirm"}
      /\ pc[w] = "step" => InLog(w)
  BY DEF Handle, RejectUnknown, HandleLease, HandleInvalidate, HandleUpdate,
         HandleAck, AckRelease, AckConfirm, HandleRetry, Ignore, Refuse, Decide,
         Handling, At, db
<1>2. Due(w) /\ Weighs(w) /\ Acts(w)
  BY <1>1, HandlerDue DEF RowInv, ActsInv
<1>n. PICK n : n = pos[w]
  OBVIOUS
<1>d. PICK done : done = Given(s, "delivered")
  OBVIOUS
<1>m. PICK m : m = Here(w).body
  OBVIOUS
<1>c. PICK cur : cur = rkv[m.replica][m.key]
  OBVIOUS
<1>3. /\ m = Sent(s)[n].body /\ m \in Body /\ cur \in Row
      /\ Succeeds(Sent(s), done, n) /\ Sorted(Sent(s), done)
      /\ TellsOf(Sent(s), done, m.replica, m.key, cur)
  BY <1>s, <1>n, <1>d, <1>m, <1>c, <1>2 DEF Due
<1>4. ASSUME pc[w] = "step", pc'[w] = "mark",
             \/ /\ eff'[w].mark = "rejected"
                /\ Advances(Sent(s)[n]) /\ Known(w, m.replica)
                   => Outdone(Sent(s), done, n)
             \/ eff'[w].mark = "expired" /\ ~Advances(Sent(s)[n])
      PROVE  RowInv'
  BY <1>s, <1>n, <1>d, <1>1, <1>3, <1>4, AccountRefuses
<1>5. CASE RejectUnknown(w)
  <2>1. /\ pc[w] = "step" /\ pc'[w] = "mark" /\ eff'[w].mark = "rejected"
        /\ ~Known(w, m.replica)
    BY <1>m, <1>5 DEF RejectUnknown, Handling, At, Refuse, Decide, Goto, TypeInv, TypeOK
  <2> QED BY <1>4, <2>1
<1>6. CASE HandleLease(w) \/ HandleRetry(w)
  <2>1. /\ pc[w] = "step" /\ pc'[w] = "mark" /\ m.kind \in {"lease", "retry"}
        /\ eff'[w].mark \in {"delivered", "expired"} /\ Known(w, m.replica)
    BY <1>m, <1>6 DEF HandleLease, HandleRetry, Handling, At, Decide, Goto,
                      TypeInv, TypeOK
  <2>2. CASE eff'[w].mark = "delivered"
    BY <1>m, <1>1, <2>1, <2>2, RowDelivers
  <2>3. CASE eff'[w].mark = "expired"
    BY <1>3, <1>4, <2>1, <2>3 DEF Advances
  <2> QED BY <2>1, <2>2, <2>3
<1>7. CASE HandleInvalidate(w)
  <2>1. /\ pc[w] = "step" /\ m.kind = "invalidate" /\ Known(w, m.replica)
        /\ IF InvalidateOK(cur, m.version)
           THEN Decide(w, Invalidated(cur, m.version), "delivered", "write")
           ELSE Refuse(w)
    BY <1>m, <1>c, <1>7 DEF HandleInvalidate, Handling, At
  <2>2. CASE ~InvalidateOK(cur, m.version)
    <3>1. pc'[w] = "mark" /\ eff'[w].mark = "rejected"
      BY <2>1, <2>2 DEF Refuse, Decide, Goto, TypeInv, TypeOK
    <3>2. ~Absent(cur) /\ m.version < cur.version
      BY <1>3, <2>2 DEF InvalidateOK, Row, Body
    <3>3. Outdone(Sent(s), done, n)
      BY <1>3, <3>2, SortedAdmits
    <3> QED BY <1>4, <2>1, <3>1, <3>3
  <2>3. CASE InvalidateOK(cur, m.version)
    <3>1. /\ pc'[w] = "write" /\ eff'[w].mark = "delivered"
          /\ eff'[w].row = Invalidated(cur, m.version)
      BY <2>1, <2>3 DEF Decide, Goto, TypeInv, TypeOK
    <3>2. Concerns(Sent(s)[n], m.replica, m.key) /\ Sent(s)[n].body.kind = "invalidate"
      BY <1>3, <2>1 DEF Concerns
    <3>3. TellsOf(Sent(s), done \union {n}, m.replica, m.key, Invalidated(cur, m.version))
      BY <1>3, <2>3, <3>2, TellsInvalidate
    <3>4. Sorted(Sent(s), done \union {n})
      BY <1>3, <2>3, SortedAdmits DEF InvalidateOK
    <3> QED BY <1>s, <1>n, <1>d, <1>m, <1>1, <1>3, <2>1, <3>1, <3>3, <3>4, RowGoesOn
  <2> QED BY <2>2, <2>3
<1>8. CASE HandleUpdate(w)
  <2>1. /\ pc[w] = "step" /\ m.kind = "update" /\ Known(w, m.replica)
        /\ IF ~ObserveOK(cur, m.version)
           THEN Refuse(w)
           ELSE Decide(w, Observed(cur, m.version), "delivered",
                       IF Observed(cur, m.version) = cur THEN "mark" ELSE "write")
    BY <1>m, <1>c, <1>8 DEF HandleUpdate, Handling, At
  <2>2. CASE ~ObserveOK(cur, m.version)
    <3>1. pc'[w] = "mark" /\ eff'[w].mark = "rejected"
      BY <2>1, <2>2 DEF Refuse, Decide, Goto, TypeInv, TypeOK
    <3>2. m.version <= 0 \/ (~Absent(cur) /\ m.version < cur.version)
      BY <1>3, <2>2 DEF ObserveOK, Row, Body
    <3>3. Outdone(Sent(s), done, n)
      <4>1. CASE m.version <= 0
        BY <1>3, <4>1 DEF Outdone
      <4>2. CASE ~Absent(cur) /\ m.version < cur.version
        BY <1>3, <4>2, SortedAdmits
      <4> QED BY <3>2, <4>1, <4>2
    <3> QED BY <1>4, <2>1, <3>1, <3>3
  <2>3. CASE ObserveOK(cur, m.version) /\ Observed(cur, m.version) = cur
    <3>1. pc'[w] = "mark" /\ eff'[w].mark = "delivered"
      BY <2>1, <2>3 DEF Decide, Goto, TypeInv, TypeOK
    <3> QED BY <1>m, <1>c, <1>1, <2>1, <2>3, <3>1, RowDelivers
  <2>4. CASE ObserveOK(cur, m.version) /\ Observed(cur, m.version) # cur
    <3>1. /\ pc'[w] = "write" /\ eff'[w].mark = "delivered"
          /\ eff'[w].row = Observed(cur, m.version)
      BY <2>1, <2>4 DEF Decide, Goto, TypeInv, TypeOK
    <3>2. Concerns(Sent(s)[n], m.replica, m.key) /\ Sent(s)[n].body.kind = "update"
      BY <1>3, <2>1 DEF Concerns
    <3>3. TellsOf(Sent(s), done \union {n}, m.replica, m.key, Observed(cur, m.version))
      BY <1>3, <2>4, <3>2, TellsUpdate
    <3>4. Sorted(Sent(s), done \union {n})
      BY <1>3, <2>4, SortedAdmits DEF ObserveOK
    <3> QED BY <1>s, <1>n, <1>d, <1>m, <1>1, <1>3, <2>1, <3>1, <3>3, <3>4, RowGoesOn
  <2> QED BY <2>2, <2>3, <2>4
<1>9. CASE HandleAck(w)
  <2>1. /\ pc[w] = "step" /\ m.kind = "ack" /\ Known(w, m.replica)
        /\ Decide(w, NoRow, "delivered", "release") \/ Refuse(w)
    BY <1>m, <1>9 DEF HandleAck, Handling, At
  <2>2. CASE Refuse(w)
    <3>1. pc'[w] = "mark" /\ eff'[w].mark = "rejected"
      BY <2>2 DEF Refuse, Decide, Goto, TypeInv, TypeOK
    <3>2. ~Advances(Sent(s)[n])
      BY <1>3, <2>1 DEF Advances
    <3> QED BY <1>4, <2>1, <3>1, <3>2
  <2>3. CASE Decide(w, NoRow, "delivered", "release")
    <3>1. pc'[w] = "release"
      BY <2>3 DEF Decide, Goto, TypeInv, TypeOK
    <3> QED BY <1>m, <1>1, <2>1, <3>1, RowGoesOn
  <2> QED BY <2>1, <2>2, <2>3
<1>10. CASE AckRelease(w)
  <2>1. pc[w] = "release" /\ pc'[w] = "confirm"
    BY <1>10 DEF AckRelease, At, Goto, TypeInv, TypeOK
  <2>2. Known(w, m.replica)
    BY <1>s, <1>n, <1>2, <1>3, <2>1 DEF Weighs
  <2> QED BY <1>m, <1>1, <2>1, <2>2, RowGoesOn
<1>11. CASE AckConfirm(w)
  <2>1. /\ pc[w] = "confirm" /\ m.kind = "ack"
        /\ IF Absent(cur) THEN Decide(w, NoRow, "delivered", "mark")
           ELSE Decide(w, Confirmed(cur), "delivered", "write")
    BY <1>m, <1>c, <1>2, <1>11 DEF AckConfirm, At, Acts
  <2>2. Known(w, m.replica)
    BY <1>s, <1>n, <1>2, <1>3, <2>1 DEF Weighs
  <2>3. CASE Absent(cur)
    <3>1. pc'[w] = "mark" /\ eff'[w].mark = "delivered"
      BY <2>1, <2>3 DEF Decide, Goto, TypeInv, TypeOK
    <3> QED BY <1>m, <1>c, <1>1, <2>1, <2>2, <2>3, <3>1, RowDelivers
  <2>4. CASE ~Absent(cur)
    <3>1. /\ pc'[w] = "write" /\ eff'[w].mark = "delivered"
          /\ eff'[w].row = Confirmed(cur)
      BY <2>1, <2>4 DEF Decide, Goto, TypeInv, TypeOK
    <3>2. Concerns(Sent(s)[n], m.replica, m.key) /\ Sent(s)[n].body.kind = "ack"
      BY <1>3, <2>1 DEF Concerns
    <3>3. TellsOf(Sent(s), done \union {n}, m.replica, m.key, Confirmed(cur))
      BY <1>3, <2>4, <3>2, TellsAck
    <3>4. Sorted(Sent(s), done \union {n})
      BY <1>3, <3>2, SortedMore DEF Advances
    <3> QED BY <1>s, <1>n, <1>d, <1>m, <1>1, <1>3, <2>1, <2>2, <3>1, <3>3, <3>4, RowGoesOn
  <2> QED BY <2>3, <2>4
<1>12. CASE Ignore(w)
  <2>1. pc'[w] = "trace"
    BY <1>12 DEF Ignore, Decide, Goto, TypeInv, TypeOK
  <2> QED BY <1>1, <2>1, RowGoesOn
<1> QED BY <1>5, <1>6, <1>7, <1>8, <1>9, <1>10, <1>11, <1>12 DEF Handle

LEMMA RowWrite ==
    ASSUME TypeInv, LogInv, StandsInv, OnceInv, RowInv, OneWorker, OneScenario,
           NEW w \in Worker, WriteRow(w)
    PROVE  RowInv'
<1>s. PICK s \in Scenario : s = view[w].sc
  BY DEF TypeInv, TypeOK, View
<1>n. PICK n : n = pos[w]
  OBVIOUS
<1>d. PICK done : done = Given(s, "delivered")
  OBVIOUS
<1>m. PICK m : m = Here(w).body
  OBVIOUS
<1>r. PICK row : row = eff[w].row
  OBVIOUS
<1>1. /\ UNCHANGED <<log, view, pos, eff>> /\ pc[w] = "write" /\ pc'[w] = "mark"
      /\ rkv' = [rkv EXCEPT ![m.replica][m.key] = eff[w].row]
  BY <1>m DEF WriteRow, At, Goto, TypeInv, TypeOK
<1>2. Due(w) /\ Weighs(w)
  BY <1>1, HandlerDue DEF RowInv
<1>3. /\ m = Sent(s)[n].body /\ m \in Body /\ Succeeds(Sent(s), done, n)
  BY <1>s, <1>n, <1>d, <1>m, <1>2 DEF Due
<1>4. /\ Known(w, Sent(s)[n].body.replica) /\ eff[w].mark = "delivered"
      /\ TellsOf(Sent(s), done \union {n}, m.replica, m.key, row)
      /\ Sorted(Sent(s), done \union {n})
  BY <1>s, <1>n, <1>d, <1>r, <1>1, <1>2, <1>3 DEF Weighs
<1>5. Puts(Sent(s)[n], row)
  <2>1. rkv \in [Replica -> [Key -> Row]] /\ m.replica \in Replica /\ m.key \in Key
    BY <1>3 DEF TypeInv, TypeOK, Body
  <2> QED BY <1>r, <1>1, <1>3, <2>1 DEF Concerns, Puts
<1>6. \A r \in Replica, k \in Key : TellsOf(Sent(s), done, r, k, rkv[r][k])
  BY <1>d DEF RowInv, Account
<1>7. \A r \in Replica, k \in Key : TellsOf(Sent(s), done \union {n}, r, k, rkv'[r][k])
  <2>1. TellsOf(Sent(s), done \union {n}, Sent(s)[n].body.replica,
                Sent(s)[n].body.key, row)
    BY <1>3, <1>4
  <2> QED BY <1>3, <1>5, <1>6, <2>1, TellsAll
<1> QED BY <1>s, <1>n, <1>d, <1>1, <1>4, <1>7, AccountDelivers

LEMMA RowMark ==
    ASSUME TypeInv, LogInv, StandsInv, OnceInv, RowInv, OneWorker, OneScenario,
           NEW w \in Worker, Mark(w)
    PROVE  RowInv'
<1>s. PICK s \in Scenario : s = view[w].sc
  BY DEF TypeInv, TypeOK, View
<1>1. /\ UNCHANGED <<rkv, view, pos, eff>> /\ pc[w] = "mark"
      /\ pc'[w] \in {"violate", "trace"}
  BY DEF Mark, At, Goto, AfterMark, TypeInv, TypeOK
<1>2. log[s] \in Seq(Message) /\ pos[w] \in DOMAIN log[s]
  BY <1>s, <1>1, AtItsMessage DEF AtMessage
<1>3. /\ DOMAIN log'[s] = DOMAIN log[s]
      /\ \A i \in DOMAIN log[s] :
            /\ log'[s][i].status = IF i = pos[w] THEN eff[w].mark ELSE log[s][i].status
            /\ log'[s][i].id = log[s][i].id /\ log'[s][i].body = log[s][i].body
  <2>1. \A m \in Message : LET n == Marked(m, Here(w), eff[w].mark) IN
           n.status = eff[w].mark /\ n.id = m.id /\ n.body = m.body
    BY DEF Marked, Message
  <2>2. log' = [log EXCEPT ![s][pos[w]] = Marked(@, Here(w), eff[w].mark)]
    BY <1>s DEF Mark
  <2>3. log'[s] = [log[s] EXCEPT ![pos[w]] = Marked(@, Here(w), eff[w].mark)]
    BY <2>2 DEF TypeInv, TypeOK
  <2>4. \A i \in DOMAIN log[s] : log[s][i] \in Message
    BY <1>2
  <2> QED BY <1>2, <2>1, <2>3, <2>4
<1>4. Sent(s)' = Sent(s)
  BY <1>3 DEF Sent
<1>5. ASSUME NEW st
      PROVE  Given(s, st)' = Given(s, st)
  <2>1. ASSUME NEW i \in DOMAIN log[s]
        PROVE  ~Marking(w, s, i)' /\ (Marking(w, s, i) <=> i = pos[w])
    BY <1>s, <1>1 DEF Marking
  <2> HIDE DEF Marking
  <2>2. Given(s, st)' = {i \in DOMAIN log'[s] : log'[s][i].status = st}
    BY <1>3, <2>1, GivenAlone
  <2>3. Given(s, st) = {i \in DOMAIN log[s] : IF i = pos[w] THEN eff[w].mark = st
                                              ELSE log[s][i].status = st}
    BY <2>1, GivenAlone
  <2> QED BY <1>3, <2>2, <2>3
<1>6. /\ Given(s, "delivered")' = Given(s, "delivered")
      /\ Given(s, "rejected")' = Given(s, "rejected")
  BY <1>5
<1>7. \A r : Known(w, r)' <=> Known(w, r)
  BY <1>1 DEF Known
<1>8. Weighs(w)'
  BY <1>s, <1>1, <1>4, <1>6, <1>7 DEF RowInv, Weighs, AtMessage
<1> QED BY <1>1, <1>3, <1>4, <1>5, <1>8, AccountSame

\* The other statements of a replay: its violation, its trace, its verdict.
LEMMA RowRest ==
    ASSUME TypeInv, RowInv, OneWorker, OneScenario,
           NEW w \in Worker, Violate(w) \/ LogEvent(w) \/ Judge(w)
    PROVE  RowInv'
<1>s. PICK s \in Scenario : s = view[w].sc
  BY DEF TypeInv, TypeOK, View
<1>1. CASE Violate(w) \/ LogEvent(w)
  <2>1. /\ UNCHANGED <<log, rkv, view>> /\ pc[w] \in {"violate", "trace"}
        /\ pc'[w] \in {"trace", "step"}
    BY <1>1 DEF Violate, LogEvent, At, Goto, TypeInv, TypeOK
  <2>2. pc[w] # "mark" /\ pc'[w] # "mark" /\ UNCHANGED <<log, rkv>>
    BY <2>1
  <2>3. /\ Given(s, "delivered")' = Given(s, "delivered")
        /\ Given(s, "rejected")' = Given(s, "rejected")
    BY <2>2, GivenSame
  <2>4. Sent(s)' = Sent(s) /\ \A r : Known(w, r)' <=> Known(w, r)
    BY <2>1 DEF Sent, Known
  <2>5. Weighs(w)'
    BY <1>s, <2>1, <2>3, <2>4 DEF RowInv, Weighs, AtMessage
  <2> QED BY <2>2, <2>5, AccountGoesOn
<1>2. CASE Judge(w)
  <2>1. /\ UNCHANGED <<log, rkv>> /\ pc[w] \in {"step", "scan", "verdict"}
        /\ pc'[w] \in {"scan", "verdict", "idle"}
    <3>1. CASE AdvanceCursor(w)
      BY <3>1 DEF AdvanceCursor, At, Goto, TypeInv, TypeOK
    <3>2. CASE \E r \in Replica, k \in Key : ScanPair(w, r, k)
      BY <3>2 DEF ScanPair, At, db
    <3>3. CASE SettleViolated(w) \/ SettleScanned(w)
      BY <3>3 DEF SettleViolated, SettleScanned, Settle, Return, At, Goto, TypeInv, TypeOK
    <3> QED BY <1>2, <3>1, <3>2, <3>3 DEF Judge
  <2>2. Weighs(w)'
    BY <2>1 DEF Weighs, AtMessage
  <2>3. pc[w] # "mark" /\ pc'[w] # "mark"
    BY <2>1
  <2> QED BY <2>1, <2>2, <2>3, AccountGoesOn
<1> QED BY <1>1, <1>2

LEMMA RowIdle ==
    ASSUME RowInv, UNCHANGED <<log, rkv, pc, view, pos, eff>>
    PROVE  RowInv'
<1>1. \A s, st : Given(s, st)' = Given(s, st)
  BY DEF Given, Marking
<1>2. \A s \in Scenario : /\ Given(s, "delivered")' = Given(s, "delivered")
                         /\ Given(s, "rejected")' = Given(s, "rejected")
                         /\ Given(s, "pending")' = Given(s, "pending")
  BY <1>1
<1>3. \A s \in Scenario : Sent(s)' = Sent(s)
  BY DEF Sent
<1>4. ASSUME NEW s \in Scenario
      PROVE  Account(s)'
  BY <1>2, <1>3 DEF RowInv, Account
<1>5. ASSUME NEW w \in Worker
      PROVE  Weighs(w)'
  <2> PICK s : s = view[w].sc
    OBVIOUS
  <2>1. /\ Given(s, "delivered")' = Given(s, "delivered")
        /\ Given(s, "rejected")' = Given(s, "rejected")
    BY <1>1
  <2>2. Sent(s)' = Sent(s) /\ (\A r : Known(w, r)' <=> Known(w, r))
        /\ (InLog(w)' <=> InLog(w))
    BY DEF Sent, Known, InLog
  <2>3. Weighs(w)
    BY DEF RowInv
  <2> QED BY <2>1, <2>2, <2>3 DEF Weighs
<1> QED BY <1>4, <1>5 DEF RowInv

LEMMA RowNext ==
    ASSUME OneWorker, OneScenario, NoCrash, NoFault
    PROVE  TypeInv /\ LogInv /\ StandsInv /\ DraftPending /\ OnceInv /\ ActsInv
           /\ RowInv /\ [Next]_vars => RowInv'
<1> SUFFICES ASSUME TypeInv, LogInv, StandsInv, DraftPending, OnceInv, ActsInv,
                    RowInv, [Next]_vars
             PROVE  RowInv'
  OBVIOUS
<1>1. CASE UNCHANGED vars \/ Tick
  BY <1>1, RowIdle DEF vars, Tick, db, local
<1>2. ~Crash /\ \A w \in Worker : ~Failure(w)
  BY DEF Crash, Failure, Abort, RowFault, MarkLost, ScanFault, Fault, NoCrash,
         NoFault, TypeInv, TypeOK
<1>3. ASSUME NEW w \in Worker, Request(w) \/ ReplayStep(w)
      PROVE  RowInv'
  BY <1>3, RowRequest, RowReading, RowHandle, RowWrite, RowMark, RowRest
     DEF ReplayStep, Record
<1> QED BY <1>1, <1>2, <1>3 DEF Next

LEMMA RowInvariant ==
    ASSUME OneWorker, OneScenario, NoCrash, NoFault
    PROVE  Spec => []RowInv
<1>1. Init => RowInv
  <2> SUFFICES ASSUME Init PROVE RowInv
    OBVIOUS
  <2>1. ASSUME NEW s \in Scenario
        PROVE  Account(s)
    <3>1. DOMAIN log[s] = {} /\ \A r \in Replica, k \in Key : rkv[r][k] = NoRow
      BY DEF Init
    <3>2. Given(s, "delivered") = {} /\ Given(s, "rejected") = {}
      BY <3>1 DEF Given
    <3>3. \A r \in Replica, k \in Key : TellsOf(Sent(s), {}, r, k, rkv[r][k])
      BY <3>1 DEF TellsOf, Moves, Confirms, Absent, NoRow
    <3> QED BY <3>1, <3>2, <3>3 DEF Account, Sorted
  <2>2. \A w \in Worker : Weighs(w)
    BY DEF Init, Weighs, AtMessage
  <2> QED BY <2>1, <2>2 DEF RowInv
<1> QED BY <1>1, OnceInvariant, ActsInvariant, RowNext, PTL DEF Spec

\* When a scenario has its verdict, all that is given is written.
LEMMA SettledGiven ==
    ASSUME TypeInv, StandsInv, NEW s \in Scenario, status[s] \in Settled, NEW st
    PROVE  Given(s, st) = {i \in DOMAIN log[s] : log[s][i].status = st}
<1>1. ASSUME NEW w \in Worker, NEW i
      PROVE  ~Marking(w, s, i)
  <2>1. pc[w] = "mark" /\ view[w].sc = s => status[s] = "replaying"
    BY DEF StandsInv, Stands, Reads, AtMessage
  <2> QED BY <2>1 DEF Marking, Settled, Final
<1> QED BY <1>1 DEF Given

\* The rows go by what a message says.
LEMMA TellsBodies ==
    ASSUME NEW msgs, NEW those, NEW r, NEW k, NEW row, NEW l,
           \A i \in those : msgs[i].body = l[i].body
    PROVE  TellsOf(msgs, those, r, k, row) <=> TellsOf(l, those, r, k, row)
<1>1. /\ Moves(msgs, those, r, k) = Moves(l, those, r, k)
      /\ Confirms(msgs, those, r, k) = Confirms(l, those, r, k)
  BY DEF Moves, Confirms, Advances, Concerns
<1>2. \A i \in Moves(l, those, r, k) : msgs[i].body = l[i].body
  BY DEF Moves
<1>3. {i \in Moves(l, those, r, k) : msgs[i].body.version = row.version}
      = {i \in Moves(l, those, r, k) : l[i].body.version = row.version}
  BY <1>2
<1> QED BY <1>1, <1>2, <1>3 DEF TellsOf

\* Requests one after the other and nothing failing, on one scenario, the rows
\* a replay leaves behind say what the delivered messages of its log say, though
\* each message has its effect statement by statement.
THEOREM RowsAlwaysFollowLog ==
    ASSUME OneWorker, OneScenario, NoCrash, NoFault
    PROVE  Spec => []RowsFollowLog
<1>1. TypeInv /\ StandsInv /\ RowInv => RowsFollowLog
  <2> SUFFICES ASSUME TypeInv, StandsInv, RowInv, NEW s \in Scenario,
                      status[s] \in Settled, NEW r \in Replica, NEW k \in Key
               PROVE  TellsOf(log[s], {i \in DOMAIN log[s] : Delivered(s, i)}, r, k,
                              rkv[r][k])
    BY DEF RowsFollowLog
  <2>1. Given(s, "delivered") = {i \in DOMAIN log[s] : Delivered(s, i)}
    BY SettledGiven DEF Delivered
  <2>2. TellsOf(Sent(s), Given(s, "delivered"), r, k, rkv[r][k])
    BY DEF RowInv, Account
  <2>3. \A i \in Given(s, "delivered") : Sent(s)[i].body = log[s][i].body
    BY <2>1, SentBody
  <2>4. TellsOf(log[s], Given(s, "delivered"), r, k, rkv[r][k])
    BY <2>2, <2>3, TellsBodies
  <2> QED BY <2>1, <2>4
<1> QED BY <1>1, RowInvariant, StandsInvariant, TypeInvariant, PTL

-----------------------------------------------------------------------------
(* The audit against the engine *)

\* Without a worker nothing is ever judged.
Served == Worker # {} \/ \A s \in Scenario : status[s] = "editing"

LEMMA ServedInvariant == Spec => []Served
<1>1. Init => Served
  BY DEF Init, Served
<1>2. Served /\ [Next]_vars => Served'
  BY DEF Served, Next, Tick, Crash, vars, db
<1> QED BY <1>1, <1>2, PTL DEF Spec

\* A verdict comes when every message has been handled.
LEMMA SettledIsHandled ==
    ASSUME TypeInv, StandsInv, OnceInv, Served, NEW s \in Scenario,
           status[s] \in Settled
    PROVE  \A i \in DOMAIN log[s] :
              log[s][i].body.kind # "other" => log[s][i].status # "pending"
<1>1. PICK w \in Worker : TRUE
  BY DEF Served, Settled, Final
<1>2. Len(trace[s]) = Len(log[s])
  <2>1. CASE Replays(w, s)
    <3>1. Stands(w) /\ Follows(w) /\ status[s] # "replaying" /\ cursor[s] = Len(log[s])
      BY DEF StandsInv, OnceInv, SettledCoversLog, Settled, Final
    <3>2. pc[w] = "begin"
      BY <2>1, <3>1 DEF Replays, Replaying, Early, Stands, Reads, AtMessage
    <3> QED BY <2>1, <3>1, <3>2 DEF Replays, Stands, Follows, Early
  <2>2. CASE ~Replays(w, s)
    BY <2>2 DEF OnceInv, Rests
  <2> QED BY <2>1, <2>2
<1> QED BY <1>2, SentBody DEF OnceInv, Counts

\* Requests one after the other and nothing failing, on one scenario, the audit
\* of a log that has been judged complains about what the engine refused for
\* its version, and about nothing else.
THEOREM AuditAlwaysAgrees ==
    ASSUME OneWorker, OneScenario, NoCrash, NoFault
    PROVE  Spec => []AuditAgrees
<1>1. TypeInv /\ StandsInv /\ OnceInv /\ Served /\ RowInv => AuditAgrees
  <2> SUFFICES ASSUME TypeInv, StandsInv, OnceInv, Served, RowInv,
                      NEW s \in Scenario, status[s] \in Settled,
                      NEW i \in DOMAIN log[s],
                      Advances(log[s][i]), log[s][i].body.version > 0,
                      NEW d \in DOMAIN log[s], Delivered(s, d),
                      log[s][d].body.replica = log[s][i].body.replica
               PROVE  i \in CheckMonotonicObservations(log[s])
                      <=> log[s][i].status = "rejected"
    BY DEF AuditAgrees
  <2> DEFINE b       == log[s][i].body
             msgs    == Sent(s)
             done    == Given(s, "delivered")
             refused == Given(s, "rejected")
             moves   == Moves(msgs, done, b.replica, b.key)
             earlier == {j \in 1 .. i - 1 :
                           /\ Advances(log[s][j]) /\ Concerns(log[s][j], b.replica, b.key)
                           /\ log[s][j].body.version > b.version}
  <2>1. /\ log[s] \in Seq(Message) /\ Len(log[s]) \in Nat
        /\ DOMAIN log[s] = 1 .. Len(log[s])
        /\ \A j \in DOMAIN log[s] : /\ msgs[j].body = log[s][j].body
                                    /\ log[s][j].body \in Body
    BY SentBody
  <2>2. /\ done = {j \in DOMAIN log[s] : log[s][j].status = "delivered"}
        /\ refused = {j \in DOMAIN log[s] : log[s][j].status = "rejected"}
        /\ Given(s, "pending") = {j \in DOMAIN log[s] : log[s][j].status = "pending"}
    BY SettledGiven
  <2>3. \A j \in DOMAIN log[s] : Advances(log[s][j]) => j \in done \union refused
    <3> SUFFICES ASSUME NEW j \in DOMAIN log[s], Advances(log[s][j])
                 PROVE  j \in done \union refused
      OBVIOUS
    <3>1. Advances(msgs[j]) /\ log[s][j].status # "pending"
      BY <2>1, SettledIsHandled DEF Advances
    <3> QED BY <2>2, <3>1 DEF RowInv, Account
  <2>4. \A j \in refused : Advances(log[s][j]) /\ log[s][j].body.replica = b.replica
                          => Outdone(msgs, done, j)
    <3> SUFFICES ASSUME NEW j \in refused, Advances(log[s][j]),
                        log[s][j].body.replica = b.replica
                 PROVE  Outdone(msgs, done, j)
      OBVIOUS
    <3>1. d \in done /\ msgs[d].body.replica = msgs[j].body.replica /\ Advances(msgs[j])
      BY <2>1, <2>2 DEF Delivered, Advances
    <3> QED BY <3>1 DEF RowInv, Account
  <2>5. i \in CheckMonotonicObservations(log[s]) <=> earlier # {}
    <3>1. b.version \in Int /\ ~(b.version < 0)
      BY <2>1 DEF Body
    <3> QED BY <2>1, <3>1, AuditIsPairwise
  <2>6. \A j \in moves : j \in DOMAIN log[s] /\ Advances(log[s][j])
                        /\ Concerns(log[s][j], b.replica, b.key)
    BY <2>1, <2>2 DEF Moves, Advances, Concerns
  <2>7. CASE i \in refused
    <3>1. Outdone(msgs, done, i)
      BY <2>4, <2>7
    <3>2. PICK j \in moves : j < i /\ msgs[j].body.version > b.version
      <4>1. ~(msgs[i].body.version <= 0)
        BY <2>1 DEF Body
      <4> QED BY <2>1, <3>1, <4>1 DEF Outdone
    <3>3. j \in earlier
      BY <2>1, <2>6, <3>2
    <3> QED BY <2>2, <2>5, <2>7, <3>3
  <2>8. CASE i \in done
    <3>1. \A j \in moves : j < i => log[s][j].body.version <= b.version
      BY <2>1, <2>2, <2>8 DEF RowInv, Account, Sorted, Advances, Moves
    <3>2. ASSUME NEW j \in earlier
          PROVE  FALSE
      <4>1. /\ j \in DOMAIN log[s] /\ j < i /\ Advances(log[s][j])
            /\ log[s][j].body.replica = b.replica /\ log[s][j].body.key = b.key
            /\ log[s][j].body.version > b.version
        BY <2>1 DEF Concerns
      <4>2. CASE j \in done
        <5>1. j \in moves
          BY <2>1, <4>1, <4>2 DEF Moves, Advances, Concerns
        <5>2. log[s][j].body.version \in Int /\ b.version \in Int
          BY <2>1, <4>1 DEF Body
        <5> QED BY <3>1, <4>1, <5>1, <5>2
      <4>3. CASE j \in refused
        <5>1. Outdone(msgs, done, j)
          BY <2>4, <4>1, <4>3
        <5>2. log[s][j].body.version \in Int /\ b.version \in Int
          BY <2>1, <4>1 DEF Body
        <5>3. PICK h \in moves : /\ h < j
                                 /\ log[s][h].body.version > log[s][j].body.version
          <6>1. /\ msgs[j].body = log[s][j].body
                /\ \A h \in moves : msgs[h].body = log[s][h].body
            BY <2>1, <2>6, <4>1
          <6>2. ~(msgs[j].body.version <= 0)
            BY <2>1, <4>1, <5>2, <6>1
          <6>3. \E h \in Moves(msgs, done, msgs[j].body.replica, msgs[j].body.key) :
                   h < j /\ msgs[h].body.version > msgs[j].body.version
            BY <5>1, <6>2 DEF Outdone
          <6>4. \E h \in moves : h < j /\ msgs[h].body.version > msgs[j].body.version
            BY <4>1, <6>1, <6>3
          <6> HIDE DEF moves, msgs
          <6> QED BY <6>1, <6>4
        <5>4. log[s][h].body.version \in Int /\ h \in Int /\ j \in Int /\ i \in Int
          BY <2>1, <2>6, <4>1 DEF Body
        <5> QED BY <3>1, <4>1, <5>2, <5>3, <5>4
      <4> QED BY <2>3, <4>1, <4>2, <4>3
    <3> QED BY <2>2, <2>5, <2>8, <3>2
  <2> QED BY <2>3, <2>7, <2>8
<1> QED BY <1>1, RowInvariant, ServedInvariant, OnceInvariant, PTL

=============================================================================
