-------------------------- MODULE MessageFold_proofs --------------------------
(***************************************************************************)
(* Proofs about the two folds of one thread's chunks (MessageFold), for    *)
(* any calls, parts, deltas, turns and model responses: the server's       *)
(* reducer and the client's show the same message, each delta is in the    *)
(* part whose start it followed, and a turn that ends leaves nothing       *)
(* running.                                                                *)
(*                                                                         *)
(* One step of the run writes a list of chunks, of no bounded length, and  *)
(* both reducers fold it.  The lemmas go from a chunk (what the reducers   *)
(* do to a call's part and to the others) to an entry of the log, from an  *)
(* entry to a list, and from a list to the action that writes it.          *)
(***************************************************************************)
EXTENDS MessageFold, FiniteSetTheorems, SequenceTheorems, WellFoundedInduction, TLAPS

-----------------------------------------------------------------------------
(* Numbers and sequences. *)

\* A set of numbers that is not empty has a least one.
LEMMA LeastNat ==
    ASSUME NEW S \in SUBSET Nat, S # {}
    PROVE  \E i \in S : \A j \in S : i <= j
  <1>1. PICK i \in S : \A j \in S : <<j, i>> \notin OpToRel(<, Nat)
    BY WFMin, NatLessThanWellFounded, Zenon
  <1>2. \A j \in S : ~(j < i)
    BY <1>1, Zenon DEF OpToRel
  <1>3. \A j \in S : i <= j
    BY <1>2
  <1>4. QED
    BY <1>3

\* A set that holds 0 and with each number the next holds all of them.
LEMMA UpTo ==
    ASSUME NEW n \in Nat, NEW S, 0 \in S, \A i \in 1..n : i - 1 \in S => i \in S
    PROVE  \A i \in 0..n : i \in S
  <1> DEFINE bad == {i \in 0..n : i \notin S}
  <1>1. SUFFICES ASSUME bad # {} PROVE FALSE
    OBVIOUS
  <1>2. bad \in SUBSET Nat
    OBVIOUS
  <1> HIDE DEF bad
  <1>3. PICK i \in bad : \A j \in bad : i <= j
    BY <1>1, <1>2, LeastNat
  <1> USE DEF bad
  <1>4. i \in 1..n /\ i \notin S /\ i - 1 \in 0..n
    BY <1>3
  <1>5. i - 1 \in S
    BY <1>3, <1>4
  <1>6. QED
    BY <1>4, <1>5

\* SetToSeq lists each member of a finite set once.
LEMMA Listed ==
    ASSUME NEW S, IsFiniteSet(S)
    PROVE  /\ SetToSeq(S) \in Seq(S)
           /\ DOMAIN SetToSeq(S) = 1..Len(SetToSeq(S)) /\ Len(SetToSeq(S)) \in Nat
           /\ \A i \in DOMAIN SetToSeq(S) : SetToSeq(S)[i] \in S
           /\ \A x \in S : \E i \in DOMAIN SetToSeq(S) : SetToSeq(S)[i] = x
  <1> DEFINE n == Cardinality(S)
             q == SetToSeq(S)
  <1>1. n \in Nat /\ ExistsBijection(1..n, S)
    BY FS_CardinalityType
  <1>2. PICK f \in [1..n -> S] : IsInjective(f)
    BY <1>1 DEF ExistsBijection, Bijection, Injection, IsInjective
  <1>3. q \in [1..n -> S] /\ IsInjective(q)
    BY <1>2 DEF SetToSeq
  <1> HIDE DEF q
  <1>4. q \in Seq(S) /\ Len(q) = n /\ DOMAIN q = 1..n
    BY <1>1, <1>3
  <1>5. ASSUME NEW x \in S, \A i \in 1..n : q[i] # x PROVE FALSE
    <2>1. IsFiniteSet(S \ {x}) /\ Cardinality(S \ {x}) = n - 1
      BY FS_RemoveElement
    <2>2. IsFiniteSet(1..n) /\ Cardinality(1..n) = n
      BY <1>1, FS_Interval
    <2>3. q \in [1..n -> S \ {x}]
      BY <1>3, <1>5
    <2>4. \E i, j \in 1..n : i # j /\ q[i] = q[j]
      BY <1>1, <2>1, <2>2, <2>3, FS_PigeonHole
    <2>5. QED
      BY <1>3, <1>4, <2>4 DEF IsInjective
  <1>6. QED
    BY <1>1, <1>3, <1>4, <1>5 DEF q

-----------------------------------------------------------------------------
(* The folds over a list of chunks. *)

\* The logs after each of the first n chunks.
LogsOf(g, log, q, n) == g = [i \in 0..n |-> IF i = 0 THEN log ELSE LogEntry(g[i - 1], q[i])]

LEMMA LogsExist ==
    ASSUME NEW log, NEW q, NEW n \in Nat
    PROVE  \E g : LogsOf(g, log, q, n)
  <1> DEFINE good == {k \in 0..n : \E g : LogsOf(g, log, q, k)}
  <1>1. 0 \in good
    <2>1. LogsOf([i \in 0..0 |-> log], log, q, 0)
      BY DEF LogsOf
    <2>2. QED
      BY <2>1
  <1>2. ASSUME NEW k \in 1..n, k - 1 \in good PROVE k \in good
    <2>1. PICK h : LogsOf(h, log, q, k - 1)
      BY <1>2
    <2> DEFINE g == [i \in 0..k |-> IF i = k THEN LogEntry(h[k - 1], q[k]) ELSE h[i]]
    <2>2. ASSUME NEW i \in 0..k PROVE g[i] = IF i = 0 THEN log ELSE LogEntry(g[i - 1], q[i])
      <3>1. CASE i = 0
        BY <2>1, <3>1 DEF LogsOf
      <3>2. CASE i = k
        BY <1>2, <3>2
      <3>3. CASE i # 0 /\ i # k
        <4>1. i \in 0..(k - 1) /\ i - 1 \in 0..k /\ i - 1 # k
          BY <3>3
        <4>2. h[i] = LogEntry(h[i - 1], q[i])
          BY <2>1, <3>3, <4>1 DEF LogsOf
        <4> QED
          BY <3>3, <4>1, <4>2
      <3> QED
        BY <3>1, <3>2, <3>3
    <2>3. g = [i \in 0..k |-> g[i]]
      OBVIOUS
    <2>4. LogsOf(g, log, q, k)
      BY <2>2, <2>3 DEF LogsOf
    <2> HIDE DEF g
    <2> QED
      BY <2>4
  <1> HIDE DEF good
  <1>3. n \in good
    BY <1>1, <1>2, UpTo
  <1> QED
    BY <1>3 DEF good

\* The logs LogAll passes through: it ends on the last.
LEMMA LogAllSteps ==
    ASSUME NEW log, NEW q, Len(q) \in Nat
    PROVE  \E g : /\ g[0] = log /\ LogAll(log, q) = g[Len(q)]
                  /\ \A i \in 1..Len(q) : g[i] = LogEntry(g[i - 1], q[i])
  <1> DEFINE n == Len(q)
             g == CHOOSE g : LogsOf(g, log, q, n)
  <1>1. LogsOf(g, log, q, n)
    BY LogsExist
  <1>2. LogAll(log, q) = g[n]
    BY DEF LogAll, LogsOf
  <1> HIDE DEF g
  <1>3. g[0] = log /\ \A i \in 1..n : g[i] = LogEntry(g[i - 1], q[i])
    BY <1>1 DEF LogsOf
  <1> QED
    BY <1>2, <1>3

LEMMA LogNone == \A log : LogAll(log, <<>>) = log
  <1>1. Len(<<>>) = 0
    OBVIOUS
  <1> QED
    BY <1>1, LogAllSteps

LEMMA LogOne == \A log, a : LogAll(log, <<a>>) = LogEntry(log, a)
  <1> TAKE log, a
  <1>1. Len(<<a>>) = 1 /\ <<a>>[1] = a
    OBVIOUS
  <1> QED
    BY <1>1, LogAllSteps

LEMMA LogTwo == \A log, a, b : LogAll(log, <<a, b>>) = LogEntry(LogEntry(log, a), b)
  <1> TAKE log, a, b
  <1> DEFINE q == <<a, b>>
  <1>1. Len(q) = 2 /\ q[1] = a /\ q[2] = b
    OBVIOUS
  <1>2. PICK g : /\ g[0] = log /\ LogAll(log, q) = g[Len(q)]
                 /\ \A i \in 1..Len(q) : g[i] = LogEntry(g[i - 1], q[i])
    BY <1>1, LogAllSteps
  <1> HIDE DEF q
  <1>3. g[1] = LogEntry(g[0], a) /\ g[2] = LogEntry(g[1], b)
    BY <1>1, <1>2
  <1> QED
    BY <1>1, <1>2, <1>3 DEF q

LEMMA LogConcat ==
    ASSUME NEW log, NEW S, NEW q \in Seq(S), NEW r \in Seq(S)
    PROVE  LogAll(log, q \o r) = LogAll(LogAll(log, q), r)
  <1> DEFINE n == Len(q)
             m == Len(r)
             qr == q \o r
  <1>1. n \in Nat /\ m \in Nat /\ Len(qr) = n + m /\ Len(qr) \in Nat
        /\ (\A i \in 1..n : qr[i] = q[i]) /\ (\A i \in 1..m : qr[n + i] = r[i])
    <2>1. Len(q) \in Nat /\ Len(r) \in Nat
      BY LenProperties
    <2>2. Len(qr) = Len(q) + Len(r)
      BY ConcatProperties
    <2>3. \A i \in 1..(Len(q) + Len(r)) : qr[i] = IF i <= Len(q) THEN q[i] ELSE r[i - Len(q)]
      BY ConcatProperties
    <2>4. \A i \in 1..Len(q) : qr[i] = q[i]
      BY <2>1, <2>3
    <2>5. ASSUME NEW i \in 1..Len(r) PROVE qr[Len(q) + i] = r[i]
      <3>1. Len(q) + i \in 1..(Len(q) + Len(r)) /\ ~(Len(q) + i <= Len(q)) /\ (Len(q) + i) - Len(q) = i
        BY <2>1
      <3> HIDE DEF qr
      <3> QED
        BY <2>3, <3>1
    <2> HIDE DEF qr
    <2> QED
      BY <2>1, <2>2, <2>4, <2>5
  <1>2. PICK h : h[0] = log /\ LogAll(log, q) = h[n] /\ \A i \in 1..n : h[i] = LogEntry(h[i - 1], q[i])
    BY <1>1, LogAllSteps
  <1>3. PICK k : /\ k[0] = h[n] /\ LogAll(h[n], r) = k[m]
                 /\ \A i \in 1..m : k[i] = LogEntry(k[i - 1], r[i])
    BY <1>1, LogAllSteps
  <1> HIDE DEF qr
  <1>4. PICK g : /\ g[0] = log /\ LogAll(log, qr) = g[n + m]
                 /\ \A i \in 1..(n + m) : g[i] = LogEntry(g[i - 1], qr[i])
    <2>1. PICK z : z = qr
      OBVIOUS
    <2>2. Len(z) \in Nat /\ Len(z) = n + m
      BY <1>1, <2>1
    <2>3. PICK g : /\ g[0] = log /\ LogAll(log, z) = g[Len(z)]
                   /\ \A i \in 1..Len(z) : g[i] = LogEntry(g[i - 1], z[i])
      BY <2>2, LogAllSteps
    <2> QED
      BY <2>1, <2>2, <2>3
  <1> HIDE DEF n, m
  <1> DEFINE A == {i \in 0..n : g[i] = h[i]}
             B == {i \in 0..m : g[n + i] = k[i]}
  <1>5. 0 \in A /\ \A i \in 1..n : i - 1 \in A => i \in A
    <2>1. 0 \in A
      BY <1>1, <1>2, <1>4
    <2>2. ASSUME NEW i \in 1..n, i - 1 \in A PROVE i \in A
      <3>1. i \in 0..n /\ i \in 1..(n + m) /\ g[i - 1] = h[i - 1]
        BY <1>1, <2>2
      <3>2. g[i] = LogEntry(g[i - 1], qr[i]) /\ h[i] = LogEntry(h[i - 1], q[i])
        BY <1>2, <1>4, <3>1
      <3>3. qr[i] = q[i]
        BY <1>1
      <3> QED
        BY <3>1, <3>2, <3>3
    <2> QED
      BY <2>1, <2>2
  <1>6. g[n] = h[n]
    <2> HIDE DEF A
    <2>1. \A i \in 0..n : i \in A
      BY <1>1, <1>5, UpTo
    <2>2. n \in A
      BY <1>1, <2>1
    <2> QED
      BY <2>2 DEF A
  <1>7. 0 \in B
    BY <1>1, <1>3, <1>6
  <1>8. ASSUME NEW i \in 1..m, i - 1 \in B PROVE i \in B
    <2>1. n + i \in 1..(n + m) /\ (n + i) - 1 = n + (i - 1)
      BY <1>1
    <2>2. g[n + i] = LogEntry(g[n + (i - 1)], qr[n + i])
      BY <1>4, <2>1
    <2> QED
      BY <1>1, <1>3, <1>8, <2>2
  <1>9. g[n + m] = k[m]
    <2> HIDE DEF B
    <2>1. \A i \in 0..m : i \in B
      BY <1>1, <1>7, <1>8, UpTo
    <2>2. m \in B
      BY <1>1, <2>1
    <2> QED
      BY <2>2 DEF B
  <1> QED
    BY <1>2, <1>3, <1>4, <1>9 DEF n, m, qr

-----------------------------------------------------------------------------
(* The gate over a list of chunks. *)

TextKinds == {"text", "reasoning"}

AccsOf(g, held, q, n) ==
    g = [i \in 0..n |-> IF i = 0 THEN [held |-> held, out |-> <<>>] ELSE Admit(g[i - 1], q[i])]

\* One chunk through the gate.
LEMMA AdmitOne ==
    \A held, ch : AdmitAll(held, <<ch>>) = Admit([held |-> held, out |-> <<>>], ch)
  <1> TAKE held, ch
  <1> DEFINE base == [held |-> held, out |-> <<>>]
             w == [i \in 0..1 |-> IF i = 0 THEN base ELSE Admit(base, ch)]
             g == CHOOSE g : AccsOf(g, held, <<ch>>, 1)
  <1>1. Len(<<ch>>) = 1 /\ <<ch>>[1] = ch
    OBVIOUS
  <1>2. AccsOf(w, held, <<ch>>, 1)
    BY <1>1 DEF AccsOf
  <1> HIDE DEF w
  <1>3. AccsOf(g, held, <<ch>>, 1)
    BY <1>2
  <1>4. AdmitAll(held, <<ch>>) = g[1]
    BY <1>1 DEF AdmitAll, AccsOf
  <1> HIDE DEF g
  <1>5. g[0] = base /\ g[1] = Admit(g[0], ch)
    BY <1>1, <1>3 DEF AccsOf
  <1> QED
    BY <1>4, <1>5

\* The gate holds back text and reasoning alone.
LEMMA AdmitPlain ==
    ASSUME NEW held, NEW S, NEW q \in Seq(S), \A i \in 1..Len(q) : q[i].k \notin TextKinds
    PROVE  AdmitAll(held, q) = [held |-> held, out |-> q]
  <1> DEFINE n == Len(q)
             at(i) == [held |-> held, out |-> SubSeq(q, 1, i)]
             w == [i \in 0..n |-> at(i)]
             g == CHOOSE g : AccsOf(g, held, q, n)
  <1>1. n \in Nat
    BY LenProperties
  <1>2. at(0) = [held |-> held, out |-> <<>>]
    BY SubSeqEmpty
  <1>3. ASSUME NEW i \in 1..n PROVE at(i) = Admit(at(i - 1), q[i])
    <2>1. SubSeq(q, 1, i) = Append(SubSeq(q, 1, i - 1), q[i])
      <3>1. SubSeq(q, 1, i) = SubSeq(q, 1, i - 1) \o <<q[i]>>
        BY <1>1, SubSeqRecursiveSecond
      <3>2. SubSeq(q, 1, i - 1) \in Seq(S) /\ q[i] \in S
        BY <1>1, SubSeqProperties, ElementOfSeq
      <3> QED
        BY <3>1, <3>2, AppendIsConcat
    <2> QED
      BY <2>1 DEF Admit, TextKinds
  <1> HIDE DEF at
  <1>4. AccsOf(w, held, q, n)
    <2>1. ASSUME NEW i \in 0..n
          PROVE  at(i) = IF i = 0 THEN [held |-> held, out |-> <<>>] ELSE Admit(w[i - 1], q[i])
      BY <1>1, <1>2, <1>3
    <2> QED
      BY <2>1 DEF AccsOf
  <1> HIDE DEF w
  <1>5. AccsOf(g, held, q, n)
    BY <1>4
  <1>6. AdmitAll(held, q) = g[n]
    BY DEF AdmitAll, AccsOf
  <1> HIDE DEF g
  <1> DEFINE A == {i \in 0..n : g[i] = at(i)}
  <1>7. 0 \in A /\ \A i \in 1..n : i - 1 \in A => i \in A
    BY <1>1, <1>2, <1>3, <1>5 DEF AccsOf
  <1> HIDE DEF A
  <1>8. \A i \in 0..n : i \in A
    BY <1>1, <1>7, UpTo
  <1>9. g[n] = at(n) /\ SubSeq(q, 1, n) = q
    BY <1>1, <1>8, SubSeqFull DEF A
  <1> QED
    BY <1>6, <1>9 DEF at

-----------------------------------------------------------------------------
(* Types of the two folds. *)

Words == {"none", "text", "reasoning", "tool", "file", "step", "tool-approval", "task-progress",
          "turn-usage", "turn-failed", "turn-stopped", "turn-withdrawn",
          "streaming", "done", "input-streaming", "input-available", "approval-requested",
          "output-available", "output-error", "output-denied",
          "asked", "yes", "no", "ok", "corrected", "stop", "other", "error", "new", "same"}
Ids == (1..MaxParts) \cup Calls \cup {None, "lane"}
Vals == {"none", "args", "text", "yes", "no", None} \cup Nat \cup {User(n) : n \in Nat}
PartT == [k : Words, id : Ids, st : Words, txt : Seq(Nat), in : Vals, ap : Words, sm : Words]
Fns(K, V) == UNION {[D -> V] : D \in SUBSET K}
Keys == Words \X Ids
Track == [pos : Nat, in : Vals, asked : BOOLEAN, sm : Words]

SrvT == [parts : Seq(PartT), active : Fns(Keys, Nat), partial : SUBSET Calls,
         asked : SUBSET Calls, fin : Words, meta : SUBSET Words]
CliT == [parts : Seq(PartT), at : Fns(Keys, Nat), tools : Fns(Calls, Track), errors : Nat,
         fin : Words, meta : SUBSET Words]

LEMMA PutFns ==
    ASSUME NEW K, NEW V, NEW f \in Fns(K, V), NEW x \in K, NEW v \in V
    PROVE  /\ Put(f, x, v) \in Fns(K, V) /\ DOMAIN Put(f, x, v) = DOMAIN f \cup {x}
           /\ Put(f, x, v)[x] = v /\ \A y \in DOMAIN f : y # x => Put(f, x, v)[y] = f[y]
  <1>1. PICK D \in SUBSET K : f \in [D -> V]
    BY DEF Fns
  <1>2. Put(f, x, v) \in [D \cup {x} -> V]
    BY <1>1 DEF Put
  <1>3. D \cup {x} \in SUBSET K
    OBVIOUS
  <1>4. Put(f, x, v) \in Fns(K, V)
    BY <1>2, <1>3 DEF Fns
  <1> QED
    BY <1>1, <1>4 DEF Put

LEMMA WithoutFns ==
    ASSUME NEW K, NEW V, NEW f \in Fns(K, V), NEW S
    PROVE  /\ Without(f, S) \in Fns(K, V) /\ DOMAIN Without(f, S) = DOMAIN f \ S
           /\ \A y \in DOMAIN f \ S : Without(f, S)[y] = f[y]
  <1>1. PICK D \in SUBSET K : f \in [D -> V]
    BY DEF Fns
  <1>2. Without(f, S) \in [D \ S -> V]
    BY <1>1 DEF Without
  <1>3. D \ S \in SUBSET K
    OBVIOUS
  <1>4. Without(f, S) \in Fns(K, V)
    BY <1>2, <1>3 DEF Fns
  <1> QED
    BY <1>1, <1>4 DEF Without

LEMMA ChangeFns ==
    ASSUME NEW K, NEW V, NEW f \in Fns(K, V), NEW x \in DOMAIN f, NEW v \in V
    PROVE  /\ [f EXCEPT ![x] = v] \in Fns(K, V) /\ DOMAIN [f EXCEPT ![x] = v] = DOMAIN f
           /\ [f EXCEPT ![x] = v][x] = v /\ \A y \in DOMAIN f : y # x => [f EXCEPT ![x] = v][y] = f[y]
  <1>1. PICK D \in SUBSET K : f \in [D -> V]
    BY DEF Fns
  <1>2. [f EXCEPT ![x] = v] \in [D -> V]
    BY <1>1
  <1> QED
    BY <1>1, <1>2 DEF Fns

LEMMA FnsFacts ==
    ASSUME NEW K, NEW V, NEW f \in Fns(K, V)
    PROVE  DOMAIN f \subseteq K /\ \A x \in DOMAIN f : f[x] \in V
  BY DEF Fns

LEMMA EmptyFns == \A K, V : << >> \in Fns(K, V) /\ DOMAIN << >> = {}
  <1> TAKE K, V
  <1>1. << >> \in [{} -> V] /\ {} \in SUBSET K
    OBVIOUS
  <1> QED
    BY <1>1 DEF Fns

-----------------------------------------------------------------------------
(* The relation between the server's fold and the client's. *)

\* Two parts the folds agree on.
PartsAgree(p, q) ==
    /\ p.k = q.k /\ p.id = q.id /\ p.txt = q.txt /\ p.sm = q.sm
    /\ p.st # "input-streaming" => p.st = q.st /\ p.ap = q.ap
    /\ p.st \notin {"input-streaming", "output-error"} => p.in = q.in
    /\ p.k # "tool" => p.st = q.st /\ p.ap = q.ap /\ p.in = q.in

Agree(s, t) ==
    /\ Len(s.parts) = Len(t.parts) /\ s.meta = t.meta /\ s.fin = t.fin
    /\ \A i \in DOMAIN s.parts : PartsAgree(s.parts[i], t.parts[i])

\* The client's track of a call knows what the server reads off its part.
Tracks(s, t) ==
    /\ \A c \in DOMAIN t.tools :
          LET r == t.tools[c]
          IN  /\ r.pos \in DOMAIN t.parts /\ t.parts[r.pos].k = "tool" /\ t.parts[r.pos].id = c
              /\ r.in = t.parts[r.pos].in /\ r.sm = t.parts[r.pos].sm
              /\ r.asked <=> c \in s.asked
              /\ c \notin s.asked => s.parts[r.pos].ap = "none"
    /\ \A i \in DOMAIN t.parts : t.parts[i].k = "tool" =>
          /\ t.parts[i].id \in DOMAIN t.tools /\ t.tools[t.parts[i].id].pos = i
          /\ t.parts[i].txt = <<>>
    /\ s.asked \subseteq DOMAIN t.tools /\ s.partial \subseteq DOMAIN t.tools

\* Where the folds find the other parts.
Placed(s, t) ==
    /\ \A key \in DOMAIN t.at :
          t.at[key] \in DOMAIN t.parts /\ key = <<t.parts[t.at[key]].k, t.parts[t.at[key]].id>>
    /\ \A key \in DOMAIN s.active :
          key[1] \in TextKinds /\ key \in DOMAIN t.at /\ s.active[key] = t.at[key]
    /\ \A i \in DOMAIN t.parts : t.parts[i].k \in DataKinds =>
          /\ t.parts[i].id # None =>
                LET key == <<t.parts[i].k, t.parts[i].id>> IN key \in DOMAIN t.at /\ t.at[key] = i
          /\ \A p \in {s.parts[i], t.parts[i]} :
                p.st = "none" /\ p.txt = <<>> /\ p.ap = "none" /\ p.sm = "none"

\* The client's fold t follows the server's fold s.
Sim(s, t) == s \in SrvT /\ t \in CliT /\ Agree(s, t) /\ Tracks(s, t) /\ Placed(s, t)

\* What the folds hold of a call.
Gone == [here |-> FALSE, srv |-> "none", cli |-> "none", asked |-> FALSE, partial |-> FALSE]
View(s, t, c) ==
    IF c \notin DOMAIN t.tools THEN Gone
    ELSE [here |-> TRUE, srv |-> s.parts[t.tools[c].pos].st, cli |-> t.parts[t.tools[c].pos].st,
          asked |-> c \in s.asked, partial |-> c \in s.partial]

\* The text and reasoning parts of a fold are as they were.
TextSame(old, new) ==
    \A i \in DOMAIN new : new[i].k \in TextKinds => i \in DOMAIN old /\ old[i] = new[i]

LEMMA SeqFacts ==
    ASSUME NEW q \in Seq(PartT)
    PROVE  Len(q) \in Nat /\ DOMAIN q = 1..Len(q) /\ \A i \in DOMAIN q : q[i] \in PartT
  BY LenProperties, ElementOfSeq

LEMMA AppendFacts ==
    ASSUME NEW q \in Seq(PartT), NEW p \in PartT
    PROVE  /\ Append(q, p) \in Seq(PartT) /\ Len(Append(q, p)) = Len(q) + 1
           /\ DOMAIN Append(q, p) = 1..(Len(q) + 1)
           /\ Append(q, p)[Len(q) + 1] = p /\ \A i \in 1..Len(q) : Append(q, p)[i] = q[i]
  BY AppendProperties, LenProperties

LEMMA ChangeFacts ==
    ASSUME NEW q \in Seq(PartT), NEW i \in DOMAIN q, NEW p \in PartT
    PROVE  /\ [q EXCEPT ![i] = p] \in Seq(PartT) /\ Len([q EXCEPT ![i] = p]) = Len(q)
           /\ DOMAIN [q EXCEPT ![i] = p] = DOMAIN q
           /\ [q EXCEPT ![i] = p][i] = p
           /\ \A j \in DOMAIN q : j # i => [q EXCEPT ![i] = p][j] = q[j]
  BY ExceptSeq, LenProperties

LEMMA AtNone ==
    ASSUME NEW q \in Seq(PartT), NEW k, NEW id,
           \A i \in DOMAIN q : ~(q[i].k = k /\ q[i].id = id)
    PROVE  At(q, k, id) = 0
  <1>1. {i \in 1..Len(q) : q[i].k = k /\ q[i].id = id} = {}
    BY SeqFacts
  <1> QED
    BY <1>1 DEF At, SelectInSeq

LEMMA AtOnly ==
    ASSUME NEW q \in Seq(PartT), NEW k, NEW id, NEW i \in DOMAIN q,
           q[i].k = k, q[i].id = id,
           \A j \in DOMAIN q : q[j].k = k /\ q[j].id = id => j = i
    PROVE  At(q, k, id) = i
  <1> DEFINE I == {j \in 1..Len(q) : q[j].k = k /\ q[j].id = id}
  <1>1. I = {i} /\ i \in Nat
    BY SeqFacts
  <1>2. At(q, k, id) = CHOOSE x \in I : \A y \in I : x <= y
    BY <1>1 DEF At, SelectInSeq, Min
  <1> HIDE DEF I
  <1> QED
    BY <1>1, <1>2

\* Both folds find a call's part where the client's track says.
LEMMA AtTool ==
    ASSUME NEW s, NEW t, Sim(s, t), NEW c
    PROVE  /\ c \in DOMAIN t.tools => At(s.parts, "tool", c) = t.tools[c].pos
           /\ c \notin DOMAIN t.tools => At(s.parts, "tool", c) = 0
  <1>1. s.parts \in Seq(PartT) /\ t.parts \in Seq(PartT) /\ Len(s.parts) = Len(t.parts)
    BY DEF Sim, SrvT, CliT, Agree
  <1>2. DOMAIN s.parts = DOMAIN t.parts /\ \A i \in DOMAIN s.parts : PartsAgree(s.parts[i], t.parts[i])
    BY <1>1, SeqFacts DEF Sim, Agree
  <1>3. \A i \in DOMAIN s.parts : s.parts[i].k = t.parts[i].k /\ s.parts[i].id = t.parts[i].id
    BY <1>2 DEF PartsAgree
  <1>4. CASE c \in DOMAIN t.tools
    <2> DEFINE i == t.tools[c].pos
    <2>1. i \in DOMAIN s.parts /\ s.parts[i].k = "tool" /\ s.parts[i].id = c
      BY <1>2, <1>3, <1>4 DEF Sim, Tracks
    <2>2. \A j \in DOMAIN s.parts : s.parts[j].k = "tool" /\ s.parts[j].id = c => j = i
      BY <1>2, <1>3 DEF Sim, Tracks
    <2> HIDE DEF i
    <2>3. At(s.parts, "tool", c) = i
      BY <1>1, <2>1, <2>2, AtOnly
    <2> QED
      BY <1>4, <2>3 DEF i
  <1>5. CASE c \notin DOMAIN t.tools
    <2>1. \A j \in DOMAIN s.parts : ~(s.parts[j].k = "tool" /\ s.parts[j].id = c)
      BY <1>2, <1>3, <1>5 DEF Sim, Tracks
    <2> QED
      BY <1>1, <1>5, <2>1, AtNone
  <1> QED
    BY <1>4, <1>5

\* The views of the calls stay but for one.
OthersSame(s, t, s2, t2, c) == \A d \in Calls : d # c => View(s2, t2, d) = View(s, t, d)

\* From s and t to s2 and t2, call c's part is rewritten to p and q, its track to r.
ToolSet(s, t, s2, t2, c, p, q, r) ==
    /\ Sim(s, t)
    /\ c \in DOMAIN t.tools
    /\ s2 \in SrvT
    /\ t2 \in CliT
    /\ p \in PartT
    /\ q \in PartT
    /\ r \in Track
    /\ s2.parts = [s.parts EXCEPT ![t.tools[c].pos] = p]
    /\ t2.parts = [t.parts EXCEPT ![t.tools[c].pos] = q]
    /\ t2.tools = [t.tools EXCEPT ![c] = r]
    /\ s2.active = s.active
    /\ t2.at = t.at
    /\ s2.fin = s.fin
    /\ s2.meta = s.meta
    /\ t2.fin = t.fin
    /\ t2.meta = t.meta
    /\ r.pos = t.tools[c].pos
    /\ r.in = q.in
    /\ r.sm = q.sm
    /\ PartsAgree(p, q)
    /\ q.k = "tool"
    /\ q.id = c
    /\ q.txt = <<>>
    /\ s2.asked \in {s.asked, s.asked \cup {c}}
    /\ s2.partial \in {s.partial, s.partial \cup {c}}
    /\ (r.asked <=> c \in s2.asked)
    /\ (c \notin s2.asked => p.ap = "none")

\* A call's part is rewritten in both folds.
LEMMA SetTool ==
    ASSUME NEW s, NEW t, NEW s2, NEW t2, NEW c, NEW p, NEW q, NEW r, ToolSet(s, t, s2, t2, c, p, q, r)
    PROVE  /\ Sim(s2, t2) /\ OthersSame(s, t, s2, t2, c) /\ TextSame(s.parts, s2.parts)
           /\ View(s2, t2, c) = [here |-> TRUE, srv |-> p.st, cli |-> q.st,
                                 asked |-> c \in s2.asked, partial |-> c \in s2.partial]
  <1> USE DEF ToolSet
  <1> DEFINE i == t.tools[c].pos
  <1>1. s.parts \in Seq(PartT) /\ t.parts \in Seq(PartT) /\ Len(s.parts) = Len(t.parts)
    BY DEF Sim, SrvT, CliT, Agree
  <1>2. DOMAIN s.parts = DOMAIN t.parts /\ \A j \in DOMAIN s.parts : PartsAgree(s.parts[j], t.parts[j])
    BY <1>1, SeqFacts DEF Sim, Agree
  <1>3. i \in DOMAIN t.parts /\ t.parts[i].k = "tool" /\ t.parts[i].id = c
    BY DEF Sim, Tracks
  <1>4. /\ Len(s2.parts) = Len(s.parts) /\ DOMAIN s2.parts = DOMAIN s.parts /\ s2.parts[i] = p
        /\ \A j \in DOMAIN s.parts : j # i => s2.parts[j] = s.parts[j]
    BY <1>1, <1>2, <1>3, ChangeFacts
  <1>5. /\ Len(t2.parts) = Len(t.parts) /\ DOMAIN t2.parts = DOMAIN t.parts /\ t2.parts[i] = q
        /\ \A j \in DOMAIN t.parts : j # i => t2.parts[j] = t.parts[j]
    BY <1>1, <1>3, ChangeFacts
  <1>6. t.tools \in Fns(Calls, Track)
    BY DEF Sim, CliT
  <1>7. /\ DOMAIN t2.tools = DOMAIN t.tools /\ t2.tools[c] = r
        /\ \A d \in DOMAIN t.tools : d # c => t2.tools[d] = t.tools[d]
    BY <1>6, ChangeFns
  <1>8. \A d \in DOMAIN t.tools : d # c => t.tools[d].pos # i /\ t.tools[d].pos \in DOMAIN t.parts
    BY <1>3 DEF Sim, Tracks
  <1>9. \A d : d # c => (d \in s2.asked <=> d \in s.asked) /\ (d \in s2.partial <=> d \in s.partial)
    OBVIOUS
  <1> HIDE DEF i
  <1>10. Agree(s2, t2)
    BY <1>1, <1>2, <1>4, <1>5 DEF Agree, Sim
  <1>11. Tracks(s2, t2)
    <2>1. ASSUME NEW d \in DOMAIN t2.tools
          PROVE  LET u == t2.tools[d]
                 IN  /\ u.pos \in DOMAIN t2.parts /\ t2.parts[u.pos].k = "tool" /\ t2.parts[u.pos].id = d
                     /\ u.in = t2.parts[u.pos].in /\ u.sm = t2.parts[u.pos].sm
                     /\ u.asked <=> d \in s2.asked
                     /\ d \notin s2.asked => s2.parts[u.pos].ap = "none"
      <3>1. CASE d = c
        BY <1>3, <1>4, <1>5, <1>7, <3>1 DEF i
      <3>2. CASE d # c
        BY <1>2, <1>4, <1>5, <1>7, <1>8, <1>9, <3>2 DEF Sim, Tracks
      <3> QED
        BY <3>1, <3>2
    <2>2. ASSUME NEW j \in DOMAIN t2.parts, t2.parts[j].k = "tool"
          PROVE  /\ t2.parts[j].id \in DOMAIN t2.tools /\ t2.tools[t2.parts[j].id].pos = j
                 /\ t2.parts[j].txt = <<>>
      <3>1. CASE j = i
        BY <1>5, <1>7, <3>1 DEF i
      <3>2. CASE j # i
        <4>1. t2.parts[j] = t.parts[j] /\ t.parts[j].k = "tool"
          BY <1>5, <2>2, <3>2
        <4>2. t.parts[j].id \in DOMAIN t.tools /\ t.tools[t.parts[j].id].pos = j /\ t.parts[j].txt = <<>>
          BY <1>5, <2>2, <4>1 DEF Sim, Tracks
        <4>3. t.parts[j].id # c
          BY <3>2, <4>2 DEF i
        <4> QED
          BY <1>7, <4>1, <4>2, <4>3
      <3> QED
        BY <3>1, <3>2
    <2>3. s2.asked \subseteq DOMAIN t2.tools /\ s2.partial \subseteq DOMAIN t2.tools
      BY <1>7 DEF Sim, Tracks
    <2> QED
      BY <2>1, <2>2, <2>3, Zenon DEF Tracks
  <1>12. \A j \in DOMAIN t.parts : t2.parts[j].k = t.parts[j].k /\ t2.parts[j].id = t.parts[j].id
    BY <1>3, <1>5
  <1>18. Placed(s, t)
    BY DEF Sim
  <1>13. Placed(s2, t2)
    <2>1. ASSUME NEW key \in DOMAIN t2.at
          PROVE  t2.at[key] \in DOMAIN t2.parts /\ key = <<t2.parts[t2.at[key]].k, t2.parts[t2.at[key]].id>>
      BY <1>5, <1>12 DEF Sim, Placed
    <2>2. ASSUME NEW j \in DOMAIN t2.parts, t2.parts[j].k \in DataKinds
          PROVE  /\ t2.parts[j].id # None =>
                    LET key == <<t2.parts[j].k, t2.parts[j].id>> IN key \in DOMAIN t2.at /\ t2.at[key] = j
                 /\ \A u \in {s2.parts[j], t2.parts[j]} :
                      u.st = "none" /\ u.txt = <<>> /\ u.ap = "none" /\ u.sm = "none"
      <3>1. j # i
        BY <1>5, <2>2 DEF DataKinds
      <3>2. t2.parts[j] = t.parts[j] /\ s2.parts[j] = s.parts[j] /\ j \in DOMAIN t.parts
        BY <1>2, <1>4, <1>5, <3>1
      <3>3. t.parts[j].k \in DataKinds
        BY <2>2, <3>2
      <3> QED
        BY ONLY <3>2, <3>3, <1>18, t2.at = t.at DEF Placed
    <2>3. \A key \in DOMAIN s2.active :
            key[1] \in TextKinds /\ key \in DOMAIN t2.at /\ s2.active[key] = t2.at[key]
      BY DEF Sim, Placed
    <2> QED
      BY <2>1, <2>2, <2>3 DEF Placed
  <1>14. Sim(s2, t2)
    BY <1>10, <1>11, <1>13 DEF Sim
  <1>15. OthersSame(s, t, s2, t2, c)
    <2>1. ASSUME NEW d \in Calls, d # c PROVE View(s2, t2, d) = View(s, t, d)
      <3>1. CASE d \in DOMAIN t.tools
        <4>1. t2.tools[d] = t.tools[d] /\ d \in DOMAIN t2.tools
          BY <1>7, <2>1, <3>1
        <4> DEFINE j == t.tools[d].pos
        <4>0. j # i /\ j \in DOMAIN t.parts /\ j \in DOMAIN s.parts
          BY <1>2, <1>8, <2>1, <3>1
        <4>2. s2.parts[j] = s.parts[j] /\ t2.parts[j] = t.parts[j]
          BY <1>4, <1>5, <4>0
        <4>3. (d \in s2.asked) = (d \in s.asked) /\ (d \in s2.partial) = (d \in s.partial)
          BY <1>9, <2>1
        <4>4. t2.tools[d].pos = j
          BY <4>1
        <4> HIDE DEF j
        <4>5. View(s2, t2, d) = [here |-> TRUE, srv |-> s2.parts[j].st, cli |-> t2.parts[j].st,
                                 asked |-> d \in s2.asked, partial |-> d \in s2.partial]
          BY <4>1, <4>4 DEF View
        <4>6. View(s, t, d) = [here |-> TRUE, srv |-> s.parts[j].st, cli |-> t.parts[j].st,
                               asked |-> d \in s.asked, partial |-> d \in s.partial]
          BY <3>1 DEF View, j
        <4> QED
          BY <4>2, <4>3, <4>5, <4>6
      <3>2. CASE d \notin DOMAIN t.tools
        BY <1>7, <3>2 DEF View
      <3> QED
        BY <3>1, <3>2
    <2> QED
      BY <2>1 DEF OthersSame
  <1>16. TextSame(s.parts, s2.parts)
    <2>1. p.k = "tool"
      BY DEF PartsAgree
    <2> QED
      BY <1>4, <2>1 DEF TextSame, TextKinds
  <1>17. View(s2, t2, c) = [here |-> TRUE, srv |-> p.st, cli |-> q.st,
                            asked |-> c \in s2.asked, partial |-> c \in s2.partial]
    BY <1>4, <1>5, <1>7, Zenon DEF View, i
  <1> QED
    BY <1>14, <1>15, <1>16, <1>17

\* The views of all calls stay.
ViewsSame(s, t, s2, t2) == \A d \in Calls : View(s2, t2, d) = View(s, t, d)

\* What the folds keep of the calls when only other parts change.
CallsKept(s, t, s2, t2) ==
    t2.tools = t.tools /\ s2.asked = s.asked /\ s2.partial = s.partial

\* A part keeps what a data part is.
DataShape(p) == p.st = "none" /\ p.txt = <<>> /\ p.ap = "none" /\ p.sm = "none"

\* From s and t to s2 and t2, call c gets its parts p and q and its track r.
ToolGrown(s, t, s2, t2, c, p, q, r) ==
    /\ Sim(s, t)
    /\ c \in Calls
    /\ c \notin DOMAIN t.tools
    /\ s2 \in SrvT
    /\ t2 \in CliT
    /\ p \in PartT
    /\ q \in PartT
    /\ r \in Track
    /\ s2.parts = Append(s.parts, p)
    /\ t2.parts = Append(t.parts, q)
    /\ t2.tools = Put(t.tools, c, r)
    /\ s2.active = s.active
    /\ t2.at = t.at
    /\ s2.fin = s.fin
    /\ s2.meta = s.meta
    /\ t2.fin = t.fin
    /\ t2.meta = t.meta
    /\ r.pos = Len(t.parts) + 1
    /\ r.in = q.in
    /\ r.sm = q.sm
    /\ ~r.asked
    /\ p.ap = "none"
    /\ PartsAgree(p, q)
    /\ q.k = "tool"
    /\ q.id = c
    /\ q.txt = <<>>
    /\ s2.asked = s.asked
    /\ s2.partial \in {s.partial, s.partial \cup {c}}

\* A call's part is new in both folds.
LEMMA GrowTool ==
    ASSUME NEW s, NEW t, NEW s2, NEW t2, NEW c, NEW p, NEW q, NEW r, ToolGrown(s, t, s2, t2, c, p, q, r)
    PROVE  /\ Sim(s2, t2) /\ OthersSame(s, t, s2, t2, c) /\ TextSame(s.parts, s2.parts)
           /\ View(s2, t2, c) = [here |-> TRUE, srv |-> p.st, cli |-> q.st,
                                 asked |-> FALSE, partial |-> c \in s2.partial]
  <1> USE DEF ToolGrown
  <1> DEFINE n == Len(t.parts)
             i == n + 1
  <1>1. s.parts \in Seq(PartT) /\ t.parts \in Seq(PartT) /\ Len(s.parts) = Len(t.parts) /\ n \in Nat
    BY SeqFacts DEF Sim, SrvT, CliT, Agree
  <1>2. /\ DOMAIN s.parts = 1..n /\ DOMAIN t.parts = 1..n
        /\ \A j \in 1..n : PartsAgree(s.parts[j], t.parts[j])
    BY <1>1, SeqFacts DEF Sim, Agree
  <1>3. i \notin 1..n /\ 1..i = (1..n) \cup {i}
    BY <1>1
  <1>4. /\ Len(s2.parts) = i /\ DOMAIN s2.parts = 1..i /\ s2.parts[i] = p
        /\ \A j \in 1..n : s2.parts[j] = s.parts[j]
    BY <1>1, AppendFacts
  <1>5. /\ Len(t2.parts) = i /\ DOMAIN t2.parts = 1..i /\ t2.parts[i] = q
        /\ \A j \in 1..n : t2.parts[j] = t.parts[j]
    BY <1>1, AppendFacts
  <1>6. t.tools \in Fns(Calls, Track)
    BY DEF Sim, CliT
  <1>7. /\ DOMAIN t2.tools = DOMAIN t.tools \cup {c} /\ t2.tools[c] = r
        /\ \A d \in DOMAIN t.tools : d # c => t2.tools[d] = t.tools[d]
    <2>1. PICK f : f = t.tools
      OBVIOUS
    <2>2. f \in Fns(Calls, Track)
      BY <1>6, <2>1
    <2>3. /\ DOMAIN Put(f, c, r) = DOMAIN f \cup {c} /\ Put(f, c, r)[c] = r
          /\ \A d \in DOMAIN f : d # c => Put(f, c, r)[d] = f[d]
      BY DEF Put
    <2> QED
      BY <2>1, <2>3
  <1>8. \A d \in DOMAIN t.tools : d # c /\ t.tools[d].pos \in 1..n
    BY <1>2 DEF Sim, Tracks
  <1>9. \A d : d # c => (d \in s2.partial) = (d \in s.partial)
    OBVIOUS
  <1>10. c \notin s.asked /\ s.asked \subseteq DOMAIN t.tools /\ s.partial \subseteq DOMAIN t.tools
    BY DEF Sim, Tracks
  <1>11. Tracks(s, t) /\ Placed(s, t) /\ Agree(s, t)
    BY DEF Sim
  <1>12. r.pos = i
    OBVIOUS
  <1> HIDE DEF i, n
  <1>13. Agree(s2, t2)
    <2>1. \A j \in 1..i : PartsAgree(s2.parts[j], t2.parts[j])
      BY <1>2, <1>3, <1>4, <1>5
    <2> QED
      BY <1>4, <1>5, <1>11, <2>1 DEF Agree
  <1>14. Tracks(s2, t2)
    <2>1. ASSUME NEW d \in DOMAIN t2.tools
          PROVE  LET u == t2.tools[d]
                 IN  /\ u.pos \in DOMAIN t2.parts /\ t2.parts[u.pos].k = "tool" /\ t2.parts[u.pos].id = d
                     /\ u.in = t2.parts[u.pos].in /\ u.sm = t2.parts[u.pos].sm
                     /\ u.asked <=> d \in s2.asked
                     /\ d \notin s2.asked => s2.parts[u.pos].ap = "none"
      <3>1. CASE d = c
        BY <1>3, <1>4, <1>5, <1>7, <1>10, <1>12, <3>1
      <3>2. CASE d # c
        <4>1. d \in DOMAIN t.tools /\ t2.tools[d] = t.tools[d] /\ t.tools[d].pos \in 1..n
          BY <1>7, <1>8, <3>2
        <4>2. t.tools[d].pos \in 1..i
          BY <1>3, <4>1
        <4> QED
          BY <1>2, <1>4, <1>5, <1>11, <4>1, <4>2 DEF Tracks
      <3> QED
        BY <3>1, <3>2
    <2>2. ASSUME NEW j \in DOMAIN t2.parts, t2.parts[j].k = "tool"
          PROVE  /\ t2.parts[j].id \in DOMAIN t2.tools /\ t2.tools[t2.parts[j].id].pos = j
                 /\ t2.parts[j].txt = <<>>
      <3>1. CASE j = i
        BY <1>5, <1>7, <1>12, <3>1
      <3>2. CASE j # i
        <4>1. j \in 1..n /\ t2.parts[j] = t.parts[j] /\ t.parts[j].k = "tool"
          BY <1>3, <1>5, <2>2, <3>2
        <4>2. t.parts[j].id \in DOMAIN t.tools /\ t.tools[t.parts[j].id].pos = j /\ t.parts[j].txt = <<>>
          BY <1>2, <1>11, <4>1 DEF Tracks
        <4> QED
          BY <1>7, <4>1, <4>2
      <3> QED
        BY <3>1, <3>2
    <2>3. s2.asked \subseteq DOMAIN t2.tools /\ s2.partial \subseteq DOMAIN t2.tools
      BY <1>7, <1>10
    <2> QED
      BY <2>1, <2>2, <2>3 DEF Tracks
  <1>15. Placed(s2, t2)
    <2>1. ASSUME NEW key \in DOMAIN t2.at
          PROVE  t2.at[key] \in DOMAIN t2.parts /\ key = <<t2.parts[t2.at[key]].k, t2.parts[t2.at[key]].id>>
      <3>1. t.at[key] \in 1..n /\ key = <<t.parts[t.at[key]].k, t.parts[t.at[key]].id>>
        BY <1>2, <1>11 DEF Placed
      <3> QED
        BY <1>3, <1>5, <3>1
    <2>2. ASSUME NEW j \in DOMAIN t2.parts, t2.parts[j].k \in DataKinds
          PROVE  /\ t2.parts[j].id # None =>
                    LET key == <<t2.parts[j].k, t2.parts[j].id>> IN key \in DOMAIN t2.at /\ t2.at[key] = j
                 /\ \A u \in {s2.parts[j], t2.parts[j]} :
                      u.st = "none" /\ u.txt = <<>> /\ u.ap = "none" /\ u.sm = "none"
      <3>1. j # i
        BY <1>5, <2>2 DEF DataKinds
      <3>2. t2.parts[j] = t.parts[j] /\ s2.parts[j] = s.parts[j] /\ j \in DOMAIN t.parts
        BY <1>2, <1>3, <1>4, <1>5, <3>1
      <3>3. t.parts[j].k \in DataKinds
        BY <2>2, <3>2
      <3> QED
        BY ONLY <3>2, <3>3, <1>11, t2.at = t.at DEF Placed
    <2>3. \A key \in DOMAIN s2.active :
            key[1] \in TextKinds /\ key \in DOMAIN t2.at /\ s2.active[key] = t2.at[key]
      BY <1>11 DEF Placed
    <2> QED
      BY <2>1, <2>2, <2>3 DEF Placed
  <1>16. Sim(s2, t2)
    BY <1>13, <1>14, <1>15 DEF Sim
  <1>17. OthersSame(s, t, s2, t2, c)
    <2>1. ASSUME NEW d \in Calls, d # c PROVE View(s2, t2, d) = View(s, t, d)
      <3>1. CASE d \in DOMAIN t.tools
        <4> DEFINE j == t.tools[d].pos
        <4>0. j \in 1..n
          BY <1>8, <3>1
        <4>1. t2.tools[d] = t.tools[d] /\ d \in DOMAIN t2.tools
          BY <1>7, <2>1, <3>1
        <4>2. s2.parts[j] = s.parts[j] /\ t2.parts[j] = t.parts[j]
          BY <1>4, <1>5, <4>0
        <4>3. (d \in s2.partial) = (d \in s.partial)
          BY <1>9, <2>1
        <4>4. t2.tools[d].pos = j
          BY <4>1
        <4> HIDE DEF j
        <4>5. View(s2, t2, d) = [here |-> TRUE, srv |-> s2.parts[j].st, cli |-> t2.parts[j].st,
                                 asked |-> d \in s2.asked, partial |-> d \in s2.partial]
          BY <4>1, <4>4 DEF View
        <4>6. View(s, t, d) = [here |-> TRUE, srv |-> s.parts[j].st, cli |-> t.parts[j].st,
                               asked |-> d \in s.asked, partial |-> d \in s.partial]
          BY <3>1 DEF View, j
        <4> QED
          BY <4>2, <4>3, <4>5, <4>6
      <3>2. CASE d \notin DOMAIN t.tools
        BY <1>7, <2>1, <3>2 DEF View
      <3> QED
        BY <3>1, <3>2
    <2> QED
      BY <2>1 DEF OthersSame
  <1>18. TextSame(s.parts, s2.parts)
    <2>1. p.k = "tool"
      BY DEF PartsAgree
    <2> QED
      BY <1>2, <1>3, <1>4, <2>1 DEF TextSame, TextKinds
  <1>19. View(s2, t2, c) = [here |-> TRUE, srv |-> p.st, cli |-> q.st,
                            asked |-> FALSE, partial |-> c \in s2.partial]
    <2>1. (c \in s2.asked) = FALSE
      BY <1>10
    <2> QED
      BY <1>4, <1>5, <1>7, <1>12, <2>1 DEF View
  <1> QED
    BY <1>16, <1>17, <1>18, <1>19

\* From s and t to s2 and t2, the parts p and q that are no call's are added.
PartGrown(s, t, s2, t2, p, q) ==
    /\ Sim(s, t)
    /\ s2 \in SrvT
    /\ t2 \in CliT
    /\ p \in PartT
    /\ q \in PartT
    /\ s2.parts = Append(s.parts, p)
    /\ t2.parts = Append(t.parts, q)
    /\ CallsKept(s, t, s2, t2)
    /\ s2.fin = t2.fin
    /\ s2.meta = t2.meta
    /\ PartsAgree(p, q)
    /\ q.k # "tool"
    /\ (q.k \in DataKinds => DataShape(p) /\ DataShape(q))
    /\ \/ t2.at = t.at /\ s2.active = s.active /\ (q.k \in DataKinds => q.id = None)
       \/ /\ t2.at = Put(t.at, <<q.k, q.id>>, Len(t.parts) + 1)
          /\ q.k \in DataKinds => <<q.k, q.id>> \notin DOMAIN t.at
          /\ \/ s2.active = s.active /\ q.k \notin TextKinds
             \/ q.k \in TextKinds /\ s2.active = Put(s.active, <<q.k, q.id>>, Len(t.parts) + 1)

\* A part that is no call's is new in both folds.
LEMMA GrowPart ==
    ASSUME NEW s, NEW t, NEW s2, NEW t2, NEW p, NEW q, PartGrown(s, t, s2, t2, p, q)
    PROVE  /\ Sim(s2, t2) /\ ViewsSame(s, t, s2, t2)
           /\ q.k \notin TextKinds => TextSame(s.parts, s2.parts)
  <1> USE DEF PartGrown
  <1> DEFINE n == Len(t.parts)
             i == n + 1
             new == <<q.k, q.id>>
  <1>1. s.parts \in Seq(PartT) /\ t.parts \in Seq(PartT) /\ Len(s.parts) = Len(t.parts) /\ n \in Nat
    BY SeqFacts DEF Sim, SrvT, CliT, Agree
  <1>2. /\ DOMAIN s.parts = 1..n /\ DOMAIN t.parts = 1..n
        /\ \A j \in 1..n : PartsAgree(s.parts[j], t.parts[j])
    BY <1>1, SeqFacts DEF Sim, Agree
  <1>3. i \notin 1..n /\ 1..i = (1..n) \cup {i} /\ i \in Nat
    BY <1>1
  <1>4. /\ Len(s2.parts) = i /\ DOMAIN s2.parts = 1..i /\ s2.parts[i] = p
        /\ \A j \in 1..n : s2.parts[j] = s.parts[j]
    BY <1>1, AppendFacts
  <1>5. /\ Len(t2.parts) = i /\ DOMAIN t2.parts = 1..i /\ t2.parts[i] = q
        /\ \A j \in 1..n : t2.parts[j] = t.parts[j]
    BY <1>1, AppendFacts
  <1>6. Tracks(s, t) /\ Placed(s, t) /\ Agree(s, t)
    BY DEF Sim
  <1>7. /\ t.at \in Fns(Keys, Nat) /\ s.active \in Fns(Keys, Nat) /\ new \in Keys
        /\ \A key \in DOMAIN t.at : t.at[key] \in 1..n
    BY <1>2 DEF Sim, SrvT, CliT, Placed, Keys, PartT
  <1> DEFINE moved == /\ DOMAIN t2.at = DOMAIN t.at \cup {new} /\ t2.at[new] = i
                      /\ \A key \in DOMAIN t.at : key # new => t2.at[key] = t.at[key]
                      /\ q.k \in DataKinds => new \notin DOMAIN t.at
             kept == t2.at = t.at /\ (q.k \in DataKinds => q.id = None)
  <1>8. moved \/ kept
    <2>1. ASSUME t2.at = Put(t.at, new, i)
          PROVE  /\ DOMAIN t2.at = DOMAIN t.at \cup {new} /\ t2.at[new] = i
                 /\ \A key \in DOMAIN t.at : key # new => t2.at[key] = t.at[key]
      BY <2>1 DEF Put
    <2> QED
      BY <2>1
  <1>9. \/ s2.active = s.active /\ (q.k \notin TextKinds \/ kept)
        \/ /\ q.k \in TextKinds /\ moved
           /\ DOMAIN s2.active = DOMAIN s.active \cup {new} /\ s2.active[new] = i
           /\ \A key \in DOMAIN s.active : key # new => s2.active[key] = s.active[key]
    <2>1. ASSUME s2.active = Put(s.active, new, i)
          PROVE  /\ DOMAIN s2.active = DOMAIN s.active \cup {new} /\ s2.active[new] = i
                 /\ \A key \in DOMAIN s.active : key # new => s2.active[key] = s.active[key]
      BY <2>1 DEF Put
    <2>2. ASSUME t2.at = Put(t.at, new, i)
          PROVE  /\ DOMAIN t2.at = DOMAIN t.at \cup {new} /\ t2.at[new] = i
                 /\ \A key \in DOMAIN t.at : key # new => t2.at[key] = t.at[key]
      BY <2>2 DEF Put
    <2> QED
      BY <2>1, <2>2
  <1>20. t2.tools = t.tools /\ s2.asked = s.asked /\ s2.partial = s.partial
    BY DEF CallsKept
  <1>21. q.k # "tool" /\ (q.k \in DataKinds => DataShape(p) /\ DataShape(q)) /\ new = <<q.k, q.id>>
    OBVIOUS
  <1> HIDE DEF i, n, new, moved, kept
  <1>10. Agree(s2, t2)
    <2>1. \A j \in 1..i : PartsAgree(s2.parts[j], t2.parts[j])
      BY <1>2, <1>3, <1>4, <1>5
    <2> QED
      BY <1>4, <1>5, <2>1 DEF Agree
  <1>11. Tracks(s2, t2)
    <2>1. ASSUME NEW d \in DOMAIN t2.tools
          PROVE  LET u == t2.tools[d]
                 IN  /\ u.pos \in DOMAIN t2.parts /\ t2.parts[u.pos].k = "tool" /\ t2.parts[u.pos].id = d
                     /\ u.in = t2.parts[u.pos].in /\ u.sm = t2.parts[u.pos].sm
                     /\ u.asked <=> d \in s2.asked
                     /\ d \notin s2.asked => s2.parts[u.pos].ap = "none"
      <3>1. d \in DOMAIN t.tools /\ t2.tools[d] = t.tools[d] /\ t.tools[d].pos \in 1..n
        BY <1>2, <1>6, <1>20 DEF Tracks
      <3>2. t.tools[d].pos \in 1..i
        BY <1>3, <3>1
      <3> QED
        BY <1>2, <1>4, <1>5, <1>6, <1>20, <3>1, <3>2 DEF Tracks
    <2>2. ASSUME NEW j \in DOMAIN t2.parts, t2.parts[j].k = "tool"
          PROVE  /\ t2.parts[j].id \in DOMAIN t2.tools /\ t2.tools[t2.parts[j].id].pos = j
                 /\ t2.parts[j].txt = <<>>
      <3>1. j \in 1..n /\ t2.parts[j] = t.parts[j]
        BY <1>3, <1>5, <1>21, <2>2
      <3> QED
        BY <1>2, <1>6, <1>20, <2>2, <3>1 DEF Tracks
    <2> QED
      BY <1>6, <1>20, <2>1, <2>2, Zenon DEF Tracks
  <1>12. Placed(s2, t2)
    <2>1. ASSUME NEW key \in DOMAIN t2.at
          PROVE  t2.at[key] \in DOMAIN t2.parts /\ key = <<t2.parts[t2.at[key]].k, t2.parts[t2.at[key]].id>>
      <3>1. ASSUME key \in DOMAIN t.at, t2.at[key] = t.at[key]
            PROVE  t2.at[key] \in DOMAIN t2.parts /\ key = <<t2.parts[t2.at[key]].k, t2.parts[t2.at[key]].id>>
        <4>1. t.at[key] \in 1..n /\ key = <<t.parts[t.at[key]].k, t.parts[t.at[key]].id>>
          BY <1>2, <1>6, <3>1 DEF Placed
        <4> QED
          BY <1>3, <1>5, <3>1, <4>1
      <3>2. CASE key = new /\ t2.at[new] = i
        BY <1>3, <1>5, <1>21, <3>2
      <3> QED
        BY <1>8, <3>1, <3>2 DEF moved, kept
    <2>2. ASSUME NEW j \in DOMAIN t2.parts, t2.parts[j].k \in DataKinds
          PROVE  /\ t2.parts[j].id # None =>
                    LET key == <<t2.parts[j].k, t2.parts[j].id>> IN key \in DOMAIN t2.at /\ t2.at[key] = j
                 /\ \A u \in {s2.parts[j], t2.parts[j]} :
                      u.st = "none" /\ u.txt = <<>> /\ u.ap = "none" /\ u.sm = "none"
      <3>1. CASE j = i
        BY <1>4, <1>5, <1>8, <1>21, <2>2, <3>1 DEF moved, kept, DataShape
      <3>2. CASE j # i
        <4>1. j \in 1..n /\ t2.parts[j] = t.parts[j] /\ s2.parts[j] = s.parts[j] /\ t.parts[j].k \in DataKinds
          BY <1>3, <1>4, <1>5, <2>2, <3>2
        <4>2. /\ t.parts[j].id # None =>
                    LET key == <<t.parts[j].k, t.parts[j].id>> IN key \in DOMAIN t.at /\ t.at[key] = j
              /\ \A u \in {s.parts[j], t.parts[j]} :
                      u.st = "none" /\ u.txt = <<>> /\ u.ap = "none" /\ u.sm = "none"
          BY <1>2, <1>6, <4>1 DEF Placed
        <4>3. ASSUME t.parts[j].id # None
              PROVE  LET key == <<t.parts[j].k, t.parts[j].id>> IN key \in DOMAIN t2.at /\ t2.at[key] = j
          <5> DEFINE key == <<t.parts[j].k, t.parts[j].id>>
          <5>1. key \in DOMAIN t.at /\ t.at[key] = j
            BY <4>2, <4>3
          <5>2. CASE moved
            <6>1. key # new
              BY <1>21, <4>1, <5>1, <5>2 DEF moved
            <6> QED
              BY <5>1, <5>2, <6>1 DEF moved
          <5>3. CASE kept
            BY <5>1, <5>3 DEF kept
          <5> QED
            BY <1>8, <5>2, <5>3
        <4> QED
          BY <4>1, <4>2, <4>3
      <3> QED
        BY <3>1, <3>2
    <2>3. ASSUME NEW key \in DOMAIN s2.active
          PROVE  key[1] \in TextKinds /\ key \in DOMAIN t2.at /\ s2.active[key] = t2.at[key]
      <3>1. CASE s2.active = s.active /\ (q.k \notin TextKinds \/ kept)
        <4>1. key[1] \in TextKinds /\ key \in DOMAIN t.at /\ s2.active[key] = t.at[key]
          BY <1>6, <3>1 DEF Placed
        <4>2. q.k \notin TextKinds => key # new
          BY <1>21, <4>1
        <4> QED
          BY <1>8, <3>1, <4>1, <4>2 DEF moved, kept
      <3>2. CASE /\ q.k \in TextKinds /\ moved
                 /\ DOMAIN s2.active = DOMAIN s.active \cup {new} /\ s2.active[new] = i
                 /\ \A k \in DOMAIN s.active : k # new => s2.active[k] = s.active[k]
        <4>1. CASE key = new
          BY <1>21, <3>2, <4>1 DEF moved
        <4>2. CASE key # new
          <5>1. key \in DOMAIN s.active /\ s2.active[key] = s.active[key]
            BY <3>2, <4>2
          <5>2. key[1] \in TextKinds /\ key \in DOMAIN t.at /\ s.active[key] = t.at[key]
            BY <1>6, <5>1 DEF Placed
          <5> QED
            BY <3>2, <4>2, <5>1, <5>2 DEF moved
        <4> QED
          BY <4>1, <4>2
      <3> QED
        BY <1>9, <3>1, <3>2
    <2> QED
      BY <2>1, <2>2, <2>3 DEF Placed
  <1>13. Sim(s2, t2)
    BY <1>10, <1>11, <1>12 DEF Sim
  <1>14. ASSUME NEW d \in Calls PROVE View(s2, t2, d) = View(s, t, d)
    <2>1. CASE d \in DOMAIN t.tools
      <3>1. t.tools[d].pos \in 1..n
        BY <1>2, <1>6, <2>1 DEF Tracks
      <3> QED
        BY <1>4, <1>5, <1>20, <2>1, <3>1 DEF View
    <2>2. CASE d \notin DOMAIN t.tools
      BY <1>20, <2>2 DEF View
    <2> QED
      BY <2>1, <2>2
  <1>15. ASSUME q.k \notin TextKinds PROVE TextSame(s.parts, s2.parts)
    <2>1. p.k = q.k
      BY DEF PartsAgree
    <2> QED
      BY <1>2, <1>3, <1>4, <1>15, <2>1 DEF TextSame
  <1> QED
    BY <1>13, <1>14, <1>15 DEF ViewsSame

\* From s and t to s2 and t2, the part at i that is no call's is rewritten to p and q.
PartSet(s, t, s2, t2, i, p, q) ==
    /\ Sim(s, t)
    /\ i \in DOMAIN t.parts
    /\ s2 \in SrvT
    /\ t2 \in CliT
    /\ p \in PartT
    /\ q \in PartT
    /\ s2.parts = [s.parts EXCEPT ![i] = p]
    /\ t2.parts = [t.parts EXCEPT ![i] = q]
    /\ CallsKept(s, t, s2, t2)
    /\ s2.fin = t2.fin
    /\ s2.meta = t2.meta
    /\ PartsAgree(p, q)
    /\ q.k = t.parts[i].k
    /\ q.id = t.parts[i].id
    /\ q.k # "tool"
    /\ (q.k \in DataKinds => DataShape(p) /\ DataShape(q))
    /\ t2.at = t.at
    /\ \E S : s2.active = Without(s.active, S)

\* A part that is no call's is rewritten in both folds.
LEMMA SetPart ==
    ASSUME NEW s, NEW t, NEW s2, NEW t2, NEW i, NEW p, NEW q, PartSet(s, t, s2, t2, i, p, q)
    PROVE  /\ Sim(s2, t2) /\ ViewsSame(s, t, s2, t2)
           /\ q.k \notin TextKinds => TextSame(s.parts, s2.parts)
  <1> USE DEF PartSet
  <1>1. s.parts \in Seq(PartT) /\ t.parts \in Seq(PartT) /\ Len(s.parts) = Len(t.parts)
    BY DEF Sim, SrvT, CliT, Agree
  <1>2. DOMAIN s.parts = DOMAIN t.parts /\ \A j \in DOMAIN s.parts : PartsAgree(s.parts[j], t.parts[j])
    BY <1>1, SeqFacts DEF Sim, Agree
  <1>3. Tracks(s, t) /\ Placed(s, t) /\ Agree(s, t)
    BY DEF Sim
  <1>4. /\ Len(s2.parts) = Len(s.parts) /\ DOMAIN s2.parts = DOMAIN s.parts /\ s2.parts[i] = p
        /\ \A j \in DOMAIN s.parts : j # i => s2.parts[j] = s.parts[j]
    BY <1>1, <1>2, ChangeFacts
  <1>5. /\ Len(t2.parts) = Len(t.parts) /\ DOMAIN t2.parts = DOMAIN t.parts /\ t2.parts[i] = q
        /\ \A j \in DOMAIN t.parts : j # i => t2.parts[j] = t.parts[j]
    BY <1>1, ChangeFacts
  <1>6. t2.tools = t.tools /\ s2.asked = s.asked /\ s2.partial = s.partial
    BY DEF CallsKept
  <1>7. \A d \in DOMAIN t.tools : t.tools[d].pos \in DOMAIN t.parts /\ t.tools[d].pos # i
    BY <1>3 DEF Tracks
  <1>8. \A j \in DOMAIN t.parts : t2.parts[j].k = t.parts[j].k /\ t2.parts[j].id = t.parts[j].id
    BY <1>5
  <1>9. \A key \in DOMAIN s2.active : key \in DOMAIN s.active /\ s2.active[key] = s.active[key]
    BY DEF Without
  <1>10. Agree(s2, t2)
    BY <1>1, <1>2, <1>4, <1>5, SMTT(30) DEF Agree
  <1>11. Tracks(s2, t2)
    <2>1. ASSUME NEW d \in DOMAIN t2.tools
          PROVE  LET u == t2.tools[d]
                 IN  /\ u.pos \in DOMAIN t2.parts /\ t2.parts[u.pos].k = "tool" /\ t2.parts[u.pos].id = d
                     /\ u.in = t2.parts[u.pos].in /\ u.sm = t2.parts[u.pos].sm
                     /\ u.asked <=> d \in s2.asked
                     /\ d \notin s2.asked => s2.parts[u.pos].ap = "none"
      BY <1>2, <1>3, <1>4, <1>5, <1>6, <1>7 DEF Tracks
    <2>2. ASSUME NEW j \in DOMAIN t2.parts, t2.parts[j].k = "tool"
          PROVE  /\ t2.parts[j].id \in DOMAIN t2.tools /\ t2.tools[t2.parts[j].id].pos = j
                 /\ t2.parts[j].txt = <<>>
      <3>1. j # i /\ j \in DOMAIN t.parts /\ t2.parts[j] = t.parts[j]
        BY <1>5, <2>2
      <3> QED
        BY <1>3, <1>6, <2>2, <3>1 DEF Tracks
    <2> QED
      BY <1>3, <1>6, <2>1, <2>2 DEF Tracks
  <1>12. Placed(s2, t2)
    <2>1. ASSUME NEW key \in DOMAIN t2.at
          PROVE  t2.at[key] \in DOMAIN t2.parts /\ key = <<t2.parts[t2.at[key]].k, t2.parts[t2.at[key]].id>>
      <3>1. t.at[key] \in DOMAIN t.parts /\ key = <<t.parts[t.at[key]].k, t.parts[t.at[key]].id>>
        BY <1>3 DEF Placed
      <3> QED
        BY <1>5, <1>8, <3>1
    <2>2. ASSUME NEW j \in DOMAIN t2.parts, t2.parts[j].k \in DataKinds
          PROVE  /\ t2.parts[j].id # None =>
                    LET key == <<t2.parts[j].k, t2.parts[j].id>> IN key \in DOMAIN t2.at /\ t2.at[key] = j
                 /\ \A u \in {s2.parts[j], t2.parts[j]} :
                      u.st = "none" /\ u.txt = <<>> /\ u.ap = "none" /\ u.sm = "none"
      <3>1. t.parts[j].k \in DataKinds /\ j \in DOMAIN t.parts
        BY <1>5, <1>8, <2>2
      <3>2. /\ t.parts[j].id # None =>
                    LET key == <<t.parts[j].k, t.parts[j].id>> IN key \in DOMAIN t.at /\ t.at[key] = j
            /\ \A u \in {s.parts[j], t.parts[j]} :
                      u.st = "none" /\ u.txt = <<>> /\ u.ap = "none" /\ u.sm = "none"
        BY <1>3, <3>1 DEF Placed
      <3>3. CASE j = i
        BY <1>4, <1>5, <1>8, <1>2, <2>2, <3>1, <3>2, <3>3 DEF DataShape
      <3>4. CASE j # i
        BY <1>2, <1>4, <1>5, <3>1, <3>2, <3>4
      <3> QED
        BY <3>3, <3>4
    <2>3. \A key \in DOMAIN s2.active :
            key[1] \in TextKinds /\ key \in DOMAIN t2.at /\ s2.active[key] = t2.at[key]
      BY <1>3, <1>9 DEF Placed
    <2> QED
      BY <2>1, <2>2, <2>3 DEF Placed
  <1>13. Sim(s2, t2)
    BY <1>10, <1>11, <1>12 DEF Sim
  <1>14. ASSUME NEW d \in Calls PROVE View(s2, t2, d) = View(s, t, d)
    <2>1. CASE d \in DOMAIN t.tools
      <3>1. t.tools[d].pos \in DOMAIN t.parts /\ t.tools[d].pos # i
        BY <1>7, <2>1
      <3>2. /\ s2.parts[t.tools[d].pos] = s.parts[t.tools[d].pos]
            /\ t2.parts[t.tools[d].pos] = t.parts[t.tools[d].pos]
        BY <1>2, <1>4, <1>5, <3>1
      <3> QED
        BY <1>6, <2>1, <3>2 DEF View
    <2>2. CASE d \notin DOMAIN t.tools
      BY <1>6, <2>2 DEF View
    <2> QED
      BY <2>1, <2>2
  <1>15. ASSUME q.k \notin TextKinds PROVE TextSame(s.parts, s2.parts)
    <2>1. p.k = q.k
      BY DEF PartsAgree
    <2> QED
      BY <1>2, <1>4, <1>15, <2>1 DEF TextSame
  <1> QED
    BY <1>13, <1>14, <1>15 DEF ViewsSame

\* From s and t to s2 and t2, all parts stay.
PartsKept(s, t, s2, t2) ==
    /\ Sim(s, t)
    /\ s2 \in SrvT
    /\ t2 \in CliT
    /\ s2.parts = s.parts
    /\ t2.parts = t.parts
    /\ CallsKept(s, t, s2, t2)
    /\ s2.fin = t2.fin
    /\ s2.meta = t2.meta
    /\ t2.at = t.at
    /\ (s2.active = s.active \/ DOMAIN s2.active = {})

\* The parts stay in both folds.
LEMMA SameParts ==
    ASSUME NEW s, NEW t, NEW s2, NEW t2, PartsKept(s, t, s2, t2)
    PROVE  Sim(s2, t2) /\ ViewsSame(s, t, s2, t2) /\ TextSame(s.parts, s2.parts)
  <1> USE DEF PartsKept
  <1>1. Agree(s2, t2)
    BY DEF Sim, Agree
  <1>2. Tracks(s2, t2)
    BY DEF Sim, Tracks, CallsKept
  <1>3. Placed(s2, t2)
    <2>1. Placed(s, t)
      BY DEF Sim
    <2>2. \A key \in DOMAIN s2.active :
            key[1] \in TextKinds /\ key \in DOMAIN t2.at /\ s2.active[key] = t2.at[key]
      BY <2>1 DEF Placed
    <2> QED
      BY ONLY <2>1, <2>2, s2.parts = s.parts, t2.parts = t.parts, t2.at = t.at DEF Placed
  <1>4. Sim(s2, t2)
    BY <1>1, <1>2, <1>3 DEF Sim
  <1>5. \A d \in Calls : View(s2, t2, d) = View(s, t, d)
    BY DEF View, CallsKept
  <1> QED
    BY <1>4, <1>5 DEF ViewsSame, TextSame

-----------------------------------------------------------------------------
(* What the two reducers do to a call's part. *)

Patched(p, st, in) == [p EXCEPT !.st = st, !.in = IF in = "none" THEN p.in ELSE in]
Written(c, st, in, ap, sm) == [Part("tool", c) EXCEPT !.st = st, !.in = in, !.ap = ap, !.sm = sm]

LEMMA PartFacts ==
    ASSUME NEW k \in Words, NEW id \in Ids
    PROVE  /\ Part(k, id) \in PartT /\ Part(k, id).k = k /\ Part(k, id).id = id /\ Part(k, id).txt = <<>>
           /\ Part(k, id).st = "none" /\ Part(k, id).in = "none" /\ Part(k, id).ap = "none"
           /\ Part(k, id).sm = "none"
  <1>1. PICK e : e = <<>>
    OBVIOUS
  <1>2. e \in Seq(Nat) /\ "none" \in Vals /\ "none" \in Words
    BY <1>1, EmptySeq DEF Vals, Words
  <1>3. Part(k, id) = [k |-> k, id |-> id, st |-> "none", txt |-> e, in |-> "none", ap |-> "none", sm |-> "none"]
    BY <1>1 DEF Part
  <1>4. Part(k, id) \in PartT
    BY <1>2, <1>3 DEF PartT
  <1> QED
    BY <1>1, <1>3, <1>4

LEMMA PatchedFacts ==
    ASSUME NEW p \in PartT, NEW st \in Words, NEW in \in Vals
    PROVE  LET u == Patched(p, st, in)
           IN  /\ u \in PartT /\ u.k = p.k /\ u.id = p.id /\ u.txt = p.txt /\ u.ap = p.ap /\ u.sm = p.sm
               /\ u.st = st /\ u.in = IF in = "none" THEN p.in ELSE in
  BY DEF Patched, PartT

LEMMA WrittenFacts ==
    ASSUME NEW c \in Calls, NEW st \in Words, NEW in \in Vals, NEW ap \in Words, NEW sm \in Words
    PROVE  LET u == Written(c, st, in, ap, sm)
           IN  /\ u \in PartT /\ u.k = "tool" /\ u.id = c /\ u.txt = <<>> /\ u.ap = ap /\ u.sm = sm
               /\ u.st = st /\ u.in = in
  <1>1. c \in Ids
    BY DEF Ids
  <1>0. "tool" \in Words
    BY DEF Words
  <1>2. Part("tool", c) \in PartT
    BY <1>0, <1>1, PartFacts
  <1>3. Part("tool", c).k = "tool" /\ Part("tool", c).id = c /\ Part("tool", c).txt = <<>>
    BY <1>0, <1>1, PartFacts
  <1> DEFINE base == Part("tool", c)
  <1>4. base \in PartT /\ base.k = "tool" /\ base.id = c /\ base.txt = <<>>
    BY <1>2, <1>3
  <1>5. Written(c, st, in, ap, sm) = [base EXCEPT !.st = st, !.in = in, !.ap = ap, !.sm = sm]
    BY SMTT(30) DEF Written
  <1> HIDE DEF base
  <1> QED
    BY <1>4, <1>5 DEF PartT

\* What Sim says of one call that has a part.
LEMMA CallFacts ==
    ASSUME NEW s, NEW t, Sim(s, t), NEW c \in DOMAIN t.tools
    PROVE  LET i == t.tools[c].pos
           IN  /\ c \in Calls /\ i \in DOMAIN t.parts /\ i \in DOMAIN s.parts /\ i \in Nat \ {0}
               /\ At(s.parts, "tool", c) = i /\ t.tools[c] \in Track
               /\ s.parts[i] \in PartT /\ t.parts[i] \in PartT /\ PartsAgree(s.parts[i], t.parts[i])
               /\ t.parts[i].k = "tool" /\ t.parts[i].id = c /\ t.parts[i].txt = <<>>
               /\ s.parts[i].k = "tool" /\ s.parts[i].id = c /\ s.parts[i].txt = <<>>
               /\ t.tools[c].in = t.parts[i].in /\ t.tools[c].sm = t.parts[i].sm
               /\ t.tools[c].asked = (c \in s.asked)
               /\ c \notin s.asked => s.parts[i].ap = "none"
               /\ s.parts[i].sm = t.parts[i].sm
  <1> DEFINE i == t.tools[c].pos
  <1>1. s.parts \in Seq(PartT) /\ t.parts \in Seq(PartT) /\ Len(s.parts) = Len(t.parts)
    BY DEF Sim, SrvT, CliT, Agree
  <1>2. /\ DOMAIN s.parts = DOMAIN t.parts /\ DOMAIN t.parts \subseteq Nat \ {0}
        /\ \A j \in DOMAIN s.parts : PartsAgree(s.parts[j], t.parts[j])
    BY <1>1, SeqFacts DEF Sim, Agree
  <1>3. t.tools \in Fns(Calls, Track)
    BY DEF Sim, CliT
  <1>4. c \in Calls /\ t.tools[c] \in Track
    BY <1>3, FnsFacts
  <1>5. /\ i \in DOMAIN t.parts /\ t.parts[i].k = "tool" /\ t.parts[i].id = c
        /\ t.tools[c].in = t.parts[i].in /\ t.tools[c].sm = t.parts[i].sm
        /\ t.tools[c].asked <=> c \in s.asked
        /\ c \notin s.asked => s.parts[i].ap = "none"
    BY DEF Sim, Tracks
  <1>6. t.parts[i].txt = <<>>
    BY <1>5 DEF Sim, Tracks
  <1>7. s.parts[i] \in PartT /\ t.parts[i] \in PartT
    BY <1>1, <1>2, <1>5, SeqFacts
  <1>8. At(s.parts, "tool", c) = i
    BY AtTool
  <1>9. t.tools[c].asked = (c \in s.asked)
    BY <1>4, <1>5 DEF Track
  <1> HIDE DEF i
  <1>10. PartsAgree(s.parts[i], t.parts[i])
    BY <1>2, <1>5
  <1>11. s.parts[i].k = "tool" /\ s.parts[i].id = c /\ s.parts[i].txt = <<>> /\ s.parts[i].sm = t.parts[i].sm
    BY <1>5, <1>6, <1>10 DEF PartsAgree
  <1> QED
    BY <1>2, <1>4, <1>5, <1>6, <1>7, <1>8, <1>9, <1>10, <1>11 DEF i

\* A fold finds a part by its kind and id alone.
LEMMA AtSame ==
    ASSUME NEW q \in Seq(PartT), NEW u \in Seq(PartT), Len(u) = Len(q), NEW k, NEW id,
           \A i \in DOMAIN q : u[i].k = q[i].k /\ u[i].id = q[i].id
    PROVE  At(u, k, id) = At(q, k, id)
  <1> DEFINE I == {j \in 1..Len(q) : q[j].k = k /\ q[j].id = id}
             J == {j \in 1..Len(u) : u[j].k = k /\ u[j].id = id}
  <1>1. I = J
    BY SeqFacts
  <1>2. At(q, k, id) = IF I = {} THEN 0 ELSE CHOOSE x \in I : \A y \in I : x <= y
    BY DEF At, SelectInSeq, Min
  <1>3. At(u, k, id) = IF J = {} THEN 0 ELSE CHOOSE x \in J : \A y \in J : x <= y
    BY DEF At, SelectInSeq, Min
  <1> HIDE DEF I, J
  <1> QED
    BY <1>1, <1>2, <1>3

\* The part of a call once its state is set and its approval settled.
Resolved(s, p, c, st, in, answer) ==
    IF c \in s.asked THEN [Patched(p, st, in) EXCEPT !.ap = answer] ELSE Patched(p, st, in)

ResolvedAs(u, s, p, c, st, in, answer) ==
    /\ u \in PartT /\ u.k = p.k /\ u.id = p.id /\ u.txt = p.txt /\ u.sm = p.sm
    /\ u.st = st /\ u.in = (IF in = "none" THEN p.in ELSE in)
    /\ u.ap = IF c \in s.asked THEN answer ELSE p.ap

LEMMA ResolvedFacts ==
    ASSUME NEW s, NEW p \in PartT, NEW c, NEW st \in Words, NEW in \in Vals, NEW answer \in Words
    PROVE  ResolvedAs(Resolved(s, p, c, st, in, answer), s, p, c, st, in, answer)
  <1> DEFINE v == Patched(p, st, in)
  <1>1. /\ v \in PartT /\ v.k = p.k /\ v.id = p.id /\ v.txt = p.txt /\ v.ap = p.ap /\ v.sm = p.sm
        /\ v.st = st /\ v.in = IF in = "none" THEN p.in ELSE in
    BY PatchedFacts
  <1>2. Resolved(s, p, c, st, in, answer) = IF c \in s.asked THEN [v EXCEPT !.ap = answer] ELSE v
    BY DEF Resolved
  <1> HIDE DEF v
  <1>3. /\ [v EXCEPT !.ap = answer] \in PartT /\ [v EXCEPT !.ap = answer].ap = answer
        /\ [v EXCEPT !.ap = answer].k = v.k /\ [v EXCEPT !.ap = answer].id = v.id
        /\ [v EXCEPT !.ap = answer].txt = v.txt /\ [v EXCEPT !.ap = answer].sm = v.sm
        /\ [v EXCEPT !.ap = answer].st = v.st /\ [v EXCEPT !.ap = answer].in = v.in
    BY <1>1 DEF PartT
  <1> QED
    BY <1>1, <1>2, <1>3 DEF ResolvedAs

\* A fold with the part at i replaced, or with one more part; the client's with a call's track too.
SetAt(s, i, p) == [s EXCEPT !.parts = [s.parts EXCEPT ![i] = p]]
Added(s, p) == [s EXCEPT !.parts = Append(s.parts, p)]
WithTools(t, f) == [t EXCEPT !.tools = f]

LEMMA SetSrv ==
    ASSUME NEW s \in SrvT, NEW i \in DOMAIN s.parts, NEW p \in PartT
    PROVE  LET u == SetAt(s, i, p)
           IN  /\ u \in SrvT /\ u.parts = [s.parts EXCEPT ![i] = p] /\ u.active = s.active
               /\ u.partial = s.partial /\ u.asked = s.asked /\ u.fin = s.fin /\ u.meta = s.meta
  <1> DEFINE q == [s.parts EXCEPT ![i] = p]
  <1>1. s.parts \in Seq(PartT)
    BY DEF SrvT
  <1>2. q \in Seq(PartT)
    BY <1>1, ChangeFacts
  <1>3. SetAt(s, i, p) = [s EXCEPT !.parts = q]
    BY DEF SetAt
  <1> HIDE DEF q
  <1>4. LET u == [s EXCEPT !.parts = q]
        IN  /\ u \in SrvT /\ u.parts = q /\ u.active = s.active /\ u.partial = s.partial
            /\ u.asked = s.asked /\ u.fin = s.fin /\ u.meta = s.meta
    BY ONLY s \in SrvT, <1>2 DEF SrvT
  <1> QED
    BY <1>3, <1>4 DEF q

LEMMA AddSrv ==
    ASSUME NEW s \in SrvT, NEW p \in PartT
    PROVE  LET u == Added(s, p)
           IN  /\ u \in SrvT /\ u.parts = Append(s.parts, p) /\ u.active = s.active
               /\ u.partial = s.partial /\ u.asked = s.asked /\ u.fin = s.fin /\ u.meta = s.meta
  <1> DEFINE q == Append(s.parts, p)
  <1>1. s.parts \in Seq(PartT)
    BY DEF SrvT
  <1>2. q \in Seq(PartT)
    BY <1>1, AppendFacts
  <1>3. Added(s, p) = [s EXCEPT !.parts = q]
    BY DEF Added
  <1> HIDE DEF q
  <1>4. LET u == [s EXCEPT !.parts = q]
        IN  /\ u \in SrvT /\ u.parts = q /\ u.active = s.active /\ u.partial = s.partial
            /\ u.asked = s.asked /\ u.fin = s.fin /\ u.meta = s.meta
    BY ONLY s \in SrvT, <1>2 DEF SrvT
  <1> QED
    BY <1>3, <1>4 DEF q

LEMMA SetCli ==
    ASSUME NEW t \in CliT, NEW i \in DOMAIN t.parts, NEW p \in PartT
    PROVE  LET u == SetAt(t, i, p)
           IN  /\ u \in CliT /\ u.parts = [t.parts EXCEPT ![i] = p] /\ u.at = t.at
               /\ u.tools = t.tools /\ u.fin = t.fin /\ u.meta = t.meta
  <1> DEFINE q == [t.parts EXCEPT ![i] = p]
  <1>1. t.parts \in Seq(PartT)
    BY DEF CliT
  <1>2. q \in Seq(PartT)
    BY <1>1, ChangeFacts
  <1>3. SetAt(t, i, p) = [t EXCEPT !.parts = q]
    BY DEF SetAt
  <1> HIDE DEF q
  <1>4. LET u == [t EXCEPT !.parts = q]
        IN  /\ u \in CliT /\ u.parts = q /\ u.at = t.at /\ u.tools = t.tools /\ u.fin = t.fin /\ u.meta = t.meta
    BY ONLY t \in CliT, <1>2 DEF CliT
  <1> QED
    BY <1>3, <1>4 DEF q

LEMMA AddCli ==
    ASSUME NEW t \in CliT, NEW p \in PartT
    PROVE  LET u == Added(t, p)
           IN  /\ u \in CliT /\ u.parts = Append(t.parts, p) /\ u.at = t.at
               /\ u.tools = t.tools /\ u.fin = t.fin /\ u.meta = t.meta
  <1> DEFINE q == Append(t.parts, p)
  <1>1. t.parts \in Seq(PartT)
    BY DEF CliT
  <1>2. q \in Seq(PartT)
    BY <1>1, AppendFacts
  <1>3. Added(t, p) = [t EXCEPT !.parts = q]
    BY DEF Added
  <1> HIDE DEF q
  <1>4. LET u == [t EXCEPT !.parts = q]
        IN  /\ u \in CliT /\ u.parts = q /\ u.at = t.at /\ u.tools = t.tools /\ u.fin = t.fin /\ u.meta = t.meta
    BY ONLY t \in CliT, <1>2 DEF CliT
  <1> QED
    BY <1>3, <1>4 DEF q

LEMMA ToolsCli ==
    ASSUME NEW t \in CliT, NEW f \in Fns(Calls, Track)
    PROVE  LET u == WithTools(t, f)
           IN  /\ u \in CliT /\ u.parts = t.parts /\ u.at = t.at
               /\ u.tools = f /\ u.fin = t.fin /\ u.meta = t.meta
  BY DEF WithTools, CliT

LEMMA UpsertIs ==
    ASSUME NEW s \in SrvT, NEW c, NEW st, NEW in
    PROVE  LET i == At(s.parts, "tool", c)
           IN  Upsert(s, c, st, in) = IF i = 0 THEN Added(s, Patched(Part("tool", c), st, in))
                                      ELSE SetAt(s, i, Patched(s.parts[i], st, in))
  <1> DEFINE i == At(s.parts, "tool", c)
  <1>1. CASE i = 0
    BY <1>1 DEF Upsert, Patched, Part, SrvT, Added
  <1>2. CASE i # 0
    <2> DEFINE o == s.parts[i]
               q == [s.parts EXCEPT ![i] = Patched(o, st, in)]
    <2>1. i = At(s.parts, "tool", c)
      OBVIOUS
    <2> HIDE DEF i
    <2>2. Upsert(s, c, st, in) =
            [s EXCEPT !.parts[i] = [o EXCEPT !.st = st, !.in = IF in = "none" THEN o.in ELSE in]]
      BY <1>2, <2>1 DEF Upsert
    <2> DEFINE v == [o EXCEPT !.st = st, !.in = IF in = "none" THEN o.in ELSE in]
    <2>3. v = Patched(o, st, in)
      BY DEF Patched
    <2> HIDE DEF v
    <2>4. [s EXCEPT !.parts[i] = v] = [s EXCEPT !.parts = [s.parts EXCEPT ![i] = v]]
      BY DEF SrvT
    <2>5. Upsert(s, c, st, in) = SetAt(s, i, Patched(o, st, in))
      BY <2>2, <2>3, <2>4 DEF v, SetAt
    <2> QED
      BY <1>2, <2>1, <2>5
  <1> QED
    BY <1>1, <1>2

LEMMA WriteIs ==
    ASSUME NEW t \in CliT, NEW c, NEW st, NEW in, NEW ap
    PROVE  Write(t, c, st, in, ap) =
             WithTools(SetAt(t, t.tools[c].pos, Written(c, st, in, ap, t.tools[c].sm)),
                       [t.tools EXCEPT ![c] = [t.tools[c] EXCEPT !.in = in]])
  BY DEF Write, Written, SetAt, WithTools, CliT

LEMMA SettledIs ==
    ASSUME NEW s \in SrvT, NEW c, NEW i \in DOMAIN s.parts, At(s.parts, "tool", c) = i, i # 0,
           NEW st \in Words, NEW in \in Vals, NEW answer \in Words
    PROVE  SettleApproval(Upsert(s, c, st, in), c, answer) =
             SetAt(s, i, Resolved(s, s.parts[i], c, st, in, answer))
  <1> DEFINE o == s.parts[i]
             v == Patched(o, st, in)
             s1 == SetAt(s, i, v)
             q == [s.parts EXCEPT ![i] = v]
             p == Resolved(s, o, c, st, in, answer)
  <1>1. s.parts \in Seq(PartT) /\ o \in PartT
    BY SeqFacts DEF SrvT
  <1>2. Upsert(s, c, st, in) = s1
    BY UpsertIs
  <1>3. /\ v \in PartT /\ v.k = o.k /\ v.id = o.id
    BY <1>1, PatchedFacts
  <1>4. p = IF c \in s.asked THEN [v EXCEPT !.ap = answer] ELSE v
    BY DEF Resolved
  <1> HIDE DEF v, p
  <1>5. /\ q \in Seq(PartT) /\ Len(q) = Len(s.parts) /\ DOMAIN q = DOMAIN s.parts /\ q[i] = v
        /\ \A j \in DOMAIN s.parts : j # i => q[j] = s.parts[j]
    BY <1>1, <1>3, ChangeFacts
  <1>6. \A j \in DOMAIN s.parts : q[j].k = s.parts[j].k /\ q[j].id = s.parts[j].id
    BY <1>3, <1>5
  <1>7. At(q, "tool", c) = i
    <2> HIDE DEF q
    <2> QED
      BY <1>1, <1>5, <1>6, AtSame
  <1>8. s1.parts = q /\ s1.asked = s.asked /\ s1 \in SrvT
    BY <1>3, SetSrv
  <1>11. SettleApproval(s1, c, answer) = IF c \notin s.asked THEN s1 ELSE [s1 EXCEPT !.parts[i].ap = answer]
    <2> HIDE DEF s1, q
    <2> QED
      BY <1>7, <1>8 DEF SettleApproval
  <1>12. CASE c \notin s.asked
    <2>1. SettleApproval(s1, c, answer) = s1 /\ p = v
      BY <1>4, <1>11, <1>12
    <2> QED
      BY <1>2, <2>1 DEF p
  <1>13. CASE c \in s.asked
    <2>1. [s1 EXCEPT !.parts[i].ap = answer] = [s1 EXCEPT !.parts = [q EXCEPT ![i].ap = answer]]
      BY <1>8
    <2>2. [q EXCEPT ![i].ap = answer] = [s.parts EXCEPT ![i] = p]
      BY <1>4, <1>5, <1>13
    <2> DEFINE r == [s.parts EXCEPT ![i] = p]
    <2>3. SettleApproval(s1, c, answer) = [s1 EXCEPT !.parts = r]
      BY <1>11, <1>13, <2>1, <2>2
    <2> HIDE DEF r, q
    <2>4. [s1 EXCEPT !.parts = r] = [s EXCEPT !.parts = r]
      BY DEF SrvT, SetAt
    <2> QED
      BY <1>2, <2>3, <2>4 DEF r, p, SetAt
  <1> QED
    BY <1>12, <1>13

\* Which handlers a chunk reaches.
LEMMA Handlers ==
    ASSUME NEW s, NEW t, NEW ch
    PROVE  /\ ch.k = "tool-input" => ApplyChunk(s, ch) = ToolInput(s, ch) /\ ReduceTurn(t, ch) = ToolDispatch(t, ch)
           /\ ch.k = "approval" => /\ ApplyChunk(s, ch) = ToolApprovalRequest(s, ch)
                                   /\ ReduceTurn(t, ch) = ToolDispatch(t, ch)
           /\ ch.k = "tool-output" => ApplyChunk(s, ch) = ToolOutput(s, ch) /\ ReduceTurn(t, ch) = ToolDispatch(t, ch)
           /\ ch.k = "tool-summary" => /\ ApplyChunk(s, ch) = ToolSummary(s, ch)
                                       /\ ReduceTurn(t, ch) = ApplyToolSummary(t, ch)
           /\ ch.k \in TextKinds => ApplyChunk(s, ch) = StreamPart(s, ch) /\ ReduceTurn(t, ch) = StreamPartAt(t, ch)
           /\ ch.k \in DataKinds => ApplyChunk(s, ch) = DataChunk(s, ch) /\ ReduceTurn(t, ch) = ApplyData(t, ch)
           /\ ch.k = "file" \/ (ch.k = "step" /\ ch.op = "start") =>
                ApplyChunk(s, ch) = PlainPart(s, ch) /\ ReduceTurn(t, ch) = AppendPart(t, Part(ch.k, None))
           /\ ch.k = "step" /\ ch.op = "finish" =>
                ApplyChunk(s, ch) = [s EXCEPT !.active = << >>] /\ ReduceTurn(t, ch) = t
           /\ ch.k = "message" /\ ch.op = "start" =>
                /\ ApplyChunk(s, ch) = [s EXCEPT !.meta = @ \cup {ch.x}]
                /\ ReduceTurn(t, ch) = [t EXCEPT !.meta = @ \cup {ch.x}]
           /\ ch.k = "message" /\ ch.op = "finish" =>
                ApplyChunk(s, ch) = [s EXCEPT !.fin = ch.x] /\ ReduceTurn(t, ch) = [t EXCEPT !.fin = ch.x]
           /\ ch.k = "error" => ApplyChunk(s, ch) = s /\ ReduceTurn(t, ch) = [t EXCEPT !.errors = @ + 1]
  <1>1. ch.k = "tool-input" => ApplyChunk(s, ch) = ToolInput(s, ch) /\ ReduceTurn(t, ch) = ToolDispatch(t, ch)
    BY DEF ApplyChunk, ReduceTurn, DataKinds
  <1>2. ch.k = "approval" => ApplyChunk(s, ch) = ToolApprovalRequest(s, ch) /\ ReduceTurn(t, ch) = ToolDispatch(t, ch)
    BY DEF ApplyChunk, ReduceTurn, DataKinds
  <1>3. ch.k = "tool-output" => ApplyChunk(s, ch) = ToolOutput(s, ch) /\ ReduceTurn(t, ch) = ToolDispatch(t, ch)
    BY DEF ApplyChunk, ReduceTurn, DataKinds
  <1>4. ch.k = "tool-summary" => ApplyChunk(s, ch) = ToolSummary(s, ch) /\ ReduceTurn(t, ch) = ApplyToolSummary(t, ch)
    BY DEF ApplyChunk, ReduceTurn, DataKinds
  <1>5. ch.k \in TextKinds => ApplyChunk(s, ch) = StreamPart(s, ch) /\ ReduceTurn(t, ch) = StreamPartAt(t, ch)
    BY DEF ApplyChunk, ReduceTurn, DataKinds, TextKinds
  <1>6. ch.k \in DataKinds => ApplyChunk(s, ch) = DataChunk(s, ch) /\ ReduceTurn(t, ch) = ApplyData(t, ch)
    BY DEF ApplyChunk, ReduceTurn, DataKinds
  <1>7. ch.k = "file" \/ (ch.k = "step" /\ ch.op = "start") =>
          ApplyChunk(s, ch) = PlainPart(s, ch) /\ ReduceTurn(t, ch) = AppendPart(t, Part(ch.k, None))
    BY DEF ApplyChunk, ReduceTurn, DataKinds
  <1>8. ch.k = "step" /\ ch.op = "finish" =>
          ApplyChunk(s, ch) = [s EXCEPT !.active = << >>] /\ ReduceTurn(t, ch) = t
    BY DEF ApplyChunk, ReduceTurn, DataKinds
  <1>9. ch.k = "message" /\ ch.op = "start" =>
          /\ ApplyChunk(s, ch) = [s EXCEPT !.meta = @ \cup {ch.x}]
          /\ ReduceTurn(t, ch) = [t EXCEPT !.meta = @ \cup {ch.x}]
    BY DEF ApplyChunk, ReduceTurn, DataKinds
  <1>10. ch.k = "message" /\ ch.op = "finish" =>
           ApplyChunk(s, ch) = [s EXCEPT !.fin = ch.x] /\ ReduceTurn(t, ch) = [t EXCEPT !.fin = ch.x]
    BY DEF ApplyChunk, ReduceTurn, DataKinds
  <1>11. ch.k = "error" => ApplyChunk(s, ch) = s /\ ReduceTurn(t, ch) = [t EXCEPT !.errors = @ + 1]
    BY DEF ApplyChunk, ReduceTurn, DataKinds
  <1> QED
    BY <1>1, <1>2, <1>3, <1>4, <1>5, <1>6, <1>7, <1>8, <1>9, <1>10, <1>11

\* A chunk of a call changes that call's part alone.
ToolStep(s, t, s2, t2, c) ==
    /\ Sim(s2, t2) /\ OthersSame(s, t, s2, t2, c) /\ TextSame(s.parts, s2.parts)
    /\ s2.active = s.active

LEMMA SameSeq == \A q \in Seq(PartT) : \A i : [q EXCEPT ![i] = q[i]] = q
  <1> TAKE q \in Seq(PartT)
  <1> TAKE i
  <1>1. q \in [1..Len(q) -> PartT]
    BY LenProperties
  <1> QED
    BY <1>1

\* Call c's part becomes p and q, its track r; s1 is the server's fold with c noted.
Noted(s, s1, c) ==
    /\ s1 \in SrvT /\ s1.parts = s.parts /\ s1.active = s.active /\ s1.fin = s.fin /\ s1.meta = s.meta
    /\ s1.asked \in {s.asked, s.asked \cup {c}} /\ s1.partial \in {s.partial, s.partial \cup {c}}
Changes(s, t, s1, c, p, q, r) ==
    /\ Sim(s, t) /\ c \in DOMAIN t.tools /\ Noted(s, s1, c) /\ p \in PartT /\ q \in PartT /\ r \in Track
    /\ PartsAgree(p, q) /\ q.k = "tool" /\ q.id = c /\ q.txt = <<>>
    /\ r.pos = t.tools[c].pos /\ r.in = q.in /\ r.sm = q.sm
    /\ r.asked = (c \in s1.asked) /\ (c \notin s1.asked => p.ap = "none")
Starts(s, t, s1, c, p, q, r) ==
    /\ Sim(s, t) /\ c \in Calls /\ c \notin DOMAIN t.tools /\ Noted(s, s1, c) /\ s1.asked = s.asked
    /\ p \in PartT /\ q \in PartT /\ r \in Track
    /\ PartsAgree(p, q) /\ q.k = "tool" /\ q.id = c /\ q.txt = <<>>
    /\ r.pos = Len(t.parts) + 1 /\ r.in = q.in /\ r.sm = q.sm /\ ~r.asked /\ p.ap = "none"

\* What a view that is written out says.
Seen(v, x, y, c, A, P) ==
    v.here /\ v.srv = x /\ v.cli = y /\ (v.asked <=> c \in A) /\ (v.partial <=> c \in P)

LEMMA Reading ==
    ASSUME NEW v, NEW x, NEW y, NEW c, NEW A, NEW P,
           v = [here |-> TRUE, srv |-> x, cli |-> y, asked |-> c \in A, partial |-> c \in P]
    PROVE  Seen(v, x, y, c, A, P)
  <1>1. v.here
    OBVIOUS
  <1>2. v.srv = x /\ v.cli = y
    OBVIOUS
  <1>3. v.asked <=> c \in A
    OBVIOUS
  <1>4. v.partial <=> c \in P
    OBVIOUS
  <1> QED
    BY ONLY <1>1, <1>2, <1>3, <1>4 DEF Seen

LEMMA ReadingNew ==
    ASSUME NEW v, NEW x, NEW y, NEW c, NEW P,
           v = [here |-> TRUE, srv |-> x, cli |-> y, asked |-> FALSE, partial |-> c \in P]
    PROVE  Seen(v, x, y, c, {}, P)
  <1>1. v.here
    OBVIOUS
  <1>2. v.srv = x /\ v.cli = y
    OBVIOUS
  <1>3. ~v.asked
    OBVIOUS
  <1>4. v.partial <=> c \in P
    OBVIOUS
  <1> QED
    BY ONLY <1>1, <1>2, <1>3, <1>4 DEF Seen

LEMMA ChangeCall ==
    ASSUME NEW s, NEW t, NEW s1, NEW c, NEW p, NEW q, NEW r, Changes(s, t, s1, c, p, q, r)
    PROVE  LET s2 == SetAt(s1, t.tools[c].pos, p)
               t2 == WithTools(SetAt(t, t.tools[c].pos, q), [t.tools EXCEPT ![c] = r])
           IN  /\ ToolStep(s, t, s2, t2, c)
               /\ Seen(View(s2, t2, c), p.st, q.st, c, s1.asked, s1.partial)
  <1> DEFINE i == t.tools[c].pos
             f == [t.tools EXCEPT ![c] = r]
             t1 == SetAt(t, i, q)
             s2 == SetAt(s1, i, p)
             t2 == WithTools(t1, f)
  <1>1. /\ Sim(s, t) /\ c \in DOMAIN t.tools /\ Noted(s, s1, c) /\ p \in PartT /\ q \in PartT /\ r \in Track
        /\ PartsAgree(p, q) /\ q.k = "tool" /\ q.id = c /\ q.txt = <<>>
        /\ r.pos = i /\ r.in = q.in /\ r.sm = q.sm
        /\ r.asked = (c \in s1.asked) /\ (c \notin s1.asked => p.ap = "none")
    BY DEF Changes
  <1>2. i \in DOMAIN t.parts /\ i \in DOMAIN s.parts
    BY <1>1, CallFacts
  <1>3. s \in SrvT /\ t \in CliT /\ t.tools \in Fns(Calls, Track)
    BY <1>1 DEF Sim, CliT
  <1>4. f \in Fns(Calls, Track)
    BY <1>1, <1>3, ChangeFns
  <1>5. i \in DOMAIN s1.parts /\ s1 \in SrvT
    BY <1>1, <1>2 DEF Noted
  <1>8. i = t.tools[c].pos /\ f = [t.tools EXCEPT ![c] = r]
    OBVIOUS
  <1> HIDE DEF i, f
  <1>6. /\ s2 \in SrvT /\ s2.parts = [s1.parts EXCEPT ![i] = p] /\ s2.active = s1.active
        /\ s2.partial = s1.partial /\ s2.asked = s1.asked /\ s2.fin = s1.fin /\ s2.meta = s1.meta
    BY ONLY <1>1, <1>5, SetSrv
  <1>7. /\ t1 \in CliT /\ t1.parts = [t.parts EXCEPT ![i] = q] /\ t1.at = t.at
        /\ t1.tools = t.tools /\ t1.fin = t.fin /\ t1.meta = t.meta
    BY ONLY <1>1, <1>2, <1>3, SetCli
  <1> HIDE DEF t1
  <1>9. /\ t2 \in CliT /\ t2.parts = t1.parts /\ t2.at = t1.at
        /\ t2.tools = f /\ t2.fin = t1.fin /\ t2.meta = t1.meta
    BY ONLY <1>4, <1>7, ToolsCli
  <1> HIDE DEF s2, t2
  <1>10. ToolSet(s, t, s2, t2, c, p, q, r)
    BY ONLY <1>1, <1>6, <1>7, <1>8, <1>9 DEF ToolSet, Noted
  <1>11. /\ Sim(s2, t2) /\ OthersSame(s, t, s2, t2, c) /\ TextSame(s.parts, s2.parts)
         /\ View(s2, t2, c) = [here |-> TRUE, srv |-> p.st, cli |-> q.st,
                               asked |-> c \in s2.asked, partial |-> c \in s2.partial]
    BY ONLY <1>10, SetTool
  <1>12. /\ ToolStep(s, t, s2, t2, c)
         /\ View(s2, t2, c) = [here |-> TRUE, srv |-> p.st, cli |-> q.st,
                               asked |-> c \in s1.asked, partial |-> c \in s1.partial]
    BY ONLY <1>1, <1>6, <1>11 DEF ToolStep, Noted
  <1> QED
    <2>1. PICK v : v = View(s2, t2, c)
      OBVIOUS
    <2>2. Seen(v, p.st, q.st, c, s1.asked, s1.partial)
      BY ONLY <1>12, <2>1, Reading
    <2>3. Seen(View(s2, t2, c), p.st, q.st, c, s1.asked, s1.partial)
      BY ONLY <2>1, <2>2
    <2> QED
      BY <1>12, <2>3 DEF s2, t2, t1, i, f

LEMMA StartCall ==
    ASSUME NEW s, NEW t, NEW s1, NEW c, NEW p, NEW q, NEW r, Starts(s, t, s1, c, p, q, r)
    PROVE  LET s2 == Added(s1, p)
               t2 == WithTools(Added(t, q), Put(t.tools, c, r))
           IN  /\ ToolStep(s, t, s2, t2, c)
               /\ Seen(View(s2, t2, c), p.st, q.st, c, {}, s1.partial)
  <1> DEFINE f == Put(t.tools, c, r)
             t1 == Added(t, q)
             s2 == Added(s1, p)
             t2 == WithTools(t1, f)
  <1>1. /\ Sim(s, t) /\ c \in Calls /\ c \notin DOMAIN t.tools /\ Noted(s, s1, c) /\ s1.asked = s.asked
        /\ p \in PartT /\ q \in PartT /\ r \in Track
        /\ PartsAgree(p, q) /\ q.k = "tool" /\ q.id = c /\ q.txt = <<>>
        /\ r.pos = Len(t.parts) + 1 /\ r.in = q.in /\ r.sm = q.sm /\ ~r.asked /\ p.ap = "none"
    BY DEF Starts
  <1>3. s \in SrvT /\ t \in CliT /\ t.tools \in Fns(Calls, Track)
    BY <1>1 DEF Sim, CliT
  <1>4. f \in Fns(Calls, Track)
    BY <1>1, <1>3, PutFns
  <1>5. s1 \in SrvT
    BY <1>1 DEF Noted
  <1>8. f = Put(t.tools, c, r)
    OBVIOUS
  <1> HIDE DEF f
  <1>6. /\ s2 \in SrvT /\ s2.parts = Append(s1.parts, p) /\ s2.active = s1.active
        /\ s2.partial = s1.partial /\ s2.asked = s1.asked /\ s2.fin = s1.fin /\ s2.meta = s1.meta
    BY ONLY <1>1, <1>5, AddSrv
  <1>7. /\ t1 \in CliT /\ t1.parts = Append(t.parts, q) /\ t1.at = t.at
        /\ t1.tools = t.tools /\ t1.fin = t.fin /\ t1.meta = t.meta
    BY ONLY <1>1, <1>3, AddCli
  <1> HIDE DEF t1
  <1>9. /\ t2 \in CliT /\ t2.parts = t1.parts /\ t2.at = t1.at
        /\ t2.tools = f /\ t2.fin = t1.fin /\ t2.meta = t1.meta
    BY ONLY <1>4, <1>7, ToolsCli
  <1> HIDE DEF s2, t2
  <1>10. ToolGrown(s, t, s2, t2, c, p, q, r)
    BY ONLY <1>1, <1>6, <1>7, <1>8, <1>9 DEF ToolGrown, Noted
  <1>11. /\ Sim(s2, t2) /\ OthersSame(s, t, s2, t2, c) /\ TextSame(s.parts, s2.parts)
         /\ View(s2, t2, c) = [here |-> TRUE, srv |-> p.st, cli |-> q.st,
                               asked |-> FALSE, partial |-> c \in s2.partial]
    BY ONLY <1>10, GrowTool
  <1>12. /\ ToolStep(s, t, s2, t2, c)
         /\ View(s2, t2, c) = [here |-> TRUE, srv |-> p.st, cli |-> q.st,
                               asked |-> FALSE, partial |-> c \in s1.partial]
    BY ONLY <1>1, <1>6, <1>11 DEF ToolStep, Noted
  <1> QED
    <2>1. PICK v : v = View(s2, t2, c)
      OBVIOUS
    <2>2. Seen(v, p.st, q.st, c, {}, s1.partial)
      BY ONLY <1>12, <2>1, ReadingNew
    <2>3. Seen(View(s2, t2, c), p.st, q.st, c, {}, s1.partial)
      BY ONLY <2>1, <2>2
    <2> QED
      BY <1>12, <2>3 DEF s2, t2, t1, f

\* The client's fold with a call's part and track as they are.
LEMMA SameCli ==
    ASSUME NEW t \in CliT, NEW i \in DOMAIN t.parts, NEW c \in DOMAIN t.tools
    PROVE  WithTools(SetAt(t, i, t.parts[i]), [t.tools EXCEPT ![c] = t.tools[c]]) = t
  <1>1. t.parts \in Seq(PartT) /\ t.tools \in Fns(Calls, Track)
    BY DEF CliT
  <1>2. [t.parts EXCEPT ![i] = t.parts[i]] = t.parts
    BY <1>1, SameSeq
  <1>3. PICK D : t.tools \in [D -> Track]
    BY <1>1 DEF Fns
  <1>4. [t.tools EXCEPT ![c] = t.tools[c]] = t.tools
    BY <1>3, SMTT(30)
  <1> QED
    BY <1>2, <1>4 DEF WithTools, SetAt, CliT

\* What Sim says of a call's parts o and u at i and of its track w.
CallAt(s, t, c, i, o, u, w) ==
    /\ i = t.tools[c].pos /\ o = s.parts[i] /\ u = t.parts[i] /\ w = t.tools[c]
    /\ c \in Calls /\ i \in DOMAIN t.parts /\ i \in DOMAIN s.parts /\ i \in Nat \ {0}
    /\ At(s.parts, "tool", c) = i /\ w \in Track /\ o \in PartT /\ u \in PartT /\ PartsAgree(o, u)
    /\ u.k = "tool" /\ u.id = c /\ u.txt = <<>> /\ o.k = "tool" /\ o.id = c /\ o.txt = <<>>
    /\ w.pos = i /\ w.in = u.in /\ w.sm = u.sm /\ o.sm = u.sm
    /\ w.asked = (c \in s.asked) /\ (c \notin s.asked => o.ap = "none")
    /\ w.in \in Vals /\ w.sm \in Words

LEMMA Calling ==
    ASSUME NEW s, NEW t, Sim(s, t), NEW c \in DOMAIN t.tools
    PROVE  \E i, o, u, w : CallAt(s, t, c, i, o, u, w)
  <1>1. PICK i, o, u, w : i = t.tools[c].pos /\ o = s.parts[i] /\ u = t.parts[i] /\ w = t.tools[c]
    OBVIOUS
  <1>2. /\ c \in Calls /\ i \in DOMAIN t.parts /\ i \in DOMAIN s.parts /\ i \in Nat \ {0}
        /\ At(s.parts, "tool", c) = i /\ w \in Track /\ o \in PartT /\ u \in PartT /\ PartsAgree(o, u)
        /\ u.k = "tool" /\ u.id = c /\ u.txt = <<>> /\ o.k = "tool" /\ o.id = c /\ o.txt = <<>>
        /\ w.pos = i /\ w.in = u.in /\ w.sm = u.sm /\ o.sm = u.sm
        /\ w.asked = (c \in s.asked) /\ (c \notin s.asked => o.ap = "none")
    BY <1>1, CallFacts
  <1>3. w.in \in Vals /\ w.sm \in Words
    BY <1>2 DEF Track
  <1> QED
    BY <1>1, <1>2, <1>3 DEF CallAt

\* A fold of the server's with c's input arriving.
LEMMA NotedPartial ==
    ASSUME NEW s \in SrvT, NEW c \in Calls
    PROVE  LET s1 == [s EXCEPT !.partial = s.partial \cup {c}]
           IN  Noted(s, s1, c) /\ s1.asked = s.asked /\ c \in s1.partial
  BY DEF SrvT, Noted

LEMMA NotedAsked ==
    ASSUME NEW s \in SrvT, NEW c \in Calls
    PROVE  LET s1 == [s EXCEPT !.asked = s.asked \cup {c}]
           IN  Noted(s, s1, c) /\ c \in s1.asked
  BY DEF SrvT, Noted

LEMMA NotedNothing == ASSUME NEW s \in SrvT, NEW c PROVE Noted(s, s, c)
  BY DEF Noted

LEMMA StartTool ==
    ASSUME NEW s, NEW t, Sim(s, t), NEW c \in Calls, NEW x
    PROVE  LET ch == Chunk("tool-input", "start", c, x)
               s2 == ApplyChunk(s, ch)
               t2 == ReduceTurn(t, ch)
           IN  /\ ToolStep(s, t, s2, t2, c) /\ View(s2, t2, c).here /\ View(s2, t2, c).partial
               /\ (View(s2, t2, c).asked <=> View(s, t, c).asked)
  <1> DEFINE ch == Chunk("tool-input", "start", c, x)
             s1 == [s EXCEPT !.partial = s.partial \cup {c}]
             s2 == ApplyChunk(s, ch)
             t2 == ReduceTurn(t, ch)
  <1>1. s \in SrvT /\ t \in CliT
    BY DEF Sim
  <1>0. ch.k = "tool-input" /\ ch.op = "start" /\ ch.id = c
    BY DEF Chunk
  <1> HIDE DEF ch
  <1>2. s2 = Upsert(s1, c, "input-streaming", "none")
    <2>1. s2 = ToolInput(s, ch)
      BY <1>0, Handlers
    <2> HIDE DEF s2
    <2> QED
      BY <1>0, <2>1 DEF ToolInput
  <1>3. t2 = IF c \in DOMAIN t.tools THEN t ELSE OpenTrack(t, c)
    <2>1. t2 = ToolDispatch(t, ch)
      BY <1>0, Handlers
    <2> HIDE DEF t2
    <2> QED
      BY <1>0, <2>1 DEF ToolDispatch
  <1>4. Noted(s, s1, c) /\ s1.asked = s.asked /\ c \in s1.partial /\ s1 \in SrvT /\ s1.parts = s.parts
    <2>1. Noted(s, s1, c) /\ s1.asked = s.asked /\ c \in s1.partial
      BY <1>1, NotedPartial
    <2> QED
      BY <2>1 DEF Noted
  <1>5. "input-streaming" \in Words /\ "none" \in Words /\ "none" \in Vals
    BY DEF Words, Vals
  <1> HIDE DEF s1, s2, t2
  <1>6. CASE c \in DOMAIN t.tools
    <2>1. PICK i, o, u, w : CallAt(s, t, c, i, o, u, w)
      BY <1>6, Calling, SMTT(30)
    <2> DEFINE p == Patched(o, "input-streaming", "none")
    <2>2. o \in PartT
      BY <2>1 DEF CallAt
    <2>3. /\ p \in PartT /\ p.k = o.k /\ p.id = o.id /\ p.txt = o.txt
          /\ p.ap = o.ap /\ p.sm = o.sm /\ p.st = "input-streaming"
      BY ONLY <1>5, <2>2, PatchedFacts
    <2>4. s2 = SetAt(s1, i, p)
      <3>1. At(s1.parts, "tool", c) = i /\ i # 0 /\ o = s1.parts[i]
        BY <1>4, <2>1 DEF CallAt
      <3> QED
        BY <1>2, <1>4, <3>1, UpsertIs, SMTT(30)
    <2> HIDE DEF p
    <2>5. PartsAgree(p, u)
      BY <2>1, <2>3 DEF PartsAgree, CallAt
    <2>6. Changes(s, t, s1, c, p, u, w)
      BY <1>4, <1>6, <2>1, <2>3, <2>5, Zenon DEF Changes, CallAt
    <2>7. t2 = WithTools(SetAt(t, i, u), [t.tools EXCEPT ![c] = w])
      <3>1. i \in DOMAIN t.parts /\ u = t.parts[i] /\ w = t.tools[c]
        BY <2>1, SMTT(30) DEF CallAt
      <3> QED
        BY <1>1, <1>3, <1>6, <3>1, SameCli
    <2>8. i = t.tools[c].pos
      BY <2>1 DEF CallAt
    <2>9. /\ ToolStep(s, t, s2, t2, c)
          /\ Seen(View(s2, t2, c), p.st, u.st, c, s1.asked, s1.partial)
      BY ONLY <2>4, <2>6, <2>7, <2>8, ChangeCall
    <2>10. View(s, t, c).asked <=> c \in s.asked
      BY <1>6 DEF View
    <2> QED
      <3>1. (c \in s1.asked <=> c \in s.asked) /\ c \in s1.partial
        BY <1>4
      <3>2. /\ View(s2, t2, c).here /\ View(s2, t2, c).partial
            /\ (View(s2, t2, c).asked <=> View(s, t, c).asked)
        BY ONLY <2>9, <2>10, <3>1 DEF Seen
      <3> QED
        BY <2>9, <3>2 DEF s2, t2, ch
  <1>7. CASE c \notin DOMAIN t.tools
    <2> DEFINE z == Part("tool", c)
               p == Patched(z, "input-streaming", "none")
               q == [z EXCEPT !.st = "input-streaming"]
               r == [pos |-> Len(t.parts) + 1, in |-> "none", asked |-> FALSE, sm |-> "none"]
    <2>1. At(s.parts, "tool", c) = 0
      BY <1>7, AtTool
    <2>2. s2 = Added(s1, p)
      BY <1>2, <1>4, <2>1, UpsertIs
    <2>3. t2 = WithTools(Added(t, q), Put(t.tools, c, r))
      BY <1>1, <1>3, <1>7 DEF OpenTrack, AppendPart, CliT, Added, WithTools
    <2>4. "tool" \in Words /\ c \in Ids
      BY DEF Words, Ids
    <2>5. /\ z \in PartT /\ z.k = "tool" /\ z.id = c /\ z.txt = <<>> /\ z.st = "none" /\ z.in = "none"
          /\ z.ap = "none" /\ z.sm = "none"
      BY <2>4, PartFacts
    <2> HIDE DEF z
    <2>6. /\ p \in PartT /\ p.k = z.k /\ p.id = z.id /\ p.txt = z.txt
          /\ p.ap = z.ap /\ p.sm = z.sm /\ p.st = "input-streaming"
      BY <1>5, <2>5, PatchedFacts
    <2>7. /\ q \in PartT /\ q.k = z.k /\ q.id = z.id /\ q.txt = z.txt
          /\ q.in = z.in /\ q.sm = z.sm
      BY <1>5, <2>5 DEF PartT
    <2>8. r \in Track
      <3>1. Len(t.parts) + 1 \in Nat
        BY <1>1, SeqFacts DEF CliT
      <3> QED
        BY <1>5, <3>1 DEF Track
    <2>9. r.pos = Len(t.parts) + 1 /\ r.in = "none" /\ r.asked = FALSE /\ r.sm = "none"
      OBVIOUS
    <2> HIDE DEF p, q, r
    <2>10. PartsAgree(p, q)
      BY <2>5, <2>6, <2>7 DEF PartsAgree
    <2>11. Starts(s, t, s1, c, p, q, r)
      BY <1>4, <1>7, <2>5, <2>6, <2>7, <2>8, <2>9, <2>10 DEF Starts
    <2>12. /\ ToolStep(s, t, s2, t2, c)
           /\ Seen(View(s2, t2, c), p.st, q.st, c, {}, s1.partial)
      BY ONLY <2>2, <2>3, <2>11, StartCall
    <2>13. ~View(s, t, c).asked
      BY <1>7 DEF View, Gone
    <2> QED
      <3>1. c \in s1.partial
        BY <1>4
      <3>2. /\ View(s2, t2, c).here /\ View(s2, t2, c).partial
            /\ (View(s2, t2, c).asked <=> View(s, t, c).asked)
        BY ONLY <2>12, <2>13, <3>1 DEF Seen
      <3> QED
        BY <2>12, <3>2 DEF s2, t2, ch
  <1> QED
    BY <1>6, <1>7 DEF s2, t2, ch

\* The server's fold replaces call c's part by p, the client's writes the call's part anew.
Rewrites(s, t, s1, c, i, o, u, w, p, st, in, ap) ==
    /\ Sim(s, t) /\ c \in DOMAIN t.tools /\ CallAt(s, t, c, i, o, u, w)
    /\ Noted(s, s1, c) /\ s1.asked = s.asked
    /\ p \in PartT /\ p.k = "tool" /\ p.id = c /\ p.txt = <<>> /\ p.sm = o.sm
    /\ st \in Words /\ in \in Vals /\ ap \in Words
    /\ p.st = st /\ (st # "input-streaming" => p.ap = ap)
    /\ (st \notin {"input-streaming", "output-error"} => p.in = in)
    /\ (c \notin s.asked => p.ap = "none")

LEMMA Rewritten ==
    ASSUME NEW s, NEW t, NEW s1, NEW c, NEW i, NEW o, NEW u, NEW w, NEW p, NEW st, NEW in, NEW ap,
           Rewrites(s, t, s1, c, i, o, u, w, p, st, in, ap)
    PROVE  LET s2 == SetAt(s1, i, p)
               t2 == Write(t, c, st, in, ap)
           IN  ToolStep(s, t, s2, t2, c) /\ Seen(View(s2, t2, c), st, st, c, s.asked, s1.partial)
  <1> DEFINE q == Written(c, st, in, ap, w.sm)
             r == [w EXCEPT !.in = in]
             s2 == SetAt(s1, i, p)
             t2 == Write(t, c, st, in, ap)
  <1>1. /\ Sim(s, t) /\ c \in DOMAIN t.tools /\ CallAt(s, t, c, i, o, u, w)
        /\ Noted(s, s1, c) /\ s1.asked = s.asked
        /\ p \in PartT /\ p.k = "tool" /\ p.id = c /\ p.txt = <<>> /\ p.sm = o.sm
        /\ st \in Words /\ in \in Vals /\ ap \in Words
        /\ p.st = st /\ (st # "input-streaming" => p.ap = ap)
        /\ (st \notin {"input-streaming", "output-error"} => p.in = in)
        /\ (c \notin s.asked => p.ap = "none")
    BY DEF Rewrites
  <1>2. /\ i = t.tools[c].pos /\ w = t.tools[c] /\ c \in Calls /\ w \in Track /\ w.sm \in Words
        /\ w.pos = i /\ w.sm = u.sm /\ o.sm = u.sm /\ w.asked = (c \in s.asked)
    BY <1>1, Zenon DEF CallAt
  <1>3. /\ q \in PartT /\ q.k = "tool" /\ q.id = c /\ q.txt = <<>> /\ q.ap = ap /\ q.sm = w.sm
        /\ q.st = st /\ q.in = in
    BY ONLY <1>1, <1>2, WrittenFacts
  <1>4. r \in Track /\ r.pos = w.pos /\ r.in = in /\ r.sm = w.sm /\ r.asked = w.asked
    BY ONLY <1>1, <1>2 DEF Track
  <1>5. t2 = WithTools(SetAt(t, i, q), [t.tools EXCEPT ![c] = r])
    BY <1>1, <1>2, WriteIs DEF Sim
  <1> HIDE DEF q, r
  <1>6. PartsAgree(p, q)
    BY ONLY <1>1, <1>2, <1>3 DEF PartsAgree
  <1>7. Changes(s, t, s1, c, p, q, r)
    BY ONLY <1>1, <1>2, <1>3, <1>4, <1>6 DEF Changes
  <1>8. s2 = SetAt(s1, t.tools[c].pos, p) /\ t2 = WithTools(SetAt(t, t.tools[c].pos, q), [t.tools EXCEPT ![c] = r])
    BY <1>2, <1>5
  <1> HIDE DEF s2, t2
  <1>9. ToolStep(s, t, s2, t2, c) /\ Seen(View(s2, t2, c), p.st, q.st, c, s1.asked, s1.partial)
    BY ONLY <1>7, <1>8, ChangeCall
  <1> QED
    BY <1>1, <1>3, <1>9 DEF s2, t2

\* The server's fold and the client's of one chunk.
After(s, t, ch, s2, t2) == s2 = ApplyChunk(s, ch) /\ t2 = ReduceTurn(t, ch)

\* More of a call's input.
LEMMA DeltaTool ==
    ASSUME NEW s, NEW t, NEW s2, NEW t2, NEW c, NEW x, Sim(s, t),
           After(s, t, Chunk("tool-input", "delta", c, x), s2, t2), c \in s.partial
    PROVE  ToolStep(s, t, s2, t2, c) /\ Seen(View(s2, t2, c), "input-streaming", "input-streaming", c, s.asked, s.partial)
  <1> DEFINE ch == Chunk("tool-input", "delta", c, x)
             in == IF x = "last" THEN "args" ELSE "none"
  <1>0. ch.k = "tool-input" /\ ch.op = "delta" /\ ch.id = c /\ ch.x = x
    BY DEF Chunk
  <1>1. s \in SrvT /\ t \in CliT /\ c \in DOMAIN t.tools
    BY DEF Sim, Tracks
  <1>2. s2 = ToolInput(s, ch) /\ t2 = ToolDispatch(t, ch)
    BY <1>0, Handlers DEF After
  <1> HIDE DEF ch
  <1>3. s2 = Upsert(s, c, "input-streaming", in)
    BY <1>0, <1>2 DEF ToolInput
  <1>4. t2 = Write(t, c, "input-streaming", "text", "none")
    BY <1>0, <1>1, <1>2 DEF ToolDispatch
  <1>5. PICK i, o, u, w : CallAt(s, t, c, i, o, u, w)
    BY <1>1, Calling
  <1>6. "input-streaming" \in Words /\ "none" \in Words /\ in \in Vals /\ "text" \in Vals
    BY SMTT(30) DEF Words, Vals
  <1> HIDE DEF in
  <1> DEFINE p == Patched(o, "input-streaming", in)
  <1>7. o \in PartT /\ At(s.parts, "tool", c) = i /\ i # 0 /\ o = s.parts[i]
    BY <1>5 DEF CallAt
  <1>8. /\ p \in PartT /\ p.k = o.k /\ p.id = o.id /\ p.txt = o.txt
        /\ p.ap = o.ap /\ p.sm = o.sm /\ p.st = "input-streaming"
    BY ONLY <1>6, <1>7, PatchedFacts
  <1>9. s2 = SetAt(s, i, p)
    BY <1>1, <1>3, <1>7, UpsertIs
  <1> HIDE DEF p
  <1>10. Rewrites(s, t, s, c, i, o, u, w, p, "input-streaming", "text", "none")
    <2>1. Noted(s, s, c)
      BY <1>1, NotedNothing, SMTT(30)
    <2>2. o.k = "tool" /\ o.id = c /\ o.txt = <<>> /\ (c \notin s.asked => o.ap = "none")
      BY ONLY <1>5 DEF CallAt
    <2> QED
      BY <1>1, <1>5, <1>6, <1>8, <2>1, <2>2 DEF Rewrites
  <1> QED
    BY ONLY <1>4, <1>9, <1>10, Rewritten

\* A call is refused: its arguments do not parse.
LEMMA ErrorTool ==
    ASSUME NEW s, NEW t, NEW s2, NEW t2, NEW c \in DOMAIN t.tools, NEW x, Sim(s, t),
           After(s, t, Chunk("tool-input", "error", c, x), s2, t2), c \notin s.asked
    PROVE  ToolStep(s, t, s2, t2, c) /\ Seen(View(s2, t2, c), "output-error", "output-error", c, s.asked, s.partial)
  <1> DEFINE ch == Chunk("tool-input", "error", c, x)
  <1>0. ch.k = "tool-input" /\ ch.op = "error" /\ ch.id = c
    BY DEF Chunk
  <1>1. s \in SrvT /\ t \in CliT
    BY DEF Sim
  <1>2. s2 = ToolInput(s, ch) /\ t2 = ToolDispatch(t, ch)
    BY <1>0, Handlers DEF After
  <1> HIDE DEF ch
  <1>3. s2 = Upsert(s, c, "output-error", "none")
    BY <1>0, <1>2 DEF ToolInput
  <1>4. t2 = Write(t, c, "output-error", "none", ApprovedOf(t, c))
    BY <1>0, <1>1, <1>2 DEF ToolDispatch
  <1>5. PICK i, o, u, w : CallAt(s, t, c, i, o, u, w)
    BY <1>1, Calling
  <1>6. "output-error" \in Words /\ "none" \in Words /\ "none" \in Vals
    BY SMTT(30) DEF Words, Vals
  <1>11. ApprovedOf(t, c) = "none"
    BY <1>5 DEF ApprovedOf, CallAt
  <1> DEFINE p == Patched(o, "output-error", "none")
  <1>7. o \in PartT /\ At(s.parts, "tool", c) = i /\ i # 0 /\ o = s.parts[i]
    BY <1>5 DEF CallAt
  <1>8. /\ p \in PartT /\ p.k = o.k /\ p.id = o.id /\ p.txt = o.txt
        /\ p.ap = o.ap /\ p.sm = o.sm /\ p.st = "output-error"
    BY ONLY <1>6, <1>7, PatchedFacts
  <1>9. s2 = SetAt(s, i, p)
    BY <1>1, <1>3, <1>7, UpsertIs
  <1> HIDE DEF p
  <1>10. Rewrites(s, t, s, c, i, o, u, w, p, "output-error", "none", "none")
    <2>1. Noted(s, s, c)
      BY <1>1, NotedNothing, SMTT(30)
    <2>2. o.k = "tool" /\ o.id = c /\ o.txt = <<>> /\ (c \notin s.asked => o.ap = "none")
      BY ONLY <1>5 DEF CallAt
    <2> QED
      BY <1>1, <1>5, <1>6, <1>8, <2>1, <2>2 DEF Rewrites
  <1>12. t2 = Write(t, c, "output-error", "none", "none")
    BY <1>4, <1>11
  <1> QED
    BY ONLY <1>9, <1>10, <1>12, Rewritten

\* The outcome of a call.
LEMMA OutputTool ==
    ASSUME NEW s, NEW t, NEW s2, NEW t2, NEW c \in DOMAIN t.tools, NEW x, Sim(s, t),
           NEW op \in {"available", "error", "denied"},
           After(s, t, Chunk("tool-output", op, c, x), s2, t2),
           op = "denied" => c \in s.asked,
           op # "error" => View(s, t, c).srv \notin {"input-streaming", "output-error"}
    PROVE  /\ ToolStep(s, t, s2, t2, c)
           /\ Seen(View(s2, t2, c), OutputState[op], OutputState[op], c, s.asked, s.partial)
  <1> DEFINE ch == Chunk("tool-output", op, c, x)
             st == OutputState[op]
             answer == IF op = "denied" THEN "no" ELSE "yes"
             ap == IF c \in s.asked THEN answer ELSE "none"
  <1>0. ch.k = "tool-output" /\ ch.op = op /\ ch.id = c
    BY DEF Chunk
  <1>1. s \in SrvT /\ t \in CliT
    BY DEF Sim
  <1>2. s2 = ToolOutput(s, ch) /\ t2 = ToolDispatch(t, ch)
    BY <1>0, Handlers DEF After
  <1> HIDE DEF ch
  <1>5. PICK i, o, u, w : CallAt(s, t, c, i, o, u, w)
    BY <1>1, Calling
  <1>6. /\ st \in Words /\ "none" \in Words /\ "none" \in Vals /\ answer \in Words /\ ap \in Words
        /\ st # "input-streaming" /\ (st = "output-error" <=> op = "error") /\ (op = "denied" => st = "output-denied")
    BY SMTT(30) DEF Words, Vals, OutputState
  <1> HIDE DEF st
  <1>7. o \in PartT /\ At(s.parts, "tool", c) = i /\ i # 0 /\ i \in DOMAIN s.parts /\ o = s.parts[i]
    BY <1>5 DEF CallAt
  <1>3. s2 = SettleApproval(Upsert(s, c, st, "none"), c, answer)
    BY <1>0, <1>2, <1>7, SMTT(30) DEF ToolOutput, st
  <1>11. t.tools[c].asked = (c \in s.asked) /\ t.tools[c] = w
    BY <1>5 DEF CallAt
  <1>4. t2 = Write(t, c, st, w.in, ap)
    <2>1. t2 = IF op = "denied" THEN IF t.tools[c].asked THEN Write(t, c, "output-denied", t.tools[c].in, "no") ELSE t
               ELSE Write(t, c, st, t.tools[c].in, ApprovedOf(t, c))
      BY <1>0, <1>2 DEF ToolDispatch, st
    <2>2. PICK f : f = t.tools[c].asked
      OBVIOUS
    <2>3. f <=> c \in s.asked
      BY <1>11, <2>2
    <2>4. ApprovedOf(t, c) = IF f THEN "yes" ELSE "none"
      BY <2>2 DEF ApprovedOf
    <2>5. CASE op = "denied"
      BY <1>6, <1>11, <2>1, <2>2, <2>3, <2>5
    <2>6. CASE op # "denied"
      BY <1>6, <1>11, <2>1, <2>3, <2>4, <2>6
    <2> QED
      BY <2>5, <2>6
  <1> DEFINE p == Resolved(s, o, c, st, "none", answer)
  <1>9. s2 = SetAt(s, i, p)
    <2> HIDE DEF answer
    <2> QED
      BY ONLY <1>1, <1>3, <1>6, <1>7, SettledIs
  <1>8. /\ p \in PartT /\ p.k = o.k /\ p.id = o.id /\ p.txt = o.txt /\ p.sm = o.sm
        /\ p.st = st /\ p.in = o.in /\ p.ap = IF c \in s.asked THEN answer ELSE o.ap
    <2> DEFINE z == Resolved(s, o, c, st, "none", answer)
    <2>1. st \in Words /\ "none" \in Vals /\ answer \in Words /\ o \in PartT
      BY <1>6, <1>7
    <2> HIDE DEF answer
    <2>2. ResolvedAs(z, s, o, c, st, "none", answer)
      BY ONLY <2>1, ResolvedFacts
    <2> HIDE DEF z
    <2>3. /\ z \in PartT /\ z.k = o.k /\ z.id = o.id /\ z.txt = o.txt /\ z.sm = o.sm
          /\ z.st = st /\ z.in = o.in /\ z.ap = IF c \in s.asked THEN answer ELSE o.ap
      BY ONLY <2>2, SMTT(30) DEF ResolvedAs
    <2> QED
      BY ONLY <2>3 DEF z
  <1> HIDE DEF p
  <1>12. /\ o.k = "tool" /\ o.id = c /\ o.txt = <<>> /\ (c \notin s.asked => o.ap = "none")
         /\ PartsAgree(o, u) /\ w.in = u.in /\ w.in \in Vals
    BY ONLY <1>5, SMTT(30) DEF CallAt
  <1>13. op # "error" => o.st \notin {"input-streaming", "output-error"}
    BY <1>5 DEF View, CallAt
  <1>14. op # "error" => o.in = w.in
    BY <1>12, <1>13 DEF PartsAgree
  <1>15. p.ap = ap
    BY <1>8, <1>12
  <1>16. st \notin {"input-streaming", "output-error"} => p.in = w.in
    BY <1>6, <1>8, <1>14
  <1>10. Rewrites(s, t, s, c, i, o, u, w, p, st, w.in, ap)
    <2>1. Noted(s, s, c)
      BY <1>1, NotedNothing
    <2>2. c \notin s.asked => p.ap = "none"
      BY <1>15
    <2> HIDE DEF ap
    <2> QED
      BY ONLY Sim(s, t), c \in DOMAIN t.tools, <1>5, <1>6, <1>8, <1>12, <1>15, <1>16, <2>1, <2>2 DEF Rewrites
  <1>17. ToolStep(s, t, s2, t2, c) /\ Seen(View(s2, t2, c), st, st, c, s.asked, s.partial)
    <2> HIDE DEF ap
    <2> QED
      BY ONLY <1>4, <1>9, <1>10, Rewritten
  <1> QED
    BY <1>17 DEF st

\* The outcome of a call that no part shows.
LEMMA OutputNowhere ==
    ASSUME NEW s, NEW t, NEW s2, NEW t2, NEW c, c \notin DOMAIN t.tools, NEW x, Sim(s, t), NEW op,
           After(s, t, Chunk("tool-output", op, c, x), s2, t2)
    PROVE  s2 = s /\ t2 = t
  <1> DEFINE ch == Chunk("tool-output", op, c, x)
  <1>0. ch.k = "tool-output" /\ ch.op = op /\ ch.id = c
    BY DEF Chunk
  <1>2. s2 = ToolOutput(s, ch) /\ t2 = ToolDispatch(t, ch)
    BY <1>0, Handlers DEF After
  <1>3. At(s.parts, "tool", c) = 0
    BY AtTool
  <1> HIDE DEF ch
  <1> QED
    BY <1>0, <1>2, <1>3 DEF ToolOutput, ToolDispatch

\* The line a tool leaves beside its result.
LEMMA SummaryTool ==
    ASSUME NEW s, NEW t, NEW s2, NEW t2, NEW c, NEW x \in Words, Sim(s, t),
           After(s, t, Chunk("tool-summary", "put", c, x), s2, t2)
    PROVE  /\ Sim(s2, t2) /\ ViewsSame(s, t, s2, t2) /\ TextSame(s.parts, s2.parts) /\ s2.active = s.active
  <1> DEFINE ch == Chunk("tool-summary", "put", c, x)
  <1>0. ch.k = "tool-summary" /\ ch.id = c /\ ch.x = x
    BY DEF Chunk
  <1>1. s \in SrvT /\ t \in CliT
    BY DEF Sim
  <1>2. s2 = ToolSummary(s, ch) /\ t2 = ApplyToolSummary(t, ch)
    BY <1>0, Handlers DEF After
  <1> HIDE DEF ch
  <1>3. CASE c \notin DOMAIN t.tools
    <2>1. At(s.parts, "tool", c) = 0
      BY <1>3, AtTool
    <2>2. s2 = s /\ t2 = t
      BY <1>0, <1>2, <1>3, <2>1 DEF ToolSummary, ApplyToolSummary
    <2> QED
      BY <2>2 DEF ViewsSame, TextSame
  <1>4. CASE c \in DOMAIN t.tools
    <2>1. PICK i, o, u, w : CallAt(s, t, c, i, o, u, w)
      BY <1>4, Calling, SMTT(30)
    <2> DEFINE p == [o EXCEPT !.sm = x]
               q == [u EXCEPT !.sm = x]
               r == [w EXCEPT !.sm = x]
    <2>2. /\ o \in PartT /\ u \in PartT /\ w \in Track /\ PartsAgree(o, u)
          /\ At(s.parts, "tool", c) = i /\ i # 0 /\ i \in DOMAIN s.parts /\ o = s.parts[i]
          /\ i \in DOMAIN t.parts /\ u = t.parts[i] /\ i = t.tools[c].pos /\ w = t.tools[c]
          /\ u.k = "tool" /\ u.id = c /\ u.txt = <<>> /\ w.pos = i /\ w.in = u.in
          /\ w.asked = (c \in s.asked) /\ (c \notin s.asked => o.ap = "none")
      BY <2>1 DEF CallAt
    <2>3. s2 = SetAt(s, i, p)
      BY <1>0, <1>1, <1>2, <2>2 DEF ToolSummary, SetAt, SrvT
    <2>4. t2 = WithTools(SetAt(t, i, q), [t.tools EXCEPT ![c] = r])
      <3>1. t2 = [t EXCEPT !.tools[c].sm = x, !.parts[i].sm = x]
        BY <1>0, <1>2, <1>4, <2>2 DEF ApplyToolSummary
      <3> QED
        BY <1>1, <2>2, <3>1 DEF SetAt, WithTools, CliT
    <2>5. /\ p \in PartT /\ p.k = o.k /\ p.id = o.id /\ p.txt = o.txt /\ p.st = o.st /\ p.in = o.in
          /\ p.ap = o.ap /\ p.sm = x
      BY <2>2, Zenon DEF PartT
    <2>6. /\ q \in PartT /\ q.k = u.k /\ q.id = u.id /\ q.txt = u.txt /\ q.st = u.st /\ q.in = u.in
          /\ q.ap = u.ap /\ q.sm = x
      BY <2>2, Zenon DEF PartT
    <2>7. r \in Track /\ r.pos = w.pos /\ r.in = w.in /\ r.asked = w.asked /\ r.sm = x
      BY <2>2 DEF Track
    <2> HIDE DEF p, q, r
    <2>8. PartsAgree(p, q)
      BY <2>2, <2>5, <2>6, SMTT(30) DEF PartsAgree
    <2>9. Noted(s, s, c)
      BY <1>1, NotedNothing
    <2>10. Changes(s, t, s, c, p, q, r)
      BY <1>4, <2>2, <2>5, <2>6, <2>7, <2>8, <2>9 DEF Changes
    <2>11. ToolStep(s, t, s2, t2, c) /\ Seen(View(s2, t2, c), p.st, q.st, c, s.asked, s.partial)
      BY <2>2, <2>3, <2>4, <2>10, ChangeCall
    <2>12. s2.asked = s.asked /\ s2.partial = s.partial /\ s2.parts = [s.parts EXCEPT ![i] = p]
      BY ONLY <1>1, <2>3 DEF SetAt, SrvT
    <2>13. t2.tools = [t.tools EXCEPT ![c] = r] /\ t2.parts = [t.parts EXCEPT ![i] = q]
      BY <1>1, <2>4 DEF WithTools, SetAt, CliT
    <2>14. t2.tools[c].pos = i /\ DOMAIN t2.tools = DOMAIN t.tools
      BY <1>4, <2>2, <2>7, <2>13, SMTT(30)
    <2>15. s2.parts[i].st = s.parts[i].st /\ t2.parts[i].st = t.parts[i].st
      <3>1. s2.parts[i] = p /\ t2.parts[i] = q
        BY <2>2, <2>12, <2>13, SMTT(30)
      <3> QED
        BY <2>2, <2>5, <2>6, <3>1
    <2>16. View(s2, t2, c) = View(s, t, c)
      BY <1>4, <2>2, <2>12, <2>14, <2>15 DEF View
    <2>17. ViewsSame(s, t, s2, t2)
      BY <2>11, <2>16 DEF ToolStep, ViewsSame, OthersSame
    <2> QED
      BY <2>11, <2>17 DEF ToolStep
  <1> QED
    BY <1>3, <1>4

\* A card is shown for a call.
LEMMA AskTool ==
    ASSUME NEW s, NEW t, NEW s2, NEW t2, NEW c \in DOMAIN t.tools, NEW x, NEW op, Sim(s, t),
           After(s, t, Chunk("approval", op, c, x), s2, t2),
           View(s, t, c).srv \notin {"input-streaming", "output-error"}
    PROVE  /\ ToolStep(s, t, s2, t2, c) /\ s2.asked = s.asked \cup {c}
           /\ Seen(View(s2, t2, c), "approval-requested", "approval-requested", c, s2.asked, s.partial)
  <1> DEFINE ch == Chunk("approval", op, c, x)
             s1 == [s EXCEPT !.asked = s.asked \cup {c}]
  <1>0. ch.k = "approval" /\ ch.id = c
    BY DEF Chunk
  <1>1. s \in SrvT /\ t \in CliT
    BY DEF Sim
  <1>2. s2 = ToolApprovalRequest(s, ch) /\ t2 = ToolDispatch(t, ch)
    BY <1>0, Handlers DEF After
  <1> HIDE DEF ch
  <1>3. PICK i, o, u, w : CallAt(s, t, c, i, o, u, w)
    BY <1>1, Calling
  <1>4. /\ o \in PartT /\ u \in PartT /\ w \in Track /\ PartsAgree(o, u) /\ c \in Calls
        /\ At(s.parts, "tool", c) = i /\ i # 0 /\ i \in DOMAIN s.parts /\ o = s.parts[i]
        /\ i \in DOMAIN t.parts /\ u = t.parts[i] /\ i = t.tools[c].pos /\ w = t.tools[c]
        /\ u.k = "tool" /\ u.id = c /\ u.txt = <<>> /\ w.pos = i /\ w.in = u.in /\ w.sm = u.sm
        /\ w.in \in Vals /\ w.sm \in Words
    BY <1>3, Zenon DEF CallAt
  <1> DEFINE st == "approval-requested"
             p == [o EXCEPT !.st = st, !.ap = "asked"]
             q == Written(c, st, w.in, "asked", w.sm)
             r == [w EXCEPT !.asked = TRUE]
  <1>5. "approval-requested" \in Words /\ "asked" \in Words
    BY DEF Words
  <1>6. Noted(s, s1, c) /\ s1.asked = s.asked \cup {c} /\ s1.partial = s.partial /\ s1 \in SrvT /\ s1.parts = s.parts
    <2>1. Noted(s, s1, c)
      BY <1>1, <1>4, NotedAsked
    <2> QED
      BY <1>1, <2>1 DEF SrvT, Noted
  <1>7. s2 = SetAt(s1, i, p)
    <2>1. s2 = [s EXCEPT !.parts[i].st = "approval-requested", !.parts[i].ap = "asked", !.asked = s.asked \cup {c}]
      BY <1>0, <1>2, <1>4 DEF ToolApprovalRequest
    <2> QED
      BY <1>1, <1>4, <2>1, Zenon DEF SetAt, SrvT
  <1>8. t2 = WithTools(SetAt(t, i, q), [t.tools EXCEPT ![c] = r])
    <2> DEFINE t1 == [t EXCEPT !.tools[c].asked = TRUE]
    <2>1. t2 = Write(t1, c, "approval-requested", w.in, "asked")
      BY <1>0, <1>2, <1>4 DEF ToolDispatch
    <2>2. t.tools \in Fns(Calls, Track) /\ r \in Track
      BY <1>1, <1>4 DEF CliT, Track
    <2>3. [t.tools EXCEPT ![c] = r] \in Fns(Calls, Track) /\ [t.tools EXCEPT ![c] = r][c] = r
      BY <2>2, ChangeFns
    <2>4. t1 = WithTools(t, [t.tools EXCEPT ![c] = r])
      BY <1>1, <1>4 DEF WithTools, CliT
    <2>5. t1 \in CliT /\ t1.parts = t.parts /\ t1.tools = [t.tools EXCEPT ![c] = r]
      <3>1. PICK f : f = [t.tools EXCEPT ![c] = r]
        OBVIOUS
      <3>2. f \in Fns(Calls, Track) /\ t1 = WithTools(t, f)
        BY <2>3, <2>4, <3>1
      <3> HIDE DEF t1, r
      <3>3. t1 \in CliT /\ t1.parts = t.parts /\ t1.tools = f
        BY ONLY <1>1, <3>2, ToolsCli
      <3> QED
        BY <3>1, <3>3
    <2>6. t1.tools[c] = r /\ r.pos = i /\ r.sm = w.sm /\ [r EXCEPT !.in = w.in] = r
      <3>1. t1.tools[c] = r
        BY <2>3, <2>5
      <3> QED
        BY <1>4, <3>1 DEF Track
    <2> HIDE DEF t1, r, q
    <2>7. t2 = WithTools(SetAt(t1, i, Written(c, "approval-requested", w.in, "asked", w.sm)), [t1.tools EXCEPT ![c] = r])
      BY <2>1, <2>5, <2>6, WriteIs
    <2>8. [t1.tools EXCEPT ![c] = r] = [t.tools EXCEPT ![c] = r]
      BY <2>5
    <2>9. t2 = WithTools(SetAt(t1, i, q), [t.tools EXCEPT ![c] = r])
      BY <2>7, <2>8 DEF q
    <2> QED
      BY <1>1, <2>4, <2>5, <2>9 DEF WithTools, SetAt, CliT
  <1>9. /\ q \in PartT /\ q.k = "tool" /\ q.id = c /\ q.txt = <<>> /\ q.ap = "asked" /\ q.sm = w.sm
        /\ q.st = st /\ q.in = w.in
    BY <1>4, <1>5, WrittenFacts
  <1>10. /\ p \in PartT /\ p.k = o.k /\ p.id = o.id /\ p.txt = o.txt /\ p.st = st /\ p.in = o.in
         /\ p.ap = "asked" /\ p.sm = o.sm
    BY <1>4, <1>5, Zenon DEF PartT
  <1>11. r \in Track /\ r.pos = w.pos /\ r.in = w.in /\ r.asked = TRUE /\ r.sm = w.sm
    BY <1>4 DEF Track
  <1>12. o.in = u.in
    BY <1>3, <1>4 DEF PartsAgree, View, CallAt
  <1> HIDE DEF p, q, r, s1
  <1>13. PartsAgree(p, q)
    BY <1>4, <1>9, <1>10, <1>12 DEF PartsAgree
  <1>14. r.asked = (c \in s1.asked) /\ c \in s1.asked
    BY <1>6, <1>11
  <1>15. Changes(s, t, s1, c, p, q, r)
    BY <1>4, <1>6, <1>9, <1>10, <1>11, <1>13, <1>14 DEF Changes
  <1>16. ToolStep(s, t, s2, t2, c) /\ Seen(View(s2, t2, c), p.st, q.st, c, s1.asked, s1.partial)
    BY <1>4, <1>7, <1>8, <1>15, ChangeCall
  <1>17. s2.asked = s1.asked
    BY ONLY <1>6, <1>7 DEF SetAt, SrvT
  <1> QED
    BY <1>6, <1>9, <1>10, <1>16, <1>17

\* A call's input is there, in a part of its own or a new one.
LEMMA AvailableTool ==
    ASSUME NEW s, NEW t, NEW s2, NEW t2, NEW c \in Calls, NEW x, Sim(s, t),
           After(s, t, Chunk("tool-input", "available", c, x), s2, t2)
    PROVE  /\ ToolStep(s, t, s2, t2, c)
           /\ Seen(View(s2, t2, c), "input-available", "input-available", c, s.asked, s.partial)
  <1> DEFINE ch == Chunk("tool-input", "available", c, x)
  <1>0. ch.k = "tool-input" /\ ch.op = "available" /\ ch.id = c
    BY DEF Chunk
  <1>1. s \in SrvT /\ t \in CliT
    BY DEF Sim
  <1>2. s2 = ToolInput(s, ch) /\ t2 = ToolDispatch(t, ch)
    BY <1>0, Handlers DEF After
  <1> HIDE DEF ch
  <1>3. s2 = SettleApproval(Upsert(s, c, "input-available", "args"), c, "none")
    BY <1>0, <1>2 DEF ToolInput
  <1>4. t2 = Write(IF c \in DOMAIN t.tools THEN t ELSE OpenTrack(t, c), c, "input-available", "args", "none")
    BY <1>0, <1>1, <1>2 DEF ToolDispatch
  <1>6. "input-available" \in Words /\ "none" \in Words /\ "args" \in Vals
    BY DEF Words, Vals
  <1>7. Noted(s, s, c)
    BY <1>1, NotedNothing
  <1>8. CASE c \in DOMAIN t.tools
    <2>1. PICK i, o, u, w : CallAt(s, t, c, i, o, u, w)
      BY <1>8, Calling, SMTT(30)
    <2>2. o \in PartT /\ At(s.parts, "tool", c) = i /\ i # 0 /\ i \in DOMAIN s.parts /\ o = s.parts[i]
      BY <2>1 DEF CallAt
    <2> DEFINE p == Resolved(s, o, c, "input-available", "args", "none")
    <2>3. s2 = SetAt(s, i, p)
      BY ONLY <1>1, <1>3, <1>6, <2>2, SettledIs
    <2>4. ResolvedAs(p, s, o, c, "input-available", "args", "none")
      BY ONLY <1>6, <2>2, ResolvedFacts
    <2> HIDE DEF p
    <2>5. /\ p \in PartT /\ p.k = o.k /\ p.id = o.id /\ p.txt = o.txt /\ p.sm = o.sm
          /\ p.st = "input-available" /\ p.in = "args" /\ p.ap = IF c \in s.asked THEN "none" ELSE o.ap
      BY ONLY <2>4, SMTT(30) DEF ResolvedAs
    <2>6. o.k = "tool" /\ o.id = c /\ o.txt = <<>> /\ (c \notin s.asked => o.ap = "none")
      BY ONLY <2>1 DEF CallAt
    <2>7. p.ap = "none"
      BY ONLY <2>5, <2>6
    <2>8. Rewrites(s, t, s, c, i, o, u, w, p, "input-available", "args", "none")
      BY ONLY Sim(s, t), <1>6, <1>7, <1>8, <2>1, <2>5, <2>6, <2>7 DEF Rewrites
    <2>9. t2 = Write(t, c, "input-available", "args", "none")
      BY <1>4, <1>8
    <2> QED
      BY ONLY <2>3, <2>8, <2>9, Rewritten
  <1>9. CASE c \notin DOMAIN t.tools
    <2> DEFINE n == Len(t.parts) + 1
               z == Part("tool", c)
               a == [z EXCEPT !.st = "input-streaming"]
               p == Patched(z, "input-available", "args")
               q == Written(c, "input-available", "args", "none", "none")
               b == [pos |-> n, in |-> "none", asked |-> FALSE, sm |-> "none"]
               r == [b EXCEPT !.in = "args"]
               t1 == WithTools(Added(t, a), Put(t.tools, c, b))
    <2>1. t.parts \in Seq(PartT) /\ t.tools \in Fns(Calls, Track) /\ n \in Nat /\ c \notin s.asked
      BY <1>1, <1>9, SeqFacts DEF CliT, Sim, Tracks
    <2>2. At(s.parts, "tool", c) = 0
      BY <1>9, AtTool
    <2>3. "tool" \in Words /\ c \in Ids /\ "input-streaming" \in Words
      BY DEF Words, Ids
    <2>4. /\ z \in PartT /\ z.k = "tool" /\ z.id = c /\ z.txt = <<>> /\ z.st = "none" /\ z.in = "none"
          /\ z.ap = "none" /\ z.sm = "none"
      BY ONLY <2>3, PartFacts
    <2>5. OpenTrack(t, c) = t1
      BY <1>1 DEF OpenTrack, AppendPart, CliT, Added, WithTools
    <2> HIDE DEF z, n
    <2>6. /\ p \in PartT /\ p.k = z.k /\ p.id = z.id /\ p.txt = z.txt
          /\ p.ap = z.ap /\ p.sm = z.sm /\ p.st = "input-available"
          /\ p.in = IF "args" = "none" THEN z.in ELSE "args"
      BY ONLY <1>6, <2>4, PatchedFacts
    <2>7. /\ q \in PartT /\ q.k = "tool" /\ q.id = c /\ q.txt = <<>> /\ q.ap = "none" /\ q.sm = "none"
          /\ q.st = "input-available" /\ q.in = "args"
      BY <1>6, WrittenFacts
    <2>8. a \in PartT
      BY <2>3, <2>4 DEF PartT
    <2>9. b \in Track /\ b.pos = n /\ b.sm = "none" /\ ~b.asked
      <3>1. "none" \in Vals
        BY DEF Vals
      <3>2. b \in Track
        BY <1>6, <2>1, <3>1 DEF Track
      <3>3. ~b.asked
        OBVIOUS
      <3>4. b.pos = n /\ b.sm = "none"
        OBVIOUS
      <3> QED
        BY <3>2, <3>3, <3>4
    <2> HIDE DEF b
    <2>22. r \in Track /\ r.pos = n /\ r.in = "args" /\ ~r.asked /\ r.sm = "none"
      BY ONLY <1>6, <2>9 DEF Track
    <2> HIDE DEF r
    <2>10. s2 = Added(s, p)
      <3>1. Upsert(s, c, "input-available", "args") = Added(s, p)
        BY <1>1, <2>2, UpsertIs DEF z
      <3>2. Added(s, p).asked = s.asked
        BY <1>1, <2>6, AddSrv
      <3> QED
        BY <1>3, <2>1, <3>1, <3>2 DEF SettleApproval
    <2> HIDE DEF a, p, q
    <2>11. /\ Added(t, a) \in CliT /\ Added(t, a).parts = Append(t.parts, a) /\ Added(t, a).at = t.at
           /\ Added(t, a).tools = t.tools /\ Added(t, a).fin = t.fin /\ Added(t, a).meta = t.meta
      BY ONLY <1>1, <2>8, AddCli
    <2>12. PICK f : f = Put(t.tools, c, b)
      OBVIOUS
    <2>13. f \in Fns(Calls, Track) /\ f[c] = b /\ DOMAIN f = DOMAIN t.tools \cup {c}
      <3>1. PICK h : h = t.tools
        OBVIOUS
      <3>2. h \in Fns(Calls, Track) /\ f = Put(h, c, b)
        BY <2>1, <2>12, <3>1
      <3>3. f \in Fns(Calls, Track)
        BY <2>9, <3>2, PutFns
      <3>4. f[c] = b /\ DOMAIN f = DOMAIN h \cup {c}
        BY <3>2 DEF Put
      <3> QED
        BY <3>1, <3>3, <3>4
    <2>14. t1 \in CliT /\ t1.parts = Append(t.parts, a) /\ t1.tools = f /\ t1 = WithTools(Added(t, a), f)
      <3>1. t1 = WithTools(Added(t, a), f)
        BY <2>12
      <3> HIDE DEF t1
      <3>2. t1 \in CliT /\ t1.parts = Added(t, a).parts /\ t1.tools = f
        BY ONLY <2>11, <2>13, <3>1, ToolsCli
      <3> QED
        BY ONLY <2>11, <3>1, <3>2
    <2>15. [f EXCEPT ![c] = r] = Put(t.tools, c, r)
      <3>1. PICK h : h = t.tools
        OBVIOUS
      <3>2. [Put(h, c, b) EXCEPT ![c] = r] = Put(h, c, r)
        BY DEF Put
      <3> QED
        BY <2>12, <3>1, <3>2
    <2>16. [Append(t.parts, a) EXCEPT ![n] = q] = Append(t.parts, q)
      <3>1. PICK h : h = t.parts
        OBVIOUS
      <3>2. n = Len(h) + 1 /\ h \in Seq(PartT)
        BY <2>1, <3>1 DEF n
      <3>3. /\ Append(h, a) \in Seq(PartT) /\ Len(Append(h, a)) = n /\ DOMAIN Append(h, a) = 1..n
            /\ Append(h, a)[n] = a /\ \A i \in 1..Len(h) : Append(h, a)[i] = h[i]
        BY ONLY <2>8, <3>2, AppendFacts
      <3>4. /\ Append(h, q) \in Seq(PartT) /\ Len(Append(h, q)) = n
            /\ Append(h, q)[n] = q /\ \A i \in 1..Len(h) : Append(h, q)[i] = h[i]
        BY ONLY <2>7, <3>2, AppendFacts
      <3>5. PICK e : e = Append(h, a)
        OBVIOUS
      <3>6. e \in Seq(PartT) /\ n \in DOMAIN e /\ DOMAIN e = 1..n /\ Len(e) = n
        BY <3>2, <3>3, <3>5, LenProperties
      <3>7. /\ [e EXCEPT ![n] = q] \in Seq(PartT) /\ Len([e EXCEPT ![n] = q]) = n
            /\ [e EXCEPT ![n] = q][n] = q /\ \A j \in DOMAIN e : j # n => [e EXCEPT ![n] = q][j] = e[j]
        BY ONLY <2>7, <3>6, ChangeFacts
      <3>8. PICK y, v : y = [e EXCEPT ![n] = q] /\ v = Append(h, q)
        OBVIOUS
      <3>9. Len(h) \in Nat /\ \A j \in 1..n : j = n \/ (j \in 1..Len(h) /\ j # n)
        BY <3>2, LenProperties
      <3>10. \A j \in 1..n : y[j] = v[j]
        BY <3>3, <3>4, <3>5, <3>6, <3>7, <3>8, <3>9
      <3>11. y = v
        BY <3>4, <3>7, <3>8, <3>10, SeqEqual
      <3> QED
        BY <3>1, <3>5, <3>8, <3>11
    <2>17. t2 = WithTools(Added(t, q), Put(t.tools, c, r))
      <3>1. t2 = Write(t1, c, "input-available", "args", "none")
        BY <1>4, <1>9, <2>5
      <3>2. t1.tools[c] = b
        BY <2>13, <2>14
      <3>3. b.pos = n /\ b.sm = "none" /\ [b EXCEPT !.in = "args"] = r
        BY <2>9 DEF r
      <3> HIDE DEF t1
      <3>4. t2 = WithTools(SetAt(t1, n, q), [t1.tools EXCEPT ![c] = r])
        BY <2>14, <3>1, <3>2, <3>3, WriteIs DEF q
      <3>5. SetAt(t1, n, q) = [t1 EXCEPT !.parts = Append(t.parts, q)]
        BY <2>14, <2>16 DEF SetAt
      <3>6. [t1.tools EXCEPT ![c] = r] = Put(t.tools, c, r)
        BY <2>14, <2>15
      <3>7. t2 = WithTools([t1 EXCEPT !.parts = Append(t.parts, q)], Put(t.tools, c, r))
        BY <3>4, <3>5, <3>6
      <3>8. t1 = [[t EXCEPT !.parts = Append(t.parts, a)] EXCEPT !.tools = f]
        BY <2>14 DEF WithTools, Added
      <3> QED
        BY <1>1, <3>7, <3>8 DEF WithTools, Added, CliT
    <2>18. PartsAgree(p, q)
      BY ONLY <2>4, <2>6, <2>7 DEF PartsAgree
    <2>19. r \in Track /\ r.pos = Len(t.parts) + 1 /\ r.in = "args" /\ ~r.asked /\ r.sm = "none"
      BY <2>22 DEF n
    <2>20. Starts(s, t, s, c, p, q, r)
      BY ONLY Sim(s, t), c \in Calls, <1>7, <1>9, <2>4, <2>6, <2>7, <2>9, <2>18, <2>19 DEF Starts
    <2>21. /\ ToolStep(s, t, s2, t2, c)
           /\ Seen(View(s2, t2, c), p.st, q.st, c, {}, s.partial)
      BY ONLY <2>10, <2>17, <2>20, StartCall
    <2> QED
      BY ONLY <2>1, <2>6, <2>7, <2>21 DEF Seen
  <1> QED
    BY <1>8, <1>9

-----------------------------------------------------------------------------
(* What the two reducers do to the other parts. *)

WithAt(t, f) == [t EXCEPT !.at = f]
WithActive(s, f) == [s EXCEPT !.active = f]

LEMMA AtCli ==
    ASSUME NEW t \in CliT, NEW f \in Fns(Keys, Nat)
    PROVE  LET u == WithAt(t, f)
           IN  /\ u \in CliT /\ u.parts = t.parts /\ u.at = f
               /\ u.tools = t.tools /\ u.fin = t.fin /\ u.meta = t.meta
  BY DEF WithAt, CliT

LEMMA ActiveSrv ==
    ASSUME NEW s \in SrvT, NEW f \in Fns(Keys, Nat)
    PROVE  LET u == WithActive(s, f)
           IN  /\ u \in SrvT /\ u.parts = s.parts /\ u.active = f
               /\ u.partial = s.partial /\ u.asked = s.asked /\ u.fin = s.fin /\ u.meta = s.meta
  BY DEF WithActive, SrvT

\* Facts of the folds that their relation holds.
LEMMA SimFacts ==
    ASSUME NEW s, NEW t, Sim(s, t)
    PROVE  /\ s \in SrvT /\ t \in CliT /\ s.parts \in Seq(PartT) /\ t.parts \in Seq(PartT)
           /\ Len(s.parts) = Len(t.parts) /\ Len(t.parts) \in Nat
           /\ DOMAIN s.parts = 1..Len(t.parts) /\ DOMAIN t.parts = 1..Len(t.parts)
           /\ s.meta = t.meta /\ s.fin = t.fin
           /\ \A i \in DOMAIN t.parts : s.parts[i] \in PartT /\ t.parts[i] \in PartT
                                        /\ PartsAgree(s.parts[i], t.parts[i])
           /\ t.at \in Fns(Keys, Nat) /\ s.active \in Fns(Keys, Nat)
           /\ Agree(s, t) /\ Tracks(s, t) /\ Placed(s, t)
  <1>1. s \in SrvT /\ t \in CliT /\ Agree(s, t) /\ Tracks(s, t) /\ Placed(s, t)
    BY DEF Sim
  <1>2. s.parts \in Seq(PartT) /\ t.parts \in Seq(PartT) /\ t.at \in Fns(Keys, Nat) /\ s.active \in Fns(Keys, Nat)
    BY <1>1 DEF SrvT, CliT
  <1>3. Len(s.parts) = Len(t.parts) /\ s.meta = t.meta /\ s.fin = t.fin
    BY <1>1 DEF Agree
  <1>4. Len(t.parts) \in Nat /\ DOMAIN s.parts = 1..Len(t.parts) /\ DOMAIN t.parts = 1..Len(t.parts)
        /\ \A i \in DOMAIN t.parts : s.parts[i] \in PartT /\ t.parts[i] \in PartT
    BY <1>2, <1>3, SeqFacts
  <1>5. \A i \in DOMAIN t.parts : PartsAgree(s.parts[i], t.parts[i])
    BY <1>1, <1>4 DEF Agree
  <1> QED
    BY <1>1, <1>2, <1>3, <1>4, <1>5

\* What a start, a delta and an end of a text part make of the folds.
TextBegun(s, t, k, id, s2, t2) ==
    /\ Sim(s2, t2) /\ ViewsSame(s, t, s2, t2)
    /\ s2.active = Put(s.active, <<k, id>>, Len(s.parts) + 1)
    /\ \E p \in PartT : /\ s2.parts = Append(s.parts, p)
                        /\ p.k = k /\ p.id = id /\ p.txt = <<>>
TextGrown(s, t, k, id, x, s2, t2) ==
    /\ Sim(s2, t2) /\ ViewsSame(s, t, s2, t2) /\ s2.active = s.active
    /\ \E i \in DOMAIN s.parts, p \in PartT :
         /\ s2.parts = [s.parts EXCEPT ![i] = p] /\ s.parts[i].k = k /\ s.parts[i].id = id
         /\ p.k = k /\ p.id = id /\ p.txt = Append(s.parts[i].txt, x)
TextEnded(s, t, k, id, s2, t2) ==
    /\ Sim(s2, t2) /\ ViewsSame(s, t, s2, t2) /\ s2.active = Without(s.active, {<<k, id>>})
    /\ \E i \in DOMAIN s.parts, p \in PartT :
         /\ s2.parts = [s.parts EXCEPT ![i] = p] /\ s.parts[i].k = k /\ s.parts[i].id = id
         /\ p.k = k /\ p.id = id /\ p.txt = s.parts[i].txt

\* A text or reasoning part opens.
LEMMA TextStart ==
    ASSUME NEW s, NEW t, NEW s2, NEW t2, NEW k \in TextKinds, NEW id \in 1..MaxParts, NEW x, Sim(s, t),
           After(s, t, Chunk(k, "start", id, x), s2, t2)
    PROVE  TextBegun(s, t, k, id, s2, t2)
  <1> SUFFICES /\ Sim(s2, t2) /\ ViewsSame(s, t, s2, t2)
               /\ s2.active = Put(s.active, <<k, id>>, Len(s.parts) + 1)
               /\ \E p \in PartT : /\ s2.parts = Append(s.parts, p)
                                   /\ p.k = k /\ p.id = id /\ p.txt = <<>>
    BY DEF TextBegun
  <1> DEFINE ch == Chunk(k, "start", id, x)
             z == Part(k, id)
             p == [z EXCEPT !.st = "streaming"]
             n == Len(s.parts) + 1
             key == <<k, id>>
             f == Put(s.active, key, n)
             g == Put(t.at, key, n)
  <1>0. ch.k = k /\ ch.op = "start" /\ ch.id = id
    BY DEF Chunk
  <1>1. /\ s \in SrvT /\ t \in CliT /\ s.parts \in Seq(PartT) /\ t.parts \in Seq(PartT)
        /\ Len(s.parts) = Len(t.parts) /\ n \in Nat /\ s.meta = t.meta /\ s.fin = t.fin
        /\ t.at \in Fns(Keys, Nat) /\ s.active \in Fns(Keys, Nat)
    BY SimFacts
  <1>2. s2 = StreamPart(s, ch) /\ t2 = StreamPartAt(t, ch)
    BY <1>0, Handlers DEF After
  <1> HIDE DEF ch
  <1>3. k \in Words /\ id \in Ids /\ "streaming" \in Words /\ k \notin DataKinds /\ k # "tool"
    BY DEF Words, Ids, TextKinds, DataKinds
  <1>4. /\ z \in PartT /\ z.k = k /\ z.id = id /\ z.txt = <<>> /\ z.st = "none" /\ z.in = "none"
        /\ z.ap = "none" /\ z.sm = "none"
    BY ONLY <1>3, PartFacts
  <1>5. s2 = WithActive(Added(s, p), f)
    BY <1>0, <1>1, <1>2 DEF StreamPart, WithActive, Added, SrvT
  <1>6. t2 = WithAt(Added(t, p), g)
    BY <1>0, <1>1, <1>2 DEF StreamPartAt, AppendPart, WithAt, Added, CliT
  <1> HIDE DEF z
  <1>7. p \in PartT /\ p.k = k /\ p.id = id /\ p.txt = <<>>
    BY <1>3, <1>4 DEF PartT
  <1> HIDE DEF p
  <1>8. key \in Keys
    BY <1>3 DEF Keys
  <1>9. f \in Fns(Keys, Nat) /\ g \in Fns(Keys, Nat)
    <2> HIDE DEF key, n
    <2> QED
      BY <1>1, <1>8, PutFns
  <1>10. LET u == Added(s, p)
         IN  /\ u \in SrvT /\ u.parts = Append(s.parts, p) /\ u.active = s.active
             /\ u.partial = s.partial /\ u.asked = s.asked /\ u.fin = s.fin /\ u.meta = s.meta
    BY ONLY <1>1, <1>7, AddSrv
  <1>11. LET u == Added(t, p)
         IN  /\ u \in CliT /\ u.parts = Append(t.parts, p) /\ u.at = t.at
             /\ u.tools = t.tools /\ u.fin = t.fin /\ u.meta = t.meta
    BY ONLY <1>1, <1>7, AddCli
  <1>17. f = Put(s.active, key, n) /\ g = Put(t.at, key, n)
    OBVIOUS
  <1> HIDE DEF f, g
  <1>12. /\ s2 \in SrvT /\ s2.parts = Append(s.parts, p) /\ s2.active = f
         /\ s2.partial = s.partial /\ s2.asked = s.asked /\ s2.fin = s.fin /\ s2.meta = s.meta
    <2>1. PICK a : a = Added(s, p)
      OBVIOUS
    <2>2. a \in SrvT /\ s2 = WithActive(a, f)
      BY <1>5, <1>10, <2>1
    <2>3. /\ s2 \in SrvT /\ s2.parts = a.parts /\ s2.active = f
          /\ s2.partial = a.partial /\ s2.asked = a.asked /\ s2.fin = a.fin /\ s2.meta = a.meta
      BY ONLY <1>9, <2>2, ActiveSrv
    <2> QED
      BY ONLY <1>10, <2>1, <2>3
  <1>13. /\ t2 \in CliT /\ t2.parts = Append(t.parts, p) /\ t2.at = g
         /\ t2.tools = t.tools /\ t2.fin = t.fin /\ t2.meta = t.meta
    <2>1. PICK a : a = Added(t, p)
      OBVIOUS
    <2>2. a \in CliT /\ t2 = WithAt(a, g)
      BY <1>6, <1>11, <2>1
    <2>3. /\ t2 \in CliT /\ t2.parts = a.parts /\ t2.at = g
          /\ t2.tools = a.tools /\ t2.fin = a.fin /\ t2.meta = a.meta
      BY ONLY <1>9, <2>2, AtCli
    <2> QED
      BY ONLY <1>11, <2>1, <2>3
  <1>14. PartsAgree(p, p)
    BY DEF PartsAgree
  <1>15. PartGrown(s, t, s2, t2, p, p)
    <2>1. n = Len(t.parts) + 1 /\ key = <<p.k, p.id>> /\ p.k \in TextKinds /\ p.k \notin DataKinds /\ p.k # "tool"
      BY <1>1, <1>3, <1>7
    <2>2. CallsKept(s, t, s2, t2)
      BY <1>12, <1>13 DEF CallsKept
    <2>3. s2.active = Put(s.active, <<p.k, p.id>>, Len(t.parts) + 1) /\ t2.at = Put(t.at, <<p.k, p.id>>, Len(t.parts) + 1)
      BY <1>12, <1>13, <1>17, <2>1
    <2> QED
      BY ONLY Sim(s, t), <1>1, <1>7, <1>12, <1>13, <1>14, <2>1, <2>2, <2>3 DEF PartGrown
  <1>16. Sim(s2, t2) /\ ViewsSame(s, t, s2, t2)
    BY ONLY <1>15, GrowPart
  <1> QED
    BY <1>7, <1>12, <1>16, <1>17

\* Both folds find an open text or reasoning part at one place.
LEMMA TextPlace ==
    ASSUME NEW s, NEW t, Sim(s, t), NEW k, NEW id, <<k, id>> \in DOMAIN s.active
    PROVE  LET i == s.active[<<k, id>>]
           IN  /\ k \in TextKinds /\ <<k, id>> \in DOMAIN t.at /\ t.at[<<k, id>>] = i
               /\ i \in DOMAIN t.parts /\ i \in DOMAIN s.parts
               /\ s.parts[i].k = k /\ s.parts[i].id = id /\ t.parts[i].k = k /\ t.parts[i].id = id
  <1> DEFINE key == <<k, id>>
             i == s.active[key]
  <1>1. Placed(s, t) /\ DOMAIN s.parts = DOMAIN t.parts /\ \A j \in DOMAIN t.parts : PartsAgree(s.parts[j], t.parts[j])
    BY SimFacts
  <1>2. key[1] = k /\ key[2] = id
    OBVIOUS
  <1>3. k \in TextKinds /\ key \in DOMAIN t.at /\ t.at[key] = i
    BY <1>1, <1>2 DEF Placed
  <1>4. i \in DOMAIN t.parts /\ key = <<t.parts[i].k, t.parts[i].id>>
    BY <1>1, <1>3 DEF Placed
  <1>5. t.parts[i].k = k /\ t.parts[i].id = id
    <2> HIDE DEF i
    <2> QED
      BY <1>4
  <1>6. s.parts[i].k = k /\ s.parts[i].id = id
    BY <1>1, <1>4, <1>5 DEF PartsAgree
  <1> QED
    BY <1>1, <1>3, <1>4, <1>5, <1>6

\* A text or reasoning part grows.
LEMMA TextDelta ==
    ASSUME NEW s, NEW t, NEW s2, NEW t2, NEW k, NEW id, NEW x \in Nat, Sim(s, t),
           <<k, id>> \in DOMAIN s.active, After(s, t, Chunk(k, "delta", id, x), s2, t2)
    PROVE  TextGrown(s, t, k, id, x, s2, t2)
  <1> SUFFICES /\ Sim(s2, t2) /\ ViewsSame(s, t, s2, t2) /\ s2.active = s.active
               /\ \E i \in DOMAIN s.parts, p \in PartT :
                    /\ s2.parts = [s.parts EXCEPT ![i] = p] /\ s.parts[i].k = k /\ s.parts[i].id = id
                    /\ p.k = k /\ p.id = id /\ p.txt = Append(s.parts[i].txt, x)
    BY DEF TextGrown
  <1> DEFINE ch == Chunk(k, "delta", id, x)
             i == s.active[<<k, id>>]
             o == s.parts[i]
             u == t.parts[i]
             p == [o EXCEPT !.txt = Append(o.txt, x)]
             q == [u EXCEPT !.txt = Append(u.txt, x)]
  <1>0. ch.k = k /\ ch.op = "delta" /\ ch.id = id /\ ch.x = x
    BY DEF Chunk
  <1>1. /\ s \in SrvT /\ t \in CliT /\ s.meta = t.meta /\ s.fin = t.fin /\ s.active \in Fns(Keys, Nat)
    BY SimFacts
  <1>2. /\ k \in TextKinds /\ <<k, id>> \in DOMAIN t.at /\ t.at[<<k, id>>] = i
        /\ i \in DOMAIN t.parts /\ i \in DOMAIN s.parts
        /\ o.k = k /\ o.id = id /\ u.k = k /\ u.id = id
    BY TextPlace
  <1>3. s2 = StreamPart(s, ch) /\ t2 = StreamPartAt(t, ch)
    BY <1>0, <1>2, Handlers DEF After
  <1> HIDE DEF ch
  <1>4. o \in PartT /\ u \in PartT /\ PartsAgree(o, u)
    BY <1>2, SimFacts
  <1>5. s2 = SetAt(s, i, p)
    <2>1. s2 = [s EXCEPT !.parts[s.active[<<k, id>>]].txt = Append(@, x)]
      BY <1>0, <1>3 DEF StreamPart
    <2> HIDE DEF i
    <2>2. s2 = [s EXCEPT !.parts[i].txt = Append(@, x)]
      BY <2>1 DEF i
    <2> QED
      BY <1>1, <1>2, <2>2 DEF SetAt, SrvT
  <1>6. t2 = SetAt(t, i, q)
    <2>1. t2 = [t EXCEPT !.parts[t.at[<<k, id>>]].txt = Append(@, x)]
      BY <1>0, <1>2, <1>3 DEF StreamPartAt
    <2>2. t2 = [t EXCEPT !.parts[i].txt = Append(@, x)]
      BY <1>2, <2>1
    <2> QED
      BY <1>1, <1>2, <2>2 DEF SetAt, CliT
  <1>7. p \in PartT /\ p.k = k /\ p.id = id /\ p.txt = Append(o.txt, x) /\ PartsAgree(p, q) /\ q \in PartT /\ q.k = k /\ q.id = id
    <2> HIDE DEF o, u
    <2>1. o.txt \in Seq(Nat) /\ u.txt \in Seq(Nat)
      BY <1>4 DEF PartT
    <2>2. Append(o.txt, x) \in Seq(Nat) /\ Append(u.txt, x) \in Seq(Nat)
      BY <2>1, AppendProperties
    <2>3. p \in PartT /\ p.k = o.k /\ p.id = o.id /\ p.txt = Append(o.txt, x) /\ p.st = o.st /\ p.ap = o.ap /\ p.sm = o.sm /\ p.in = o.in
      BY <1>4, <2>2 DEF PartT
    <2>4. q \in PartT /\ q.k = u.k /\ q.id = u.id /\ q.txt = Append(u.txt, x) /\ q.st = u.st /\ q.ap = u.ap /\ q.sm = u.sm /\ q.in = u.in
      BY <1>4, <2>2 DEF PartT
    <2>5. PartsAgree(p, q)
      BY <1>4, <2>3, <2>4 DEF PartsAgree
    <2> QED
      BY <1>2, <2>3, <2>4, <2>5
  <1>14. o = s.parts[i]
    OBVIOUS
  <1> HIDE DEF i, o, u, p, q
  <1>8. /\ s2 \in SrvT /\ s2.parts = [s.parts EXCEPT ![i] = p] /\ s2.active = s.active
        /\ s2.partial = s.partial /\ s2.asked = s.asked /\ s2.fin = s.fin /\ s2.meta = s.meta
    BY ONLY <1>1, <1>2, <1>5, <1>7, SetSrv
  <1>9. /\ t2 \in CliT /\ t2.parts = [t.parts EXCEPT ![i] = q] /\ t2.at = t.at
        /\ t2.tools = t.tools /\ t2.fin = t.fin /\ t2.meta = t.meta
    BY ONLY <1>1, <1>2, <1>6, <1>7, SetCli
  <1>10. PartSet(s, t, s2, t2, i, p, q)
    <2>1. q.k \notin DataKinds /\ q.k # "tool" /\ q.k = t.parts[i].k /\ q.id = t.parts[i].id
      BY <1>2, <1>7 DEF TextKinds, DataKinds, u
    <2>2. s2.active = Without(s.active, {})
      <3>1. Without(s.active, {}) = s.active
        BY <1>1 DEF Fns, Without
      <3> QED
        BY <1>8, <3>1
    <2>3. CallsKept(s, t, s2, t2)
      BY <1>8, <1>9 DEF CallsKept
    <2>4. s2.fin = t2.fin /\ s2.meta = t2.meta
      BY <1>1, <1>8, <1>9
    <2> QED
      BY ONLY Sim(s, t), <1>2, <1>7, <1>8, <1>9, <2>1, <2>2, <2>3, <2>4 DEF PartSet
  <1>11. Sim(s2, t2) /\ ViewsSame(s, t, s2, t2)
    BY ONLY <1>10, SetPart
  <1> QED
    BY <1>2, <1>7, <1>8, <1>11, <1>14

\* A text or reasoning part ends.
LEMMA TextEnd ==
    ASSUME NEW s, NEW t, NEW s2, NEW t2, NEW k, NEW id, NEW x, Sim(s, t),
           <<k, id>> \in DOMAIN s.active, After(s, t, Chunk(k, "end", id, x), s2, t2)
    PROVE  TextEnded(s, t, k, id, s2, t2)
  <1> SUFFICES /\ Sim(s2, t2) /\ ViewsSame(s, t, s2, t2) /\ s2.active = Without(s.active, {<<k, id>>})
               /\ \E i \in DOMAIN s.parts, p \in PartT :
                    /\ s2.parts = [s.parts EXCEPT ![i] = p] /\ s.parts[i].k = k /\ s.parts[i].id = id
                    /\ p.k = k /\ p.id = id /\ p.txt = s.parts[i].txt
    BY DEF TextEnded
  <1> DEFINE ch == Chunk(k, "end", id, x)
             i == s.active[<<k, id>>]
             o == s.parts[i]
             u == t.parts[i]
             p == [o EXCEPT !.st = "done"]
             q == [u EXCEPT !.st = "done"]
             f == Without(s.active, {<<k, id>>})
  <1>0. ch.k = k /\ ch.op = "end" /\ ch.id = id /\ ch.x = x
    BY DEF Chunk
  <1>1. /\ s \in SrvT /\ t \in CliT /\ s.meta = t.meta /\ s.fin = t.fin /\ s.active \in Fns(Keys, Nat)
    BY SimFacts
  <1>2. /\ k \in TextKinds /\ <<k, id>> \in DOMAIN t.at /\ t.at[<<k, id>>] = i
        /\ i \in DOMAIN t.parts /\ i \in DOMAIN s.parts
        /\ o.k = k /\ o.id = id /\ u.k = k /\ u.id = id
    BY TextPlace
  <1>3. s2 = StreamPart(s, ch) /\ t2 = StreamPartAt(t, ch)
    BY <1>0, <1>2, Handlers DEF After
  <1> HIDE DEF ch
  <1>4. o \in PartT /\ u \in PartT /\ PartsAgree(o, u)
    BY <1>2, SimFacts
  <1>5. s2 = WithActive(SetAt(s, i, p), f)
    <2>1. s2 = [s EXCEPT !.parts[s.active[<<k, id>>]].st = "done", !.active = f]
      BY <1>0, <1>3 DEF StreamPart
    <2> HIDE DEF i, f
    <2>2. s2 = [s EXCEPT !.parts[i].st = "done", !.active = f]
      BY <2>1 DEF i
    <2> QED
      BY <1>1, <1>2, <2>2 DEF SetAt, WithActive, SrvT
  <1>6. t2 = SetAt(t, i, q)
    <2>1. t2 = [t EXCEPT !.parts[t.at[<<k, id>>]].st = "done"]
      BY <1>0, <1>2, <1>3 DEF StreamPartAt
    <2>2. t2 = [t EXCEPT !.parts[i].st = "done"]
      BY <1>2, <2>1
    <2> QED
      BY <1>1, <1>2, <2>2 DEF SetAt, CliT
  <1>7. p \in PartT /\ p.k = k /\ p.id = id /\ p.txt = o.txt /\ PartsAgree(p, q) /\ q \in PartT /\ q.k = k /\ q.id = id
    <2> HIDE DEF o, u
    <2>2. "done" \in Words /\ k \notin DataKinds
      BY <1>2 DEF Words, TextKinds, DataKinds
    <2>3. p \in PartT /\ p.k = o.k /\ p.id = o.id /\ p.txt = o.txt /\ p.st = "done" /\ p.ap = o.ap /\ p.sm = o.sm /\ p.in = o.in
      BY <1>4, <2>2 DEF PartT
    <2>4. q \in PartT /\ q.k = u.k /\ q.id = u.id /\ q.txt = u.txt /\ q.st = "done" /\ q.ap = u.ap /\ q.sm = u.sm /\ q.in = u.in
      BY <1>4, <2>2 DEF PartT
    <2>5. PartsAgree(p, q)
      <3>1. o.k # "tool"
        BY <1>2 DEF TextKinds, o
      <3> QED
        BY <1>4, <2>3, <2>4, <3>1 DEF PartsAgree
    <2> QED
      BY <1>2, <2>3, <2>4, <2>5
  <1>14. o = s.parts[i] /\ f = Without(s.active, {<<k, id>>})
    OBVIOUS
  <1> HIDE DEF i, o, u, p, q, f
  <1>15. f \in Fns(Keys, Nat)
    BY <1>1, <1>14, WithoutFns
  <1>16. LET a == SetAt(s, i, p)
         IN  /\ a \in SrvT /\ a.parts = [s.parts EXCEPT ![i] = p] /\ a.active = s.active
             /\ a.partial = s.partial /\ a.asked = s.asked /\ a.fin = s.fin /\ a.meta = s.meta
    BY ONLY <1>1, <1>2, <1>7, SetSrv
  <1>8. /\ s2 \in SrvT /\ s2.parts = [s.parts EXCEPT ![i] = p] /\ s2.active = f
        /\ s2.partial = s.partial /\ s2.asked = s.asked /\ s2.fin = s.fin /\ s2.meta = s.meta
    <2>1. PICK a : a = SetAt(s, i, p)
      OBVIOUS
    <2>2. a \in SrvT /\ s2 = WithActive(a, f)
      BY <1>5, <1>16, <2>1
    <2>3. /\ s2 \in SrvT /\ s2.parts = a.parts /\ s2.active = f
          /\ s2.partial = a.partial /\ s2.asked = a.asked /\ s2.fin = a.fin /\ s2.meta = a.meta
      BY ONLY <1>15, <2>2, ActiveSrv
    <2> QED
      BY ONLY <1>16, <2>1, <2>3
  <1>9. /\ t2 \in CliT /\ t2.parts = [t.parts EXCEPT ![i] = q] /\ t2.at = t.at
        /\ t2.tools = t.tools /\ t2.fin = t.fin /\ t2.meta = t.meta
    BY ONLY <1>1, <1>2, <1>6, <1>7, SetCli
  <1>10. PartSet(s, t, s2, t2, i, p, q)
    <2>1. q.k \notin DataKinds /\ q.k # "tool" /\ q.k = t.parts[i].k /\ q.id = t.parts[i].id
      BY <1>2, <1>7 DEF TextKinds, DataKinds, u
    <2>2. \E S : s2.active = Without(s.active, S)
      BY <1>8, <1>14
    <2>3. CallsKept(s, t, s2, t2)
      BY <1>8, <1>9 DEF CallsKept
    <2>4. s2.fin = t2.fin /\ s2.meta = t2.meta
      BY <1>1, <1>8, <1>9
    <2> QED
      BY ONLY Sim(s, t), <1>2, <1>7, <1>8, <1>9, <2>1, <2>2, <2>3, <2>4 DEF PartSet
  <1>11. Sim(s2, t2) /\ ViewsSame(s, t, s2, t2)
    BY ONLY <1>10, SetPart
  <1>17. s.parts[i].k = k /\ s.parts[i].id = id /\ p.txt = s.parts[i].txt
    BY <1>2, <1>7, <1>14
  <1> QED
    BY ONLY <1>2, <1>7, <1>8, <1>11, <1>14, <1>17

\* No call and no text changes in the folds.
Quiet(s, t, s2, t2) ==
    Sim(s2, t2) /\ ViewsSame(s, t, s2, t2) /\ TextSame(s.parts, s2.parts)

\* Both folds find a data part where the client's index says.
LEMMA DataPlace ==
    ASSUME NEW s, NEW t, Sim(s, t), NEW k \in DataKinds, NEW id, id # None
    PROVE  LET key == <<k, id>>
           IN  /\ key \in DOMAIN t.at =>
                    /\ t.at[key] \in DOMAIN t.parts /\ t.parts[t.at[key]].k = k
                    /\ t.parts[t.at[key]].id = id /\ At(s.parts, k, id) = t.at[key]
               /\ key \notin DOMAIN t.at => At(s.parts, k, id) = 0
  <1> DEFINE key == <<k, id>>
  <1>1. /\ Placed(s, t) /\ s.parts \in Seq(PartT) /\ DOMAIN s.parts = DOMAIN t.parts
        /\ \A j \in DOMAIN t.parts : PartsAgree(s.parts[j], t.parts[j])
    BY SimFacts
  <1>2. \A j \in DOMAIN s.parts : s.parts[j].k = t.parts[j].k /\ s.parts[j].id = t.parts[j].id
    BY <1>1 DEF PartsAgree
  <1>3. \A j \in DOMAIN s.parts : s.parts[j].k = k /\ s.parts[j].id = id => key \in DOMAIN t.at /\ t.at[key] = j
    <2>1. SUFFICES ASSUME NEW j \in DOMAIN s.parts, s.parts[j].k = k, s.parts[j].id = id
                   PROVE  key \in DOMAIN t.at /\ t.at[key] = j
      OBVIOUS
    <2>2. j \in DOMAIN t.parts /\ t.parts[j].k = k /\ t.parts[j].id = id
      BY <1>1, <1>2, <2>1
    <2>3. <<t.parts[j].k, t.parts[j].id>> \in DOMAIN t.at /\ t.at[<<t.parts[j].k, t.parts[j].id>>] = j
      BY <1>1, <2>2 DEF Placed
    <2> QED
      BY <2>2, <2>3
  <1>4. CASE key \in DOMAIN t.at
    <2> DEFINE i == t.at[key]
    <2>1. i \in DOMAIN t.parts /\ key = <<t.parts[i].k, t.parts[i].id>>
      BY <1>1, <1>4 DEF Placed
    <2> HIDE DEF i
    <2>2. t.parts[i].k = k /\ t.parts[i].id = id
      BY <2>1
    <2>3. \A j \in DOMAIN s.parts : s.parts[j].k = k /\ s.parts[j].id = id => j = i
      BY <1>3 DEF i
    <2>4. At(s.parts, k, id) = i
      BY <1>1, <1>2, <2>1, <2>2, <2>3, AtOnly
    <2> QED
      BY <1>4, <2>1, <2>2, <2>4 DEF i
  <1>5. CASE key \notin DOMAIN t.at
    <2>1. \A j \in DOMAIN s.parts : ~(s.parts[j].k = k /\ s.parts[j].id = id)
      BY <1>3, <1>5
    <2>2. At(s.parts, k, id) = 0
      BY <1>1, <2>1, AtNone
    <2> QED
      BY <1>5, <2>2
  <1> QED
    BY <1>4, <1>5

\* A part no delta grows is added to both folds: a data part, a file, a step.
LEMMA NewPart ==
    ASSUME NEW s, NEW t, NEW s2, NEW t2, NEW p \in PartT, Sim(s, t),
           s2 = Added(s, p), t2 = Added(t, p), p.k \notin TextKinds \cup {"tool"},
           p.k \in DataKinds => DataShape(p) /\ p.id = None
    PROVE  Quiet(s, t, s2, t2) /\ s2.active = s.active
  <1>1. s \in SrvT /\ t \in CliT /\ s.fin = t.fin /\ s.meta = t.meta
    BY SimFacts
  <1>2. /\ s2 \in SrvT /\ s2.parts = Append(s.parts, p) /\ s2.active = s.active
        /\ s2.partial = s.partial /\ s2.asked = s.asked /\ s2.fin = s.fin /\ s2.meta = s.meta
    BY ONLY <1>1, p \in PartT, s2 = Added(s, p), AddSrv
  <1>3. /\ t2 \in CliT /\ t2.parts = Append(t.parts, p) /\ t2.at = t.at
        /\ t2.tools = t.tools /\ t2.fin = t.fin /\ t2.meta = t.meta
    BY ONLY <1>1, p \in PartT, t2 = Added(t, p), AddCli
  <1>4. PartsAgree(p, p)
    BY DEF PartsAgree
  <1>5. CallsKept(s, t, s2, t2)
    BY <1>2, <1>3 DEF CallsKept
  <1>6. PartGrown(s, t, s2, t2, p, p)
    BY <1>1, <1>2, <1>3, <1>4, <1>5 DEF PartGrown
  <1> QED
    BY <1>2, <1>6, GrowPart DEF Quiet

\* A data part: new, or the one of its lane rewritten.
LEMMA DataPart ==
    ASSUME NEW s, NEW t, NEW s2, NEW t2, NEW k \in DataKinds, NEW op \in {"put", "transient"},
           NEW id \in Ids, NEW x \in Vals, Sim(s, t), After(s, t, Chunk(k, op, id, x), s2, t2)
    PROVE  Quiet(s, t, s2, t2) /\ s2.active = s.active
  <1> DEFINE ch == Chunk(k, op, id, x)
             z == Part(k, id)
             p == [z EXCEPT !.in = x]
             key == <<k, id>>
             n == Len(t.parts) + 1
             f == Put(t.at, key, n)
  <1>0. ch.k = k /\ ch.op = op /\ ch.id = id /\ ch.x = x
    BY DEF Chunk
  <1>1. /\ s \in SrvT /\ t \in CliT /\ s.meta = t.meta /\ s.fin = t.fin /\ t.at \in Fns(Keys, Nat)
        /\ n \in Nat /\ Len(s.parts) = Len(t.parts) /\ s.active \in Fns(Keys, Nat)
        /\ s.parts \in Seq(PartT) /\ t.parts \in Seq(PartT) /\ DOMAIN s.parts = DOMAIN t.parts
    BY SimFacts
  <1>2. s2 = DataChunk(s, ch) /\ t2 = ApplyData(t, ch)
    BY <1>0, Handlers DEF After
  <1> HIDE DEF ch
  <1>3. k \in Words /\ k \notin TextKinds /\ k # "tool"
    BY DEF Words, TextKinds, DataKinds
  <1>4. /\ z \in PartT /\ z.k = k /\ z.id = id /\ z.txt = <<>> /\ z.st = "none" /\ z.in = "none"
        /\ z.ap = "none" /\ z.sm = "none"
    BY <1>3, PartFacts
  <1> HIDE DEF z
  <1>5. /\ p \in PartT /\ p.k = k /\ p.id = id /\ p.txt = <<>> /\ p.st = "none" /\ p.in = x
        /\ p.ap = "none" /\ p.sm = "none"
    BY <1>4 DEF PartT
  <1>6. DataShape(p)
    BY <1>5 DEF DataShape
  <1>7. CASE op = "transient"
    <2>1. s2 = s /\ t2 = t
      BY <1>0, <1>2, <1>7 DEF DataChunk, ApplyData
    <2> QED
      BY <2>1 DEF Quiet, ViewsSame, TextSame
  <1>8. CASE op = "put" /\ id = None
    <2>1. s2 = Added(s, p)
      BY <1>0, <1>2, <1>8 DEF DataChunk, Added, z
    <2>2. t2 = Added(t, p)
      BY <1>0, <1>2, <1>8 DEF ApplyData, AppendPart, Added, z
    <2> HIDE DEF p
    <2> QED
      BY ONLY Sim(s, t), <1>3, <1>5, <1>6, <1>8, <2>1, <2>2, NewPart
  <1>9. CASE op = "put" /\ id # None /\ key \notin DOMAIN t.at
    <2>0. At(s.parts, k, id) = 0
      BY <1>9, DataPlace
    <2>1. s2 = Added(s, p)
      BY <1>0, <1>2, <1>9, <2>0 DEF DataChunk, Added, z
    <2>2. t2 = WithAt(Added(t, p), f)
      BY <1>0, <1>1, <1>2, <1>9 DEF ApplyData, AppendPart, Added, WithAt, CliT, z
    <2>3. key \in Keys
      BY <1>3 DEF Keys
    <2>4. f \in Fns(Keys, Nat)
      <3> HIDE DEF key, n
      <3> QED
        BY <1>1, <2>3, PutFns
    <2>5. f = Put(t.at, key, n)
      OBVIOUS
    <2> HIDE DEF p, f
    <2>6. /\ s2 \in SrvT /\ s2.parts = Append(s.parts, p) /\ s2.active = s.active
          /\ s2.partial = s.partial /\ s2.asked = s.asked /\ s2.fin = s.fin /\ s2.meta = s.meta
      BY ONLY <1>1, <1>5, <2>1, AddSrv
    <2>7. LET u == Added(t, p)
          IN  /\ u \in CliT /\ u.parts = Append(t.parts, p) /\ u.at = t.at
              /\ u.tools = t.tools /\ u.fin = t.fin /\ u.meta = t.meta
      BY ONLY <1>1, <1>5, AddCli
    <2>8. /\ t2 \in CliT /\ t2.parts = Append(t.parts, p) /\ t2.at = f
          /\ t2.tools = t.tools /\ t2.fin = t.fin /\ t2.meta = t.meta
      <3>1. PICK a : a = Added(t, p)
        OBVIOUS
      <3>2. a \in CliT /\ t2 = WithAt(a, f)
        BY <2>2, <2>7, <3>1
      <3>3. /\ t2 \in CliT /\ t2.parts = a.parts /\ t2.at = f
            /\ t2.tools = a.tools /\ t2.fin = a.fin /\ t2.meta = a.meta
        BY ONLY <2>4, <3>2, AtCli
      <3> QED
        BY ONLY <2>7, <3>1, <3>3
    <2>9. PartsAgree(p, p)
      BY DEF PartsAgree
    <2>10. CallsKept(s, t, s2, t2)
      BY <2>6, <2>8 DEF CallsKept
    <2>11. t2.at = Put(t.at, <<p.k, p.id>>, Len(t.parts) + 1) /\ <<p.k, p.id>> \notin DOMAIN t.at
      BY <1>5, <1>9, <2>5, <2>8
    <2>12. PartGrown(s, t, s2, t2, p, p)
      BY ONLY Sim(s, t), <1>1, <1>3, <1>5, <1>6, <2>6, <2>8, <2>9, <2>10, <2>11 DEF PartGrown
    <2> QED
      BY <1>3, <1>5, <2>6, <2>12, GrowPart DEF Quiet
  <1>10. CASE op = "put" /\ id # None /\ key \in DOMAIN t.at
    <2> DEFINE i == t.at[key]
               o == s.parts[i]
               u == t.parts[i]
               v == [o EXCEPT !.in = x]
    <2>1. i \in DOMAIN t.parts /\ u.k = k /\ u.id = id /\ At(s.parts, k, id) = i
      BY <1>10, DataPlace
    <2>2. i \in DOMAIN s.parts /\ o \in PartT /\ u \in PartT /\ PartsAgree(o, u) /\ i # 0 /\ Placed(s, t)
      BY <2>1, SimFacts
    <2>3. t2 = SetAt(t, i, p)
      BY <1>0, <1>2, <1>10 DEF ApplyData, SetAt, z
    <2>4. s2 = SetAt(s, i, v)
      <3> HIDE DEF i
      <3> QED
        BY <1>0, <1>1, <1>2, <1>10, <2>1, <2>2 DEF DataChunk, SetAt, SrvT
    <2>5. o.st = "none" /\ o.txt = <<>> /\ o.ap = "none" /\ o.sm = "none"
      BY <2>1, <2>2 DEF Placed
    <2>6. o.k = k /\ o.id = id
      BY <2>1, <2>2 DEF PartsAgree
    <2>12. o = s.parts[i] /\ u = t.parts[i]
      OBVIOUS
    <2> HIDE DEF i, o, u, p
    <2>7. /\ v \in PartT /\ v.k = k /\ v.id = id /\ v.txt = <<>> /\ v.st = "none" /\ v.in = x
          /\ v.ap = "none" /\ v.sm = "none"
      BY <2>2, <2>5, <2>6 DEF PartT
    <2> HIDE DEF v
    <2>8. /\ s2 \in SrvT /\ s2.parts = [s.parts EXCEPT ![i] = v] /\ s2.active = s.active
          /\ s2.partial = s.partial /\ s2.asked = s.asked /\ s2.fin = s.fin /\ s2.meta = s.meta
      BY ONLY <1>1, <2>2, <2>4, <2>7, SetSrv
    <2>9. /\ t2 \in CliT /\ t2.parts = [t.parts EXCEPT ![i] = p] /\ t2.at = t.at
          /\ t2.tools = t.tools /\ t2.fin = t.fin /\ t2.meta = t.meta
      BY ONLY <1>1, <1>5, <2>1, <2>3, SetCli
    <2>10. PartSet(s, t, s2, t2, i, v, p)
      <3>1. PartsAgree(v, p) /\ DataShape(v)
        BY <1>5, <2>7 DEF PartsAgree, DataShape
      <3>2. CallsKept(s, t, s2, t2)
        BY <2>8, <2>9 DEF CallsKept
      <3>3. s2.fin = t2.fin /\ s2.meta = t2.meta
        BY <1>1, <2>8, <2>9
      <3>4. \E S : s2.active = Without(s.active, S)
        <4>1. Without(s.active, {}) = s.active
          BY <1>1 DEF Fns, Without
        <4> QED
          BY <2>8, <4>1
      <3>5. p.k = t.parts[i].k /\ p.id = t.parts[i].id /\ p.k # "tool"
        BY <1>3, <1>5, <2>1, <2>12
      <3> QED
        BY ONLY Sim(s, t), <1>5, <1>6, <2>1, <2>7, <2>8, <2>9, <3>1, <3>2, <3>3, <3>4, <3>5 DEF PartSet
    <2>11. Sim(s2, t2) /\ ViewsSame(s, t, s2, t2) /\ (p.k \notin TextKinds => TextSame(s.parts, s2.parts))
      BY ONLY <2>10, SetPart
    <2> QED
      BY <1>3, <1>5, <2>8, <2>11 DEF Quiet
  <1> QED
    BY <1>7, <1>8, <1>9, <1>10

\* A chunk that closes a step, opens or closes a message, or reports an error.
LEMMA MarkChunk ==
    ASSUME NEW s, NEW t, NEW s2, NEW t2, NEW ch, NEW x \in Words, Sim(s, t), After(s, t, ch, s2, t2),
           \/ ch.k = "step" /\ ch.op = "finish"
           \/ ch.k = "message" /\ ch.op \in {"start", "finish"} /\ ch.x = x
           \/ ch.k = "error"
    PROVE  Quiet(s, t, s2, t2) /\ (ch.k # "step" => s2.active = s.active)
  <1>1. s \in SrvT /\ t \in CliT /\ s.meta = t.meta /\ s.fin = t.fin
    BY SimFacts
  <1>2. CASE ch.k = "step" /\ ch.op = "finish"
    <2>1. s2 = WithActive(s, << >>) /\ t2 = t
      BY <1>2, Handlers DEF After, WithActive
    <2>2. << >> \in Fns(Keys, Nat)
      BY EmptyFns
    <2>3. /\ s2 \in SrvT /\ s2.parts = s.parts /\ s2.active = << >>
          /\ s2.partial = s.partial /\ s2.asked = s.asked /\ s2.fin = s.fin /\ s2.meta = s.meta
      BY ONLY <1>1, <2>1, <2>2, ActiveSrv
    <2>4. DOMAIN s2.active = {} /\ CallsKept(s, t, s2, t2)
      BY <2>1, <2>3 DEF CallsKept
    <2>5. PartsKept(s, t, s2, t2)
      BY ONLY Sim(s, t), <1>1, <2>1, <2>3, <2>4 DEF PartsKept
    <2> QED
      BY <1>2, <2>5, SameParts DEF Quiet
  <1>3. CASE ch.k = "message" /\ ch.op = "start" /\ ch.x = x
    <2>1. s2 = [s EXCEPT !.meta = s.meta \cup {x}] /\ t2 = [t EXCEPT !.meta = t.meta \cup {x}]
      BY <1>3, Handlers DEF After
    <2>2. /\ s2 \in SrvT /\ s2.parts = s.parts /\ s2.active = s.active /\ s2.partial = s.partial
          /\ s2.asked = s.asked /\ s2.fin = s.fin /\ s2.meta = s.meta \cup {x}
      BY <1>1, <2>1 DEF SrvT
    <2>3. /\ t2 \in CliT /\ t2.parts = t.parts /\ t2.at = t.at /\ t2.tools = t.tools
          /\ t2.fin = t.fin /\ t2.meta = t.meta \cup {x}
      BY <1>1, <2>1 DEF CliT
    <2>4. PartsKept(s, t, s2, t2)
      BY <1>1, <2>2, <2>3 DEF PartsKept, CallsKept
    <2> QED
      BY <2>2, <2>4, SameParts DEF Quiet
  <1>4. CASE ch.k = "message" /\ ch.op = "finish" /\ ch.x = x
    <2>1. s2 = [s EXCEPT !.fin = x] /\ t2 = [t EXCEPT !.fin = x]
      BY <1>4, Handlers DEF After
    <2>2. /\ s2 \in SrvT /\ s2.parts = s.parts /\ s2.active = s.active /\ s2.partial = s.partial
          /\ s2.asked = s.asked /\ s2.fin = x /\ s2.meta = s.meta
      BY <1>1, <2>1 DEF SrvT
    <2>3. /\ t2 \in CliT /\ t2.parts = t.parts /\ t2.at = t.at /\ t2.tools = t.tools
          /\ t2.fin = x /\ t2.meta = t.meta
      BY <1>1, <2>1 DEF CliT
    <2>4. PartsKept(s, t, s2, t2)
      BY <1>1, <2>2, <2>3 DEF PartsKept, CallsKept
    <2> QED
      BY <2>2, <2>4, SameParts DEF Quiet
  <1>5. CASE ch.k = "error"
    <2>1. s2 = s /\ t2 = [t EXCEPT !.errors = t.errors + 1]
      BY <1>5, Handlers DEF After
    <2>3. /\ t2 \in CliT /\ t2.parts = t.parts /\ t2.at = t.at /\ t2.tools = t.tools
          /\ t2.fin = t.fin /\ t2.meta = t.meta
      BY <1>1, <2>1 DEF CliT
    <2>4. PartsKept(s, t, s2, t2)
      BY <1>1, <2>1, <2>3 DEF PartsKept, CallsKept
    <2> QED
      BY <2>1, <2>4, SameParts DEF Quiet
  <1> QED
    BY <1>2, <1>3, <1>4, <1>5

\* A file or the start of a step.
LEMMA PlainChunk ==
    ASSUME NEW s, NEW t, NEW s2, NEW t2, NEW ch, Sim(s, t), After(s, t, ch, s2, t2),
           ch.k = "file" \/ (ch.k = "step" /\ ch.op = "start")
    PROVE  Quiet(s, t, s2, t2) /\ s2.active = s.active
  <1> DEFINE p == Part(ch.k, None)
  <1>1. ch.k \in Words /\ None \in Ids /\ ch.k \notin DataKinds \cup TextKinds \cup {"tool"}
    BY DEF Words, Ids, DataKinds, TextKinds
  <1>2. p \in PartT /\ p.k = ch.k
    BY <1>1, PartFacts
  <1>3. s2 = Added(s, p) /\ t2 = Added(t, p)
    BY Handlers DEF After, PlainPart, AppendPart, Added
  <1> HIDE DEF p
  <1> QED
    BY <1>1, <1>2, <1>3, NewPart

-----------------------------------------------------------------------------
(* One entry of the log. *)

MessageIds == {User(n) : n \in Nat} \cup {Assistant(n) : n \in Nat}
Messages == [id : MessageIds, parts : Seq(PartT)]
ThreadT == [messages : Seq(Messages), withdrawn : SUBSET Vals, pending : BOOLEAN,
            pendingId : MessageIds \cup {None}]

\* The chunks that fold into no call and no text.
QuietChunks ==
    {Chunk(k, op, id, x) : k \in DataKinds, op \in {"put", "transient"}, id \in Ids, x \in Vals}
    \cup {Chunk("tool-summary", "put", c, x) : c \in Calls, x \in Words}
    \cup {Chunk("message", "finish", None, x) : x \in Words}
    \cup {Chunk("step", "start", None, None), Chunk("step", "finish", None, None),
          Chunk("file", "put", None, None), Chunk("error", "put", None, None)}

\* The snapshot builder only notes that chunks are waiting.
ThreadKept(b, b2) ==
    /\ b2 \in ThreadT /\ b2.messages = b.messages /\ b2.withdrawn = b.withdrawn
    /\ b2.pendingId = b.pendingId /\ (b2.pending \/ b2 = b)

\* Which entries neither cut the log nor open a message.
Inner(ch) == ch.k # "envelope" /\ ~(ch.k = "message" /\ ch.op = "start")

LEMMA LogInner ==
    ASSUME NEW log, NEW ch, Inner(ch), log.thread \in ThreadT
    PROVE  LET l == LogEntry(log, ch)
           IN  /\ After(log.srv, log.cli, ch, l.srv, l.cli) /\ l.open = Observe(log.open, ch)
               /\ ThreadKept(log.thread, l.thread)
  <1> DEFINE b == [log.thread EXCEPT !.pending = TRUE, !.pendingId = log.thread.pendingId]
  <1>1. LogEntry(log, ch) = [srv |-> ApplyChunk(log.srv, ch), cli |-> ReduceTurn(log.cli, ch),
                             thread |-> b, open |-> Observe(log.open, ch)]
    BY DEF LogEntry, Inner
  <1>2. ThreadKept(log.thread, b)
    <2>1. b \in ThreadT
      BY DEF ThreadT
    <2>2. b.messages = log.thread.messages /\ b.withdrawn = log.thread.withdrawn /\ b.pendingId = log.thread.pendingId
      BY DEF ThreadT
    <2>3. b.pending
      BY DEF ThreadT
    <2> QED
      BY ONLY <2>1, <2>2, <2>3 DEF ThreadKept
  <1> HIDE DEF b
  <1> QED
    BY <1>1, <1>2 DEF After

LEMMA QuietFacts ==
    ASSUME NEW ch \in QuietChunks
    PROVE  /\ Inner(ch) /\ ch.k \notin TextKinds \cup {"tool-input", "tool-output", "approval"}
           /\ \A o : Observe(o, ch) = o
  <1>1. ch.k \in DataKinds \cup {"tool-summary", "message", "step", "file", "error"} /\ (ch.k = "message" => ch.op = "finish")
    BY DEF QuietChunks, Chunk, DataKinds
  <1> QED
    BY <1>1 DEF Inner, TextKinds, DataKinds, Observe

\* A chunk that folds into no call and no text leaves both as they were.
LEMMA QuietChunk ==
    ASSUME NEW s, NEW t, NEW s2, NEW t2, NEW ch \in QuietChunks, Sim(s, t), After(s, t, ch, s2, t2)
    PROVE  Quiet(s, t, s2, t2) /\ (ch # Chunk("step", "finish", None, None) => s2.active = s.active)
  <1>1. CASE \E k \in DataKinds, op \in {"put", "transient"}, id \in Ids, x \in Vals : ch = Chunk(k, op, id, x)
    BY <1>1, DataPart
  <1>2. CASE \E c \in Calls, x \in Words : ch = Chunk("tool-summary", "put", c, x)
    BY <1>2, SummaryTool DEF Quiet
  <1>3. CASE \E x \in Words : ch = Chunk("message", "finish", None, x)
    <2>1. PICK x \in Words : ch = Chunk("message", "finish", None, x)
      BY <1>3
    <2>2. ch.k = "message" /\ ch.op = "finish" /\ ch.x = x
      BY <2>1 DEF Chunk
    <2> QED
      BY <2>2, MarkChunk
  <1>4. CASE ch = Chunk("step", "start", None, None) \/ ch = Chunk("file", "put", None, None)
    <2>1. ch.k = "file" \/ (ch.k = "step" /\ ch.op = "start")
      BY <1>4 DEF Chunk
    <2> QED
      BY <2>1, PlainChunk
  <1>5. CASE ch = Chunk("step", "finish", None, None)
    <2>1. ch.k = "step" /\ ch.op = "finish" /\ "none" \in Words
      BY <1>5 DEF Chunk, Words
    <2> QED
      BY <1>5, <2>1, MarkChunk
  <1>6. CASE ch = Chunk("error", "put", None, None)
    <2>1. ch.k = "error" /\ "none" \in Words
      BY <1>6 DEF Chunk, Words
    <2> QED
      BY <2>1, MarkChunk
  <1> QED
    BY <1>1, <1>2, <1>3, <1>4, <1>5, <1>6 DEF QuietChunks

\* What a list of such chunks leaves as it was.
QuietLog(l, l2) ==
    /\ Quiet(l.srv, l.cli, l2.srv, l2.cli) /\ l2.open = l.open /\ ThreadKept(l.thread, l2.thread)
StepEnd == Chunk("step", "finish", None, None)

LEMMA QuietOnce ==
    ASSUME NEW log, Sim(log.srv, log.cli), log.thread \in ThreadT, NEW ch \in QuietChunks
    PROVE  /\ QuietLog(log, LogEntry(log, ch))
           /\ ch # StepEnd => LogEntry(log, ch).srv.active = log.srv.active
  <1> DEFINE l == LogEntry(log, ch)
  <1>1. Inner(ch) /\ Observe(log.open, ch) = log.open
    BY QuietFacts
  <1>2. /\ After(log.srv, log.cli, ch, l.srv, l.cli) /\ l.open = Observe(log.open, ch)
        /\ ThreadKept(log.thread, l.thread)
    BY <1>1, LogInner
  <1> HIDE DEF l
  <1>3. PICK s, t, s2, t2 : s = log.srv /\ t = log.cli /\ s2 = l.srv /\ t2 = l.cli
    OBVIOUS
  <1>4. Sim(s, t) /\ After(s, t, ch, s2, t2)
    BY <1>2, <1>3
  <1>5. Quiet(s, t, s2, t2) /\ (ch # Chunk("step", "finish", None, None) => s2.active = s.active)
    BY ONLY <1>4, ch \in QuietChunks, QuietChunk
  <1>6. QuietLog(log, l) /\ (ch # StepEnd => l.srv.active = log.srv.active)
    BY <1>1, <1>2, <1>3, <1>5 DEF QuietLog, StepEnd
  <1> QED
    BY <1>6 DEF l

LEMMA TextTrans ==
    ASSUME NEW p, NEW q, NEW r, TextSame(p, q), TextSame(q, r)
    PROVE  TextSame(p, r)
  BY DEF TextSame

LEMMA QuietTrans ==
    ASSUME NEW l, NEW m, NEW n, QuietLog(l, m), QuietLog(m, n)
    PROVE  QuietLog(l, n)
  <1>1. /\ Quiet(l.srv, l.cli, m.srv, m.cli) /\ m.open = l.open /\ ThreadKept(l.thread, m.thread)
        /\ Quiet(m.srv, m.cli, n.srv, n.cli) /\ n.open = m.open /\ ThreadKept(m.thread, n.thread)
    BY DEF QuietLog
  <1>2. ThreadKept(l.thread, n.thread)
    <2>1. PICK a, b, c : a = l.thread /\ b = m.thread /\ c = n.thread
      OBVIOUS
    <2>2. ThreadKept(a, b) /\ ThreadKept(b, c)
      BY <1>1, <2>1
    <2>3. ThreadKept(a, c)
      <3>1. c \in ThreadT
        BY <2>2 DEF ThreadKept
      <3>2. c.messages = a.messages /\ c.withdrawn = a.withdrawn /\ c.pendingId = a.pendingId
        BY <2>2 DEF ThreadKept
      <3>3. CASE c = b
        BY <2>2, <3>3
      <3>4. CASE c.pending
        BY <3>1, <3>2, <3>4 DEF ThreadKept
      <3> QED
        BY <2>2, <3>3, <3>4 DEF ThreadKept
    <2> QED
      BY <2>1, <2>3
  <1>3. Sim(n.srv, n.cli) /\ TextSame(l.srv.parts, n.srv.parts)
    <2>1. Sim(n.srv, n.cli) /\ TextSame(l.srv.parts, m.srv.parts) /\ TextSame(m.srv.parts, n.srv.parts)
      BY <1>1 DEF Quiet
    <2> QED
      BY ONLY <2>1, TextTrans
  <1>4. ViewsSame(l.srv, l.cli, n.srv, n.cli)
    BY <1>1 DEF Quiet, ViewsSame
  <1> QED
    BY <1>1, <1>2, <1>3, <1>4 DEF QuietLog, Quiet

LEMMA QuietAll ==
    ASSUME NEW log, Sim(log.srv, log.cli), log.thread \in ThreadT, NEW q \in Seq(QuietChunks)
    PROVE  /\ QuietLog(log, LogAll(log, q))
           /\ (\A i \in 1..Len(q) : q[i] # StepEnd) => LogAll(log, q).srv.active = log.srv.active
  <1> DEFINE n == Len(q)
             whole == \A i \in 1..n : q[i] # StepEnd
  <1>1. n \in Nat /\ \A i \in 1..n : q[i] \in QuietChunks
    BY LenProperties, ElementOfSeq
  <1>2. PICK g : /\ g[0] = log /\ LogAll(log, q) = g[n]
                 /\ \A i \in 1..n : g[i] = LogEntry(g[i - 1], q[i])
    BY <1>1, LogAllSteps
  <1> HIDE DEF n
  <1> DEFINE A == {i \in 0..n : QuietLog(log, g[i]) /\ (whole => g[i].srv.active = log.srv.active)}
  <1>3. 0 \in A
    <2>1. QuietLog(log, log)
      BY DEF QuietLog, Quiet, ViewsSame, TextSame, ThreadKept
    <2> QED
      BY <1>1, <1>2, <2>1
  <1>4. ASSUME NEW i \in 1..n, i - 1 \in A PROVE i \in A
    <2>1. PICK l, m : l = g[i - 1] /\ m = g[i]
      OBVIOUS
    <2>2. QuietLog(log, l) /\ (whole => l.srv.active = log.srv.active) /\ m = LogEntry(l, q[i]) /\ q[i] \in QuietChunks
      BY <1>1, <1>2, <1>4, <2>1
    <2>3. Sim(l.srv, l.cli) /\ l.thread \in ThreadT
      BY <2>2 DEF QuietLog, Quiet, ThreadKept
    <2>4. QuietLog(l, m) /\ (q[i] # StepEnd => m.srv.active = l.srv.active)
      BY ONLY <2>2, <2>3, QuietOnce
    <2>5. QuietLog(log, m)
      BY ONLY <2>2, <2>4, QuietTrans
    <2>6. whole => m.srv.active = log.srv.active
      BY <2>2, <2>4
    <2> HIDE DEF whole
    <2> QED
      BY <1>1, <1>4, <2>1, <2>5, <2>6
  <1> HIDE DEF A
  <1>6. \A i \in 0..n : i \in A
    BY <1>1, <1>3, <1>4, UpTo
  <1>5. n \in A
    BY <1>1, <1>6
  <1> QED
    BY <1>2, <1>5 DEF A, n

\* The log as the state holds it.
Log(opened) == [srv |-> srv, cli |-> cli, thread |-> thread, open |-> opened]

\* Chunks the gate lets through are all logged.
LEMMA WritePlain ==
    ASSUME NEW held, NEW opened, NEW S, NEW q \in Seq(S), \A i \in 1..Len(q) : q[i].k \notin TextKinds,
           WriteThrough(held, opened, q)
    PROVE  LET l == LogAll(Log(opened), q)
           IN  gate' = held /\ srv' = l.srv /\ cli' = l.cli /\ thread' = l.thread /\ open' = l.open
  <1>1. AdmitAll(held, q) = [held |-> held, out |-> q]
    BY AdmitPlain
  <1> QED
    BY <1>1 DEF WriteThrough, Log

\* Chunks that fold into no call and no text, written.
LEMMA WriteQuiet ==
    ASSUME NEW held, NEW opened, NEW q \in Seq(QuietChunks), WriteThrough(held, opened, q),
           Sim(srv, cli), thread \in ThreadT
    PROVE  /\ gate' = held /\ Quiet(srv, cli, srv', cli') /\ open' = opened /\ ThreadKept(thread, thread')
           /\ (\A i \in 1..Len(q) : q[i] # StepEnd) => srv'.active = srv.active
  <1> DEFINE log == Log(opened)
             l == LogAll(log, q)
  <1>1. \A i \in 1..Len(q) : q[i] \in QuietChunks
    BY ElementOfSeq
  <1>2. \A i \in 1..Len(q) : q[i].k \notin TextKinds
    BY <1>1, QuietFacts
  <1>3. gate' = held /\ srv' = l.srv /\ cli' = l.cli /\ thread' = l.thread /\ open' = l.open
    BY <1>2, WritePlain
  <1>4. log.srv = srv /\ log.cli = cli /\ log.thread = thread /\ log.open = opened
    BY DEF Log
  <1> HIDE DEF log
  <1>5. QuietLog(log, l) /\ ((\A i \in 1..Len(q) : q[i] # StepEnd) => l.srv.active = log.srv.active)
    BY <1>4, QuietAll
  <1> HIDE DEF l
  <1> QED
    BY <1>3, <1>4, <1>5 DEF QuietLog

-----------------------------------------------------------------------------
(* The invariant of the driver and of its two folds. *)

\* How far the run is with a call; those whose chunks are still to come, those whose
\* arguments are, and the states of a part that shows a call at work.
Kinds == {"new", "started", "half", "typed", "args", "refused", "answered", "asked", "parked",
          "settled", "dropped", "lost"}
Due == {"started", "half", "typed", "args", "refused", "answered"}
Arriving == {"started", "half", "typed"}
Busy == {"input-streaming", "input-available"}

TurnT == [open : BOOLEAN, n : 0..MaxTurns, msg : MessageIds \cup {None},
          fin : {"none", "stop", "other", "error"}, data : Nat,
          answer : [Calls -> {"none", "yes", "no"}]]
LiveT == [k : TextKinds \cup {"free", "ended", "tool"}, id : Ids]
StreamT == [steps : Nat, id : Nat \cup {None}, next : 1..(MaxParts + 1),
            pinned : [Indexes -> Nat \cup {None}], live : [Indexes -> LiveT]]

Types ==
    /\ turn \in TurnT /\ stream \in StreamT /\ call \in [Calls -> Kinds]
    /\ started \subseteq Calls /\ hints \subseteq Calls /\ open \subseteq Calls
    /\ sent \in [1..MaxParts -> Nat] /\ thread \in ThreadT

\* The message whose chunks wait to be cut is the turn's.
Pending ==
    /\ turn.n = 0 => /\ ~turn.open /\ ~thread.pending /\ thread.pendingId = None
                     /\ cli = EmptyAccumulator /\ \A c \in Calls : call[c] = "new"
    /\ turn.n > 0 => /\ thread.pending /\ thread.pendingId = turn.msg
                     /\ \E m \in 1..turn.n : turn.msg = Assistant(m)

\* A withdrawn part is alone in its message and its prompt is withdrawn.
WellCut(m, withdrawn) ==
    /\ m.id # None
    /\ \A j \in DOMAIN m.parts : m.parts[j].k = "turn-withdrawn" =>
          Len(m.parts) = 1 /\ m.parts[j].in \in withdrawn \cup {None}
Cuts == \A i \in DOMAIN thread.messages : WellCut(thread.messages[i], thread.withdrawn)

\* The text parts hold the deltas of their ids, each id in one part.
Texts(parts, counts, next) ==
    /\ \A i \in DOMAIN parts : parts[i].k \in TextKinds =>
          /\ parts[i].id \in 1..(next - 1) /\ parts[i].txt # <<>>
          /\ \A j \in DOMAIN parts[i].txt : parts[i].txt[j] = parts[i].id
          /\ Len(parts[i].txt) = counts[parts[i].id]
    /\ \A i, j \in DOMAIN parts :
          parts[i].k \in TextKinds /\ parts[j].k \in TextKinds /\ parts[i].id = parts[j].id => i = j

\* A part the model writes is held back by the gate or open in the folds.
Live(i) == stream.live[i].k \in TextKinds
Streams ==
    /\ \A n \in stream.next..MaxParts : sent[n] = 0
    /\ turn.open => \A i \in Indexes : Live(i) =>
          LET p == stream.live[i]
          IN  /\ p.id \in 1..(stream.next - 1) /\ stream.pinned[i] = p.id
              /\ \A j \in Indexes : Live(j) /\ stream.live[j].id = p.id => j = i
              /\ \/ p.id \in DOMAIN gate /\ gate[p.id] = Chunk(p.k, "start", p.id, None) /\ sent[p.id] = 0
                 \/ p.id \notin DOMAIN gate /\ <<p.k, p.id>> \in DOMAIN srv.active

\* What the run did with a call and what the folds show of it.
CallOK(c) ==
    LET v == View(srv, cli, c)
    IN  /\ call[c] = "new" => ~v.asked
        /\ call[c] \in Arriving => v.here /\ v.partial /\ ~v.asked /\ c \in open
        /\ call[c] = "args" => v.here /\ v.srv = "input-available"
        /\ call[c] \in {"answered", "args"} /\ turn.answer[c] = "no" => v.asked
        /\ call[c] = "answered" => c \in hints /\ c \notin started
        /\ call[c] \in Arriving \cup {"new", "parked"} => turn.answer[c] = "none"
        /\ call[c] = "asked" /\ ~turn.open /\ turn.fin = "other" => v.asked
        /\ call[c] \in Due => turn.open
        /\ turn.open /\ v.cli \in Busy => c \in open /\ call[c] \in Arriving \cup {"args"}
        /\ ~turn.open /\ turn.fin = "other" /\ v.cli \in Busy => call[c] = "parked"
        /\ ~turn.open /\ turn.fin = "error" => v.cli \notin Busy

\* The inductive invariant.
FoldInv ==
    /\ Types /\ Sim(srv, cli) /\ Pending /\ Cuts /\ Texts(srv.parts, sent, stream.next) /\ Streams
    /\ (turn.open => turn.fin = "none") /\ \A c \in Calls : CallOK(c)

\* A call's line of the invariant survives a step that does not touch the call.
LEMMA SameCall ==
    ASSUME NEW c \in Calls, CallOK(c), View(srv', cli', c) = View(srv, cli, c), call'[c] = call[c],
           turn'.answer[c] = turn.answer[c], turn'.open = turn.open, turn'.fin = turn.fin,
           c \in hints => c \in hints', c \in started' => c \in started, c \in open => c \in open'
    PROVE  CallOK(c)'
  <1>1. PICK v : v = View(srv, cli, c)
    OBVIOUS
  <1>2. View(srv', cli', c) = v
    BY <1>1
  <1> QED
    BY <1>1, <1>2 DEF CallOK

\* The text parts survive where no text changes.
LEMMA SameTexts ==
    ASSUME NEW p, NEW q, NEW counts, NEW next, Texts(p, counts, next), TextSame(p, q)
    PROVE  Texts(q, counts, next)
  <1>1. \A i \in DOMAIN q : q[i].k \in TextKinds => i \in DOMAIN p /\ p[i] = q[i]
    BY DEF TextSame
  <1>2. ASSUME NEW i \in DOMAIN q, q[i].k \in TextKinds
        PROVE  /\ q[i].id \in 1..(next - 1) /\ q[i].txt # <<>>
               /\ \A j \in DOMAIN q[i].txt : q[i].txt[j] = q[i].id
               /\ Len(q[i].txt) = counts[q[i].id]
    <2>1. i \in DOMAIN p /\ p[i] = q[i]
      BY <1>1, <1>2
    <2>2. p[i].k \in TextKinds
      BY <1>2, <2>1
    <2>3. /\ p[i].id \in 1..(next - 1) /\ p[i].txt # <<>>
          /\ \A j \in DOMAIN p[i].txt : p[i].txt[j] = p[i].id
          /\ Len(p[i].txt) = counts[p[i].id]
      BY <2>1, <2>2 DEF Texts
    <2> QED
      BY <2>1, <2>3
  <1>3. ASSUME NEW i \in DOMAIN q, NEW j \in DOMAIN q, q[i].k \in TextKinds, q[j].k \in TextKinds,
               q[i].id = q[j].id
        PROVE  i = j
    <2>1. i \in DOMAIN p /\ p[i] = q[i] /\ j \in DOMAIN p /\ p[j] = q[j]
      BY <1>1, <1>3
    <2> QED
      BY <1>3, <2>1 DEF Texts
  <1> QED
    BY <1>2, <1>3 DEF Texts

\* What is left as it was by a step that folds into no text and cuts nothing.
LEMMA Kept ==
    ASSUME FoldInv, TextSame(srv.parts, srv'.parts), Sim(srv', cli'), ThreadKept(thread, thread'),
           turn.n > 0, turn'.n \in {turn.n, turn.n + 1}, turn'.msg = turn.msg,
           stream'.next = stream.next, sent' = sent
    PROVE  /\ Sim(srv, cli)' /\ Pending' /\ Cuts' /\ Texts(srv.parts, sent, stream.next)'
           /\ thread' \in ThreadT /\ \A n \in stream'.next..MaxParts : sent'[n] = 0
  <1>1. Sim(srv, cli)'
    OBVIOUS
  <1>2. turn.n \in Nat
    BY DEF FoldInv, Types, TurnT
  <1>3. Pending'
    <2>1. thread.pending /\ thread.pendingId = turn.msg /\ \E m \in 1..turn.n : turn.msg = Assistant(m)
      BY <1>2 DEF FoldInv, Pending
    <2>2. thread'.pending /\ thread'.pendingId = turn'.msg
      BY <2>1 DEF ThreadKept
    <2>3. \E m \in 1..turn'.n : turn'.msg = Assistant(m)
      <3>1. 1..turn.n \subseteq 1..turn'.n
        BY <1>2
      <3> QED
        BY <2>1, <3>1
    <2>4. turn'.n > 0 /\ turn'.n # 0
      BY <1>2
    <2> QED
      BY <2>2, <2>3, <2>4 DEF Pending
  <1>4. Cuts'
    BY DEF FoldInv, Cuts, ThreadKept
  <1>5. Texts(srv'.parts, sent', stream'.next)
    <2>1. Texts(srv.parts, sent, stream.next)
      BY DEF FoldInv
    <2>2. Texts(srv'.parts, sent, stream.next)
      BY ONLY <2>1, TextSame(srv.parts, srv'.parts), SameTexts
    <2> QED
      BY <2>2
  <1>6. \A n \in stream'.next..MaxParts : sent'[n] = 0
    BY DEF FoldInv, Streams
  <1>7. thread' \in ThreadT
    BY DEF ThreadKept
  <1> QED
    BY <1>1, <1>3, <1>4, <1>5, <1>6, <1>7

\* The same of a step that folds into no call either.
LEMMA KeptQuiet ==
    ASSUME FoldInv, Quiet(srv, cli, srv', cli'), ThreadKept(thread, thread'),
           turn.n > 0, turn'.n = turn.n, turn'.msg = turn.msg,
           stream'.next = stream.next, sent' = sent
    PROVE  /\ Sim(srv, cli)' /\ Pending' /\ Cuts' /\ Texts(srv.parts, sent, stream.next)'
           /\ thread' \in ThreadT /\ \A n \in stream'.next..MaxParts : sent'[n] = 0
  BY Kept DEF Quiet

\* What a running turn knows.
LEMMA RunningFacts ==
    ASSUME FoldInv, turn.open
    PROVE  /\ turn.n > 0 /\ turn.fin = "none" /\ turn.n \in 1..MaxTurns
           /\ Types /\ Sim(srv, cli) /\ thread \in ThreadT /\ \A c \in Calls : CallOK(c)
  BY FoldBounds DEF FoldInv, Types, TurnT, Pending

\* The adapter's stream, field by field.
LEMMA StreamFields ==
    ASSUME NEW z \in StreamT
    PROVE  /\ z.steps \in Nat /\ z.id \in Nat \cup {None} /\ z.next \in 1..(MaxParts + 1)
           /\ z.pinned \in [Indexes -> Nat \cup {None}] /\ z.live \in [Indexes -> LiveT]
           /\ z = [steps |-> z.steps, id |-> z.id, next |-> z.next, pinned |-> z.pinned, live |-> z.live]
  <1> DEFINE N == 1..(MaxParts + 1)
             P == [Indexes -> Nat \cup {None}]
             L == [Indexes -> LiveT]
  <1>1. z \in [steps : Nat, id : Nat \cup {None}, next : N, pinned : P, live : L]
    BY DEF StreamT
  <1> HIDE DEF N, P, L
  <1>2. /\ z.steps \in Nat /\ z.id \in Nat \cup {None} /\ z.next \in N /\ z.pinned \in P /\ z.live \in L
        /\ z = [steps |-> z.steps, id |-> z.id, next |-> z.next, pinned |-> z.pinned, live |-> z.live]
    BY <1>1
  <1> QED
    BY <1>2 DEF N, P, L

LEMMA StreamMade ==
    ASSUME NEW a \in Nat, NEW b \in Nat \cup {None}, NEW n \in 1..(MaxParts + 1),
           NEW p \in [Indexes -> Nat \cup {None}], NEW l \in [Indexes -> LiveT]
    PROVE  [steps |-> a, id |-> b, next |-> n, pinned |-> p, live |-> l] \in StreamT
  <1> DEFINE N == 1..(MaxParts + 1)
             P == [Indexes -> Nat \cup {None}]
             L == [Indexes -> LiveT]
  <1>1. n \in N /\ p \in P /\ l \in L
    OBVIOUS
  <1> HIDE DEF N, P, L
  <1>2. [steps |-> a, id |-> b, next |-> n, pinned |-> p, live |-> l]
          \in [steps : Nat, id : Nat \cup {None}, next : N, pinned : P, live : L]
    BY <1>1
  <1> QED
    BY <1>2 DEF N, P, L, StreamT

LEMMA StreamChanged ==
    ASSUME NEW z \in StreamT, NEW a, NEW b, NEW n, NEW p, NEW l
    PROVE  /\ [z EXCEPT !.live = l]
                = [steps |-> z.steps, id |-> z.id, next |-> z.next, pinned |-> z.pinned, live |-> l]
           /\ [z EXCEPT !.steps = a, !.live = l]
                = [steps |-> a, id |-> z.id, next |-> z.next, pinned |-> z.pinned, live |-> l]
           /\ [z EXCEPT !.id = b, !.next = n, !.live = l, !.pinned = p]
                = [steps |-> z.steps, id |-> b, next |-> n, pinned |-> p, live |-> l]
  <1>6. z = [steps |-> z.steps, id |-> z.id, next |-> z.next, pinned |-> z.pinned, live |-> z.live]
    BY StreamFields
  <1>7. PICK s : s = z.steps
    OBVIOUS
  <1>8. PICK i : i = z.id
    OBVIOUS
  <1>9. PICK m : m = z.next
    OBVIOUS
  <1>10. PICK o : o = z.pinned
    OBVIOUS
  <1>11. PICK k : k = z.live
    OBVIOUS
  <1>2. z.steps = s /\ z.id = i /\ z.next = m /\ z.pinned = o
    BY <1>7, <1>8, <1>9, <1>10
  <1>1. z = [steps |-> s, id |-> i, next |-> m, pinned |-> o, live |-> k]
    BY ONLY <1>6, <1>7, <1>8, <1>9, <1>10, <1>11
  <1>3. [z EXCEPT !.live = l] = [steps |-> s, id |-> i, next |-> m, pinned |-> o, live |-> l]
    BY ONLY <1>1
  <1>4. [z EXCEPT !.steps = a, !.live = l]
          = [steps |-> a, id |-> i, next |-> m, pinned |-> o, live |-> l]
    <2>1. PICK y : y = [z EXCEPT !.steps = a]
      OBVIOUS
    <2>2. y = [steps |-> a, id |-> i, next |-> m, pinned |-> o, live |-> k]
      BY ONLY <2>1, <1>1
    <2>3. [y EXCEPT !.live = l] = [steps |-> a, id |-> i, next |-> m, pinned |-> o, live |-> l]
      BY ONLY <2>2
    <2> QED
      BY ONLY <2>1, <2>3
  <1>5. [z EXCEPT !.id = b, !.next = n, !.live = l, !.pinned = p]
          = [steps |-> s, id |-> b, next |-> n, pinned |-> p, live |-> l]
    <2>1. PICK y : y = [z EXCEPT !.id = b]
      OBVIOUS
    <2>2. y = [steps |-> s, id |-> b, next |-> m, pinned |-> o, live |-> k]
      BY ONLY <2>1, <1>1
    <2>3. PICK x : x = [y EXCEPT !.next = n]
      OBVIOUS
    <2>4. x = [steps |-> s, id |-> b, next |-> n, pinned |-> o, live |-> k]
      BY ONLY <2>2, <2>3
    <2>5. PICK w : w = [x EXCEPT !.live = l]
      OBVIOUS
    <2>6. w = [steps |-> s, id |-> b, next |-> n, pinned |-> o, live |-> l]
      BY ONLY <2>4, <2>5
    <2>7. [w EXCEPT !.pinned = p] = [steps |-> s, id |-> b, next |-> n, pinned |-> p, live |-> l]
      BY ONLY <2>6
    <2> QED
      BY ONLY <2>1, <2>3, <2>5, <2>7
  <1> QED
    BY <1>2, <1>3, <1>4, <1>5

\* A response starts.
LEMMA StartResponseKeeps ==
    ASSUME FoldInv, StartResponse
    PROVE  FoldInv'
  <1> DEFINE q == (IF stream.steps > 0 THEN <<Chunk("step", "finish", None, None)>> ELSE <<>>)
                    \o <<Chunk("step", "start", None, None)>>
  <1>1. /\ turn.open /\ WriteThrough(gate, open, q)
        /\ stream' = [stream EXCEPT !.steps = @ + 1, !.live = [i \in Indexes |-> Free]]
        /\ UNCHANGED <<turn, call, started, hints, sent>>
    BY DEF StartResponse, Running, Emit
  <1>2. /\ turn.n > 0 /\ turn.fin = "none" /\ turn.n \in 1..MaxTurns
        /\ Types /\ Sim(srv, cli) /\ thread \in ThreadT /\ \A c \in Calls : CallOK(c)
    BY <1>1, RunningFacts
  <1>3. q \in Seq(QuietChunks)
    <2>1. Chunk("step", "finish", None, None) \in QuietChunks /\ Chunk("step", "start", None, None) \in QuietChunks
      BY DEF QuietChunks
    <2>2. <<Chunk("step", "finish", None, None)>> \in Seq(QuietChunks) /\ <<Chunk("step", "start", None, None)>> \in Seq(QuietChunks)
          /\ <<>> \in Seq(QuietChunks)
      BY <2>1
    <2> QED
      BY <2>2, ConcatProperties
  <1> HIDE DEF q
  <1>4. gate' = gate /\ Quiet(srv, cli, srv', cli') /\ open' = open /\ ThreadKept(thread, thread')
    BY <1>1, <1>2, <1>3, WriteQuiet
  <1>5. stream \in StreamT
    BY <1>2 DEF Types
  <1>6. stream'.next = stream.next /\ stream' \in StreamT /\ \A i \in Indexes : ~Live(i)'
    <2>1. Free \in LiveT /\ Free.k \notin TextKinds
      BY DEF Free, LiveT, Ids, TextKinds
    <2>2. PICK f : f = [i \in Indexes |-> Free]
      OBVIOUS
    <2>3. f \in [Indexes -> LiveT] /\ \A i \in Indexes : f[i] = Free
      BY <2>1, <2>2
    <2>4. stream' = [stream EXCEPT !.steps = stream.steps + 1, !.live = f]
      BY <1>1, <2>2
    <2>6. stream' = [steps |-> stream.steps + 1, id |-> stream.id, next |-> stream.next,
                     pinned |-> stream.pinned, live |-> f]
      BY <1>5, <2>4, StreamChanged
    <2>5. stream'.next = stream.next /\ stream' \in StreamT /\ stream'.live = f
      BY <1>5, <2>3, <2>6, StreamFields, StreamMade
    <2> QED
      BY <2>1, <2>3, <2>5 DEF Live
  <1>7. /\ Sim(srv, cli)' /\ Pending' /\ Cuts' /\ Texts(srv.parts, sent, stream.next)'
        /\ thread' \in ThreadT /\ \A n \in stream'.next..MaxParts : sent'[n] = 0
    BY <1>1, <1>2, <1>4, <1>6, KeptQuiet
  <1>8. Types'
    BY <1>1, <1>2, <1>4, <1>6, <1>7 DEF Types
  <1>9. Streams'
    BY <1>6, <1>7 DEF Streams
  <1>10. ASSUME NEW c \in Calls PROVE CallOK(c)'
    BY <1>1, <1>2, <1>4, SameCall DEF Quiet, ViewsSame
  <1> QED
    BY <1>1, <1>2, <1>7, <1>8, <1>9, <1>10 DEF FoldInv

\* The driver's turn, field by field.
LEMMA TurnFields ==
    ASSUME NEW z \in TurnT
    PROVE  /\ z.open \in BOOLEAN /\ z.n \in 0..MaxTurns /\ z.msg \in MessageIds \cup {None}
           /\ z.fin \in {"none", "stop", "other", "error"} /\ z.data \in Nat
           /\ z.answer \in [Calls -> {"none", "yes", "no"}]
           /\ z = [open |-> z.open, n |-> z.n, msg |-> z.msg, fin |-> z.fin, data |-> z.data, answer |-> z.answer]
  <1> DEFINE N == 0..MaxTurns
             M == MessageIds \cup {None}
             R == [Calls -> {"none", "yes", "no"}]
             E == {"none", "stop", "other", "error"}
  <1>1. z \in [open : BOOLEAN, n : N, msg : M, fin : E, data : Nat, answer : R]
    BY DEF TurnT
  <1> HIDE DEF N, M, R, E
  <1>2. /\ z.open \in BOOLEAN /\ z.n \in N /\ z.msg \in M /\ z.fin \in E /\ z.data \in Nat /\ z.answer \in R
        /\ z = [open |-> z.open, n |-> z.n, msg |-> z.msg, fin |-> z.fin, data |-> z.data, answer |-> z.answer]
    BY <1>1
  <1> QED
    BY <1>2 DEF N, M, R, E

LEMMA TurnMade ==
    ASSUME NEW o \in BOOLEAN, NEW m \in 0..MaxTurns, NEW g \in MessageIds \cup {None},
           NEW f \in {"none", "stop", "other", "error"}, NEW d \in Nat,
           NEW a \in [Calls -> {"none", "yes", "no"}]
    PROVE  [open |-> o, n |-> m, msg |-> g, fin |-> f, data |-> d, answer |-> a] \in TurnT
  <1> DEFINE N == 0..MaxTurns
             M == MessageIds \cup {None}
             R == [Calls -> {"none", "yes", "no"}]
             E == {"none", "stop", "other", "error"}
  <1>1. o \in BOOLEAN /\ m \in N /\ g \in M /\ f \in E /\ a \in R
    OBVIOUS
  <1> HIDE DEF N, M, R, E
  <1>2. [open |-> o, n |-> m, msg |-> g, fin |-> f, data |-> d, answer |-> a]
          \in [open : BOOLEAN, n : N, msg : M, fin : E, data : Nat, answer : R]
    BY <1>1
  <1> QED
    BY <1>2 DEF N, M, R, E, TurnT

LEMMA TurnChanged ==
    ASSUME NEW z \in TurnT
    PROVE  /\ \A d2 : [z EXCEPT !.data = d2]
                = [open |-> z.open, n |-> z.n, msg |-> z.msg, fin |-> z.fin, data |-> d2, answer |-> z.answer]
           /\ \A o2, f2 : [z EXCEPT !.open = o2, !.fin = f2]
                = [open |-> o2, n |-> z.n, msg |-> z.msg, fin |-> f2, data |-> z.data, answer |-> z.answer]
  <1>1. z = [open |-> z.open, n |-> z.n, msg |-> z.msg, fin |-> z.fin, data |-> z.data, answer |-> z.answer]
    BY TurnFields
  <1>2. PICK o : o = z.open
    OBVIOUS
  <1>3. PICK m : m = z.n
    OBVIOUS
  <1>4. PICK g : g = z.msg
    OBVIOUS
  <1>5. PICK f : f = z.fin
    OBVIOUS
  <1>6. PICK d : d = z.data
    OBVIOUS
  <1>7. PICK a : a = z.answer
    OBVIOUS
  <1>8. z = [open |-> o, n |-> m, msg |-> g, fin |-> f, data |-> d, answer |-> a]
    BY ONLY <1>1, <1>2, <1>3, <1>4, <1>5, <1>6, <1>7
  <1>9. ASSUME NEW d2 PROVE [z EXCEPT !.data = d2]
          = [open |-> o, n |-> m, msg |-> g, fin |-> f, data |-> d2, answer |-> a]
    BY ONLY <1>8
  <1>10. ASSUME NEW o2, NEW f2 PROVE [z EXCEPT !.open = o2, !.fin = f2]
          = [open |-> o2, n |-> m, msg |-> g, fin |-> f2, data |-> d, answer |-> a]
    <2>1. PICK y : y = [z EXCEPT !.open = o2]
      OBVIOUS
    <2>2. y = [open |-> o2, n |-> m, msg |-> g, fin |-> f, data |-> d, answer |-> a]
      BY ONLY <2>1, <1>8
    <2>3. [y EXCEPT !.fin = f2]
            = [open |-> o2, n |-> m, msg |-> g, fin |-> f2, data |-> d, answer |-> a]
      BY ONLY <2>2
    <2> QED
      BY ONLY <2>1, <2>3
  <1>13. \A d2 : [z EXCEPT !.data = d2]
                = [open |-> z.open, n |-> z.n, msg |-> z.msg, fin |-> z.fin, data |-> d2, answer |-> z.answer]
    BY <1>2, <1>3, <1>4, <1>5, <1>6, <1>7, <1>9
  <1>14. \A o2, f2 : [z EXCEPT !.open = o2, !.fin = f2]
                = [open |-> o2, n |-> z.n, msg |-> z.msg, fin |-> f2, data |-> z.data, answer |-> z.answer]
    BY <1>2, <1>3, <1>4, <1>5, <1>6, <1>7, <1>10
  <1> QED
    BY <1>13, <1>14

\* A turn's record, all of it at once.
TurnIs(z, o, m, g, f, d, a) ==
    z = [open |-> o, n |-> m, msg |-> g, fin |-> f, data |-> d, answer |-> a]

LEMMA TurnItself ==
    ASSUME NEW z \in TurnT
    PROVE  TurnIs(z, z.open, z.n, z.msg, z.fin, z.data, z.answer)
  BY TurnFields DEF TurnIs

TurnOpens(z, o2, m2, g2, f2, u) == u = [z EXCEPT !.open = o2, !.n = m2, !.msg = g2, !.fin = f2]

LEMMA TurnOpensRec ==
    ASSUME NEW o, NEW m, NEW g, NEW f, NEW d, NEW a, NEW o2, NEW m2, NEW g2, NEW f2, NEW z, NEW u,
           TurnIs(z, o, m, g, f, d, a), TurnOpens(z, o2, m2, g2, f2, u)
    PROVE  TurnIs(u, o2, m2, g2, f2, d, a)
  <1>0. z = [open |-> o, n |-> m, msg |-> g, fin |-> f, data |-> d, answer |-> a] /\ u = [z EXCEPT !.open = o2, !.n = m2, !.msg = g2, !.fin = f2]
    BY DEF TurnIs, TurnOpens
  <1>1. PICK y : y = [z EXCEPT !.open = o2]
    OBVIOUS
  <1>2. y = [open |-> o2, n |-> m, msg |-> g, fin |-> f, data |-> d, answer |-> a]
    BY ONLY <1>1, <1>0
  <1>3. PICK x : x = [y EXCEPT !.n = m2]
    OBVIOUS
  <1>4. x = [open |-> o2, n |-> m2, msg |-> g, fin |-> f, data |-> d, answer |-> a]
    BY ONLY <1>3, <1>2
  <1>5. PICK w : w = [x EXCEPT !.msg = g2]
    OBVIOUS
  <1>6. w = [open |-> o2, n |-> m2, msg |-> g2, fin |-> f, data |-> d, answer |-> a]
    BY ONLY <1>5, <1>4
  <1>7. [w EXCEPT !.fin = f2]
          = [open |-> o2, n |-> m2, msg |-> g2, fin |-> f2, data |-> d, answer |-> a]
    BY ONLY <1>6
  <1> QED
    BY ONLY <1>0, <1>1, <1>3, <1>5, <1>7 DEF TurnIs

TurnAnswers(z, o2, m2, f2, a2, u) == u = [z EXCEPT !.open = o2, !.n = m2, !.fin = f2, !.answer = a2]

LEMMA TurnAnswersRec ==
    ASSUME NEW o, NEW m, NEW g, NEW f, NEW d, NEW a, NEW o2, NEW m2, NEW f2, NEW a2, NEW z, NEW u,
           TurnIs(z, o, m, g, f, d, a), TurnAnswers(z, o2, m2, f2, a2, u)
    PROVE  TurnIs(u, o2, m2, g, f2, d, a2)
  <1>0. z = [open |-> o, n |-> m, msg |-> g, fin |-> f, data |-> d, answer |-> a] /\ u = [z EXCEPT !.open = o2, !.n = m2, !.fin = f2, !.answer = a2]
    BY DEF TurnIs, TurnAnswers
  <1>1. PICK y : y = [z EXCEPT !.open = o2]
    OBVIOUS
  <1>2. y = [open |-> o2, n |-> m, msg |-> g, fin |-> f, data |-> d, answer |-> a]
    BY ONLY <1>1, <1>0
  <1>3. PICK x : x = [y EXCEPT !.n = m2]
    OBVIOUS
  <1>4. x = [open |-> o2, n |-> m2, msg |-> g, fin |-> f, data |-> d, answer |-> a]
    BY ONLY <1>3, <1>2
  <1>5. PICK w : w = [x EXCEPT !.fin = f2]
    OBVIOUS
  <1>6. w = [open |-> o2, n |-> m2, msg |-> g, fin |-> f2, data |-> d, answer |-> a]
    BY ONLY <1>5, <1>4
  <1>7. [w EXCEPT !.answer = a2]
          = [open |-> o2, n |-> m2, msg |-> g, fin |-> f2, data |-> d, answer |-> a2]
    BY ONLY <1>6
  <1> QED
    BY ONLY <1>0, <1>1, <1>3, <1>5, <1>7 DEF TurnIs

\* Work outside the calls: a data part, a file.
LEMMA OtherPartKeeps ==
    ASSUME FoldInv, NEW ch, OtherPart(ch)
    PROVE  FoldInv'
  <1>1. /\ turn.n > 0 /\ turn' = [turn EXCEPT !.data = turn.data + 1] /\ WriteThrough(gate, open, <<ch>>)
        /\ UNCHANGED <<stream, call, started, hints, sent>>
    BY DEF OtherPart, Emit, producer
  <1>2. /\ Types /\ Sim(srv, cli) /\ thread \in ThreadT /\ \A c \in Calls : CallOK(c)
    BY DEF FoldInv, Types
  <1>3. turn \in TurnT
    BY <1>2 DEF Types
  <1>4. turn.data \in Nat
    BY <1>3, TurnFields
  <1>5. turn' = [open |-> turn.open, n |-> turn.n, msg |-> turn.msg, fin |-> turn.fin, data |-> turn.data + 1,
                 answer |-> turn.answer]
    BY <1>1, <1>3, TurnChanged
  <1>6. turn.data + 1 \in Nat
    BY <1>4
  <1>7. turn' \in TurnT
    BY <1>3, <1>5, <1>6, TurnFields, TurnMade
  <1>8. /\ turn'.open = turn.open /\ turn'.n = turn.n /\ turn'.msg = turn.msg /\ turn'.fin = turn.fin
        /\ turn'.answer = turn.answer
    BY ONLY <1>5
  <1>9. ch \in QuietChunks /\ ch # StepEnd
    <2>1. turn.data \in Vals /\ "lane" \in Ids /\ None \in Ids /\ None \in Vals
      BY <1>4 DEF Vals, Ids
    <2>2. CASE ch = Chunk("task-progress", "put", "lane", turn.data)
      BY <2>1, <2>2 DEF QuietChunks, DataKinds, Chunk, StepEnd
    <2>3. CASE ch = Chunk("turn-usage", "transient", None, None)
      BY <2>1, <2>3 DEF QuietChunks, DataKinds, Chunk, StepEnd
    <2>4. CASE ch = Chunk("file", "put", None, None)
      BY <2>4 DEF QuietChunks, Chunk, StepEnd
    <2> QED
      BY <2>2, <2>3, <2>4 DEF OtherPart
  <1> DEFINE q == <<ch>>
  <1>10. q \in Seq(QuietChunks) /\ \A i \in 1..Len(q) : q[i] # StepEnd
    BY <1>9
  <1>11. WriteThrough(gate, open, q)
    BY <1>1
  <1> HIDE DEF q
  <1>12. /\ gate' = gate /\ Quiet(srv, cli, srv', cli') /\ open' = open /\ ThreadKept(thread, thread')
         /\ srv'.active = srv.active
    BY <1>2, <1>10, <1>11, WriteQuiet
  <1>13. /\ Sim(srv, cli)' /\ Pending' /\ Cuts' /\ Texts(srv.parts, sent, stream.next)'
         /\ thread' \in ThreadT /\ \A n \in stream'.next..MaxParts : sent'[n] = 0
    BY <1>1, <1>8, <1>12, KeptQuiet
  <1>14. Types'
    BY <1>1, <1>2, <1>7, <1>12, <1>13 DEF Types
  <1>15. Streams'
    BY <1>1, <1>8, <1>12, <1>13 DEF Streams, FoldInv, Live
  <1>16. ASSUME NEW c \in Calls PROVE CallOK(c)'
    BY <1>1, <1>2, <1>8, <1>12, SameCall DEF Quiet, ViewsSame
  <1>17. (turn.open => turn.fin = "none")'
    BY <1>8 DEF FoldInv
  <1> QED
    BY <1>13, <1>14, <1>15, <1>16, <1>17 DEF FoldInv

ClosesInto(z, f, u) == u = [z EXCEPT !.open = FALSE, !.fin = f]
IsClosed(z, f, u) ==
    u \in TurnT /\ ~u.open /\ u.n = z.n /\ u.msg = z.msg /\ u.fin = f /\ u.answer = z.answer

LEMMA TurnClosed ==
    ASSUME NEW z \in TurnT, NEW u, NEW f \in {"none", "stop", "other", "error"}, ClosesInto(z, f, u)
    PROVE  IsClosed(z, f, u)
  <1> SUFFICES u \in TurnT /\ ~u.open /\ u.n = z.n /\ u.msg = z.msg /\ u.fin = f /\ u.answer = z.answer
    BY DEF IsClosed
  <1> USE DEF ClosesInto
  <1>1. u = [open |-> FALSE, n |-> z.n, msg |-> z.msg, fin |-> f, data |-> z.data, answer |-> z.answer]
    BY TurnChanged
  <1>2. u \in TurnT
    <2>1. PICK o \in BOOLEAN : o = FALSE
      OBVIOUS
    <2>2. /\ z.n \in 0..MaxTurns /\ z.msg \in MessageIds \cup {None} /\ z.data \in Nat
          /\ z.answer \in [Calls -> {"none", "yes", "no"}]
      BY TurnFields
    <2>3. [open |-> o, n |-> z.n, msg |-> z.msg, fin |-> f, data |-> z.data, answer |-> z.answer] \in TurnT
      BY <2>2, TurnMade
    <2> QED
      BY <1>1, <2>1, <2>3
  <1> QED
    BY <1>1, <1>2

\* A turn that ends as a run does, once nothing it made is waited for.
LEMMA EndKeeps ==
    ASSUME FoldInv, turn.open, turn' = [turn EXCEPT !.open = FALSE, !.fin = "stop"],
           NEW q \in Seq(QuietChunks), WriteThrough(gate, open, q), call' = Passed(Abandoned),
           UNCHANGED <<stream, started, hints, sent>>
    PROVE  FoldInv'
  <1>1. /\ turn.n > 0 /\ turn.fin = "none" /\ turn.n \in 1..MaxTurns
        /\ Types /\ Sim(srv, cli) /\ thread \in ThreadT /\ \A c \in Calls : CallOK(c)
    BY RunningFacts
  <1>2. turn \in TurnT /\ stream \in StreamT /\ call \in [Calls -> Kinds]
    BY <1>1 DEF Types
  <1>4. /\ turn' \in TurnT /\ ~turn'.open /\ turn'.n = turn.n /\ turn'.msg = turn.msg /\ turn'.fin = "stop"
        /\ turn'.answer = turn.answer
    <2>1. PICK z \in TurnT : z = turn
      BY <1>2
    <2>2. PICK u, f : u = turn' /\ f = "stop"
      OBVIOUS
    <2>3. f \in {"none", "stop", "other", "error"} /\ ClosesInto(z, f, u)
      BY <2>1, <2>2 DEF ClosesInto
    <2>4. IsClosed(z, f, u)
      BY ONLY <2>3, z \in TurnT, TurnClosed
    <2> QED
      BY <2>1, <2>2, <2>4 DEF IsClosed
  <1>5. /\ ~turn'.open /\ turn'.n = turn.n /\ turn'.msg = turn.msg /\ turn'.fin = "stop"
        /\ turn'.answer = turn.answer
    BY ONLY <1>4
  <1>6. gate' = gate /\ Quiet(srv, cli, srv', cli') /\ open' = open /\ ThreadKept(thread, thread')
    BY <1>1, WriteQuiet
  <1>7. /\ Sim(srv, cli)' /\ Pending' /\ Cuts' /\ Texts(srv.parts, sent, stream.next)'
        /\ thread' \in ThreadT /\ \A n \in stream'.next..MaxParts : sent'[n] = 0
    BY <1>1, <1>5, <1>6, KeptQuiet
  <1>8. ASSUME NEW c \in Calls
        PROVE  call'[c] \in Kinds \ (Due \cup {"asked", "parked"}) /\ (call'[c] = "new" => call[c] = "new")
    <2>1. Abandoned[c] = IF call[c] \in Due THEN "lost" ELSE call[c]
      BY DEF Abandoned, Outstanding, Due
    <2>2. Abandoned[c] \in Kinds \ Due /\ (Abandoned[c] = "new" => call[c] = "new")
      BY <1>2, <2>1 DEF Kinds, Due
    <2>3. call'[c] = IF Abandoned[c] \in {"asked", "parked"} THEN "dropped" ELSE Abandoned[c]
      BY DEF Passed
    <2> QED
      BY <2>2, <2>3 DEF Kinds, Due
  <1>9. call' \in [Calls -> Kinds]
    <2>1. call' = [c \in Calls |-> IF Abandoned[c] \in {"asked", "parked"} THEN "dropped" ELSE Abandoned[c]]
      BY DEF Passed
    <2> HIDE DEF Abandoned
    <2>2. call' = [c \in Calls |-> call'[c]]
      BY <2>1
    <2> QED
      BY <1>8, <2>2
  <1>10. Types'
    BY <1>1, <1>4, <1>6, <1>7, <1>9 DEF Types
  <1>11. Streams'
    BY <1>5, <1>7 DEF Streams
  <1>12. ASSUME NEW c \in Calls PROVE CallOK(c)'
    <2>1. PICK v : v = View(srv, cli, c)
      OBVIOUS
    <2>2. View(srv', cli', c) = v
      BY <1>6, <2>1 DEF Quiet, ViewsSame
    <2>3. CallOK(c)
      BY <1>1
    <2> QED
      BY <1>5, <1>8, <2>1, <2>2, <2>3 DEF CallOK, Due, Arriving
  <1> QED
    BY <1>5, <1>7, <1>10, <1>11, <1>12 DEF FoldInv

\* A run that ends, declines or raises.
LEMMA RunStops ==
    ASSUME FoldInv, RunEnds \/ Decline \/ RunFails
    PROVE  FoldInv'
  <1>1. Chunk("step", "finish", None, None) \in QuietChunks
    BY DEF QuietChunks
  <1>2. LastStep \in Seq(QuietChunks)
    BY <1>1 DEF LastStep
  <1>3. Chunk("message", "finish", None, "stop") \in QuietChunks
    BY DEF QuietChunks, Words
  <1>4. Chunk("error", "put", None, None) \in QuietChunks
    BY DEF QuietChunks
  <1>5. ASSUME NEW q \in Seq(QuietChunks), EndTurn(q, "stop"), call' = Passed(Abandoned)
        PROVE  FoldInv'
    <2>1. PICK r : r = q \o <<Chunk("message", "finish", None, "stop")>>
      OBVIOUS
    <2>2. r \in Seq(QuietChunks)
      BY <1>3, <2>1
    <2>3. /\ turn.open /\ turn' = [turn EXCEPT !.open = FALSE, !.fin = "stop"]
          /\ WriteThrough(gate, open, r) /\ UNCHANGED <<stream, started, hints, sent>>
      BY <1>5, <2>1 DEF EndTurn, Emit
    <2> QED
      BY <1>5, <2>2, <2>3, EndKeeps
  <1>6. CASE RunEnds
    BY <1>2, <1>5, <1>6 DEF RunEnds
  <1>7. CASE RunFails
    <2>1. PICK q : q = <<Chunk("error", "put", None, None)>> \o LastStep
      OBVIOUS
    <2>2. q \in Seq(QuietChunks)
      BY <1>2, <1>4, <2>1
    <2>3. EndTurn(q, "stop") /\ call' = Passed(Abandoned)
      BY <1>7, <2>1 DEF RunFails
    <2> QED
      BY <1>5, <2>2, <2>3
  <1>8. CASE Decline
    <2>1. PICK x : x = IF turn.msg = Assistant(turn.n) /\ hints = {} THEN User(turn.n) ELSE None
      OBVIOUS
    <2>2. PICK q : q = <<Chunk("turn-withdrawn", "put", None, x), Chunk("error", "put", None, None)>> \o LastStep
      OBVIOUS
    <2>3. EndTurn(q, "stop") /\ call' = Passed(Abandoned) /\ turn.open
      BY <1>8, <2>1, <2>2 DEF Decline, EndTurn
    <2>4. turn.n \in Nat
      BY <2>3, RunningFacts
    <2>5. x \in Vals
      BY <2>1, <2>4 DEF Vals
    <2>6. Chunk("turn-withdrawn", "put", None, x) \in QuietChunks
      BY <2>5 DEF QuietChunks, DataKinds, Ids
    <2>7. q \in Seq(QuietChunks)
      BY <1>2, <1>4, <2>2, <2>6
    <2> QED
      BY <1>5, <2>3, <2>7
  <1> QED
    BY <1>6, <1>7, <1>8

-----------------------------------------------------------------------------
(* How a turn opens: the log is cut and the folds start over. *)

\* Two folds of a message with no call and no text yet.
Fresh(s, t) ==
    /\ Sim(s, t) /\ \A c \in Calls : View(s, t, c) = Gone
    /\ \A i \in DOMAIN s.parts : s.parts[i].k \notin TextKinds

LEMMA Empty == Fresh(NewState, EmptyAccumulator)
  <1>1. <<>> \in Seq(PartT) /\ DOMAIN <<>> = {} /\ Len(<<>>) = 0
    OBVIOUS
  <1>2. << >> \in Fns(Keys, Nat) /\ << >> \in Fns(Calls, Track)
    BY EmptyFns
  <1>3. NewState \in SrvT
    BY <1>1, <1>2 DEF NewState, SrvT, Words
  <1>4. EmptyAccumulator \in CliT
    BY <1>1, <1>2 DEF EmptyAccumulator, CliT, Words
  <1>5. /\ NewState.parts = <<>> /\ NewState.active = << >> /\ NewState.partial = {} /\ NewState.asked = {}
        /\ NewState.fin = "none" /\ NewState.meta = {}
    BY DEF NewState
  <1>6. /\ EmptyAccumulator.parts = <<>> /\ EmptyAccumulator.at = << >> /\ EmptyAccumulator.tools = << >>
        /\ EmptyAccumulator.fin = "none" /\ EmptyAccumulator.meta = {}
    BY DEF EmptyAccumulator
  <1>7. Agree(NewState, EmptyAccumulator)
    BY ONLY <1>1, <1>5, <1>6 DEF Agree
  <1>8. Tracks(NewState, EmptyAccumulator)
    BY ONLY <1>1, <1>5, <1>6 DEF Tracks
  <1>9. Placed(NewState, EmptyAccumulator)
    BY ONLY <1>1, <1>5, <1>6 DEF Placed
  <1>10. \A c \in Calls : View(NewState, EmptyAccumulator, c) = Gone
    BY ONLY <1>1, <1>6 DEF View
  <1> QED
    BY ONLY <1>1, <1>3, <1>4, <1>5, <1>7, <1>8, <1>9, <1>10 DEF Fresh, Sim

\* The start of a message leaves them so.
LEMMA MessageOpens ==
    ASSUME NEW id, NEW s2, NEW t2, After(NewState, EmptyAccumulator, Chunk("message", "start", id, "new"), s2, t2)
    PROVE  Fresh(s2, t2)
  <1>1. PICK s : s = NewState
    OBVIOUS
  <1>2. PICK t : t = EmptyAccumulator
    OBVIOUS
  <1>3. PICK ch : ch = Chunk("message", "start", id, "new")
    OBVIOUS
  <1>4. After(s, t, ch, s2, t2) /\ Fresh(s, t)
    BY <1>1, <1>2, <1>3, Empty
  <1>5. ch.k = "message" /\ ch.op \in {"start", "finish"} /\ ch.x = "new" /\ "new" \in Words
    BY <1>3 DEF Chunk, Words
  <1>6. Sim(s, t)
    BY <1>4 DEF Fresh
  <1>7. Quiet(s, t, s2, t2)
    BY ONLY <1>4, <1>5, <1>6, MarkChunk
  <1>8. Sim(s2, t2) /\ \A c \in Calls : View(s2, t2, c) = Gone
    BY <1>4, <1>7 DEF Fresh, Quiet, ViewsSame
  <1>9. \A i \in DOMAIN s2.parts : s2.parts[i].k \notin TextKinds
    BY <1>4, <1>7 DEF Fresh, Quiet, TextSame
  <1> QED
    BY <1>8, <1>9 DEF Fresh

\* The messages cut so far are cut well.
CutOK(b) == \A i \in DOMAIN b.messages : WellCut(b.messages[i], b.withdrawn)

\* The first withdrawn part, if any.
LEMMA FirstWithdrawn ==
    ASSUME NEW q \in Seq(PartT)
    PROVE  LET i == SelectInSeq(q, LAMBDA p : p.k = "turn-withdrawn")
           IN  /\ i = 0 => \A j \in DOMAIN q : q[j].k # "turn-withdrawn"
               /\ i # 0 => i \in DOMAIN q /\ q[i].k = "turn-withdrawn"
  <1> DEFINE i == SelectInSeq(q, LAMBDA p : p.k = "turn-withdrawn")
             I == {j \in 1..Len(q) : q[j].k = "turn-withdrawn"}
  <1>1. I \subseteq DOMAIN q /\ DOMAIN q = 1..Len(q) /\ I \in SUBSET Nat
    BY SeqFacts
  <1>2. CASE I = {}
    <2>1. i = 0
      BY <1>2 DEF SelectInSeq
    <2>2. \A j \in DOMAIN q : q[j].k # "turn-withdrawn"
      BY <1>1, <1>2
    <2> QED
      BY <2>1, <2>2
  <1>3. CASE I # {}
    <2>1. i = CHOOSE x \in I : \A y \in I : x <= y
      BY <1>3 DEF SelectInSeq, Min
    <2>2. \E x \in I : \A y \in I : x <= y
      BY <1>1, <1>3, LeastNat
    <2> HIDE DEF i
    <2>3. i \in I
      BY <2>1, <2>2
    <2>4. i # 0 /\ i \in DOMAIN q /\ q[i].k = "turn-withdrawn"
      BY <1>1, <2>3
    <2> QED
      BY <2>4 DEF i
  <1> QED
    BY <1>2, <1>3

\* What a message is reduced to when the log is cut.
LEMMA ReducedFacts ==
    ASSUME NEW q \in Seq(PartT)
    PROVE  /\ Reduced(q) \in Seq(PartT) /\ WithdrawnPrompts(q) \subseteq Vals
           /\ \A j \in DOMAIN Reduced(q) : Reduced(q)[j].k = "turn-withdrawn" =>
                Len(Reduced(q)) = 1 /\ Reduced(q)[j].in \in WithdrawnPrompts(q) \cup {None}
  <1> DEFINE i == SelectInSeq(q, LAMBDA p : p.k = "turn-withdrawn")
  <1>1. /\ i = 0 => \A j \in DOMAIN q : q[j].k # "turn-withdrawn"
        /\ i # 0 => i \in DOMAIN q /\ q[i].k = "turn-withdrawn"
    BY FirstWithdrawn
  <1>2. Reduced(q) = IF i = 0 THEN q ELSE <<q[i]>>
    BY DEF Reduced
  <1> HIDE DEF i
  <1>3. WithdrawnPrompts(q) \subseteq Vals
    <2>1. \A j \in DOMAIN q : q[j].in \in Vals
      BY SeqFacts DEF PartT
    <2> QED
      BY <2>1 DEF WithdrawnPrompts
  <1>4. CASE i = 0
    BY <1>1, <1>2, <1>3, <1>4
  <1>5. CASE i # 0
    <2>1. PICK p : p = q[i]
      OBVIOUS
    <2>2. p \in PartT
      BY <1>1, <1>5, <2>1, SeqFacts
    <2>3. Reduced(q) = <<p>>
      BY <1>2, <1>5, <2>1
    <2>4. p.in \in WithdrawnPrompts(q) \cup {None}
      BY <1>1, <1>5, <2>1 DEF WithdrawnPrompts
    <2>5. Reduced(q) \in Seq(PartT) /\ Len(Reduced(q)) = 1 /\ DOMAIN Reduced(q) = {1} /\ Reduced(q)[1] = p
      BY <2>2, <2>3
    <2> QED
      BY <1>3, <2>4, <2>5
  <1> QED
    BY <1>4, <1>5

LEMMA MoreWithdrawn ==
    ASSUME NEW m, NEW W, NEW V, W \subseteq V, WellCut(m, W)
    PROVE  WellCut(m, V)
  BY DEF WellCut

\* The snapshot builder's record, field by field.
LEMMA ThreadFields ==
    ASSUME NEW b \in ThreadT
    PROVE  /\ b.messages \in Seq(Messages) /\ b.withdrawn \in SUBSET Vals /\ b.pending \in BOOLEAN
           /\ b.pendingId \in MessageIds \cup {None}
  BY DEF ThreadT

LEMMA ThreadMessages ==
    ASSUME NEW b \in ThreadT, NEW M \in Seq(Messages), NEW u, u = [b EXCEPT !.messages = M]
    PROVE  /\ u \in ThreadT /\ u.messages = M /\ u.withdrawn = b.withdrawn
           /\ (u.pending <=> b.pending) /\ u.pendingId = b.pendingId
  BY DEF ThreadT

\* The builder b once its pending message is cut and W is withdrawn.
CutInto(b, W, u) == u = [b EXCEPT !.withdrawn = W, !.pending = FALSE, !.pendingId = None]
IsCut(b, W, u) ==
    u \in ThreadT /\ u.messages = b.messages /\ u.withdrawn = W /\ ~u.pending /\ u.pendingId = None

LEMMA ThreadCut ==
    ASSUME NEW b \in ThreadT, NEW W \in SUBSET Vals, NEW u, CutInto(b, W, u)
    PROVE  IsCut(b, W, u)
  BY DEF ThreadT, CutInto, IsCut

\* The builder b while message id's chunks arrive.
PendInto(b, id, u) == u = [b EXCEPT !.pending = TRUE, !.pendingId = id]
IsPending(b, id, u) ==
    /\ u \in ThreadT /\ u.messages = b.messages /\ u.withdrawn = b.withdrawn
    /\ u.pending /\ u.pendingId = id

LEMMA ThreadPending ==
    ASSUME NEW b \in ThreadT, NEW id \in MessageIds \cup {None}, NEW u, PendInto(b, id, u)
    PROVE  IsPending(b, id, u)
  BY DEF ThreadT, PendInto, IsPending

\* Pushing a well cut message.
LEMMA PushKeeps ==
    ASSUME NEW b \in ThreadT, NEW id \in MessageIds, NEW q \in Seq(PartT), NEW V,
           \A i \in DOMAIN b.messages : WellCut(b.messages[i], V), WellCut([id |-> id, parts |-> q], V)
    PROVE  LET u == Push(b, id, q)
           IN  /\ u \in ThreadT /\ u.withdrawn = b.withdrawn /\ (u.pending <=> b.pending)
               /\ u.pendingId = b.pendingId /\ \A i \in DOMAIN u.messages : WellCut(u.messages[i], V)
  <1>1. CASE \E i \in DOMAIN b.messages : b.messages[i].id = id
    BY <1>1 DEF Push
  <1>2. CASE ~\E i \in DOMAIN b.messages : b.messages[i].id = id
    <2>1. PICK m : m = [id |-> id, parts |-> q]
      OBVIOUS
    <2>2. m \in Messages
      BY <2>1 DEF Messages
    <2>3. b.messages \in Seq(Messages)
      BY ThreadFields
    <2>4. PICK M : M = Append(b.messages, m)
      OBVIOUS
    <2>5. Push(b, id, q) = [b EXCEPT !.messages = M]
      BY <1>2, <2>1, <2>4 DEF Push
    <2>6. M \in Seq(Messages)
      BY <2>2, <2>3, <2>4
    <2>7. \A i \in DOMAIN M : WellCut(M[i], V)
      <3>1. PICK r : r = b.messages
        OBVIOUS
      <3>2. r \in Seq(Messages) /\ M = Append(r, m) /\ \A i \in DOMAIN r : WellCut(r[i], V)
        BY <2>3, <2>4, <3>1
      <3>3. WellCut(m, V)
        BY <2>1
      <3>4. \A i \in DOMAIN M : (i \in DOMAIN r /\ M[i] = r[i]) \/ M[i] = m
        BY ONLY <2>2, <3>2
      <3> QED
        BY ONLY <3>2, <3>3, <3>4
    <2>8. PICK u : u = [b EXCEPT !.messages = M]
      OBVIOUS
    <2>9. /\ u \in ThreadT /\ u.messages = M /\ u.withdrawn = b.withdrawn
          /\ (u.pending <=> b.pending) /\ u.pendingId = b.pendingId
      BY <2>6, <2>8, ThreadMessages
    <2> QED
      BY <2>5, <2>7, <2>8, <2>9
  <1> QED
    BY <1>1, <1>2

\* The pending message, cut.
LEMMA FlushKeeps ==
    ASSUME NEW b \in ThreadT, NEW t \in CliT, CutOK(b), (b.pending <=> b.pendingId # None)
    PROVE  LET u == Flush(b, t)
           IN  u \in ThreadT /\ ~u.pending /\ u.pendingId = None /\ CutOK(u)
  <1>1. CASE ~b.pending
    BY <1>1 DEF Flush
  <1>2. CASE b.pending
    <2>1. PICK q : q = t.parts
      OBVIOUS
    <2>2. q \in Seq(PartT)
      BY <2>1 DEF CliT
    <2>3. /\ Reduced(q) \in Seq(PartT) /\ WithdrawnPrompts(q) \subseteq Vals
          /\ \A j \in DOMAIN Reduced(q) : Reduced(q)[j].k = "turn-withdrawn" =>
               Len(Reduced(q)) = 1 /\ Reduced(q)[j].in \in WithdrawnPrompts(q) \cup {None}
      BY <2>2, ReducedFacts
    <2>4. PICK W : W = b.withdrawn \cup WithdrawnPrompts(q)
      OBVIOUS
    <2>5. PICK id : id = b.pendingId
      OBVIOUS
    <2>6. id \in MessageIds /\ id # None
      BY <1>2, <2>5, ThreadFields
    <2>7. PICK r : r = Reduced(q)
      OBVIOUS
    <2>8. WellCut([id |-> id, parts |-> r], W)
      BY <2>3, <2>4, <2>6, <2>7 DEF WellCut
    <2>9. \A i \in DOMAIN b.messages : WellCut(b.messages[i], W)
      BY <2>4, MoreWithdrawn DEF CutOK
    <2>10. PICK p : p = Push(b, id, r)
      OBVIOUS
    <2>11. r \in Seq(PartT)
      BY <2>3, <2>7
    <2>12. /\ p \in ThreadT /\ p.withdrawn = b.withdrawn
           /\ \A i \in DOMAIN p.messages : WellCut(p.messages[i], W)
      BY <2>6, <2>8, <2>9, <2>10, <2>11, PushKeeps
    <2>13. W \in SUBSET Vals
      BY <2>3, <2>4, ThreadFields
    <2>14. PICK u : u = [p EXCEPT !.withdrawn = W, !.pending = FALSE, !.pendingId = None]
      OBVIOUS
    <2>15. u \in ThreadT /\ u.messages = p.messages /\ u.withdrawn = W /\ ~u.pending /\ u.pendingId = None
      <3>1. p \in ThreadT /\ CutInto(p, W, u)
        BY <2>12, <2>14 DEF CutInto
      <3>2. IsCut(p, W, u)
        BY ONLY <3>1, <2>13, ThreadCut
      <3> QED
        BY <3>2 DEF IsCut
    <2>16. Flush(b, t) = u
      <3>1. Push(b, b.pendingId, Reduced(t.parts)) = p
        BY <2>1, <2>5, <2>7, <2>10
      <3>2. Flush(b, t) = [p EXCEPT !.withdrawn = p.withdrawn \cup WithdrawnPrompts(t.parts),
                                    !.pending = FALSE, !.pendingId = None]
        BY <1>2, <3>1 DEF Flush
      <3>3. p.withdrawn \cup WithdrawnPrompts(t.parts) = W
        BY <2>1, <2>4, <2>12
      <3> QED
        BY <2>14, <3>2, <3>3
    <2> QED
      BY <2>12, <2>15, <2>16 DEF CutOK
  <1> QED
    BY <1>1, <1>2

\* A log between two messages, or within one that is pending.
Ready(log) ==
    /\ log = [srv |-> log.srv, cli |-> log.cli, thread |-> log.thread, open |-> log.open]
    /\ log.thread \in ThreadT /\ log.cli \in CliT /\ CutOK(log.thread)
    /\ log.thread.pending <=> log.thread.pendingId # None
    /\ log.thread.pendingId = None => log.cli = EmptyAccumulator

\* The envelope of a prompt cuts what is pending and stands as a message.
LEMMA LogEnvelope ==
    ASSUME NEW log, Ready(log), NEW id \in MessageIds, id # None, NEW l,
           l = LogEntry(log, Chunk("envelope", "put", id, None))
    PROVE  Ready(l) /\ l.thread.pendingId = None /\ l.open = log.open
  <1>1. PICK f : f = Flush(log.thread, log.cli)
    OBVIOUS
  <1>2. PICK b : b = log.thread
    OBVIOUS
  <1>3. PICK t : t = log.cli
    OBVIOUS
  <1>4. b \in ThreadT /\ t \in CliT /\ CutOK(b) /\ (b.pending <=> b.pendingId # None)
    BY <1>2, <1>3 DEF Ready
  <1>5. f = Flush(b, t)
    BY <1>1, <1>2, <1>3
  <1>6. f \in ThreadT /\ ~f.pending /\ f.pendingId = None /\ CutOK(f)
    BY ONLY <1>4, <1>5, FlushKeeps
  <1>7. PICK u : u = Push(f, id, <<>>)
    OBVIOUS
  <1>8. PICK e : e = EmptyAccumulator
    OBVIOUS
  <1>9. l = [log EXCEPT !.thread = u, !.cli = e]
    BY <1>1, <1>7, <1>8 DEF LogEntry, Chunk
  <1>18. l = [srv |-> log.srv, cli |-> e, thread |-> u, open |-> log.open]
    <2>1. PICK s : s = log.srv
      OBVIOUS
    <2>2. PICK o : o = log.open
      OBVIOUS
    <2>3. log = [srv |-> s, cli |-> t, thread |-> b, open |-> o]
      BY <1>2, <1>3, <2>1, <2>2 DEF Ready
    <2>4. PICK m : m = [log EXCEPT !.thread = u]
      OBVIOUS
    <2>5. m = [srv |-> s, cli |-> t, thread |-> u, open |-> o]
      BY ONLY <2>3, <2>4
    <2>6. l = [m EXCEPT !.cli = e]
      BY <1>9, <2>4
    <2>7. l = [srv |-> s, cli |-> e, thread |-> u, open |-> o]
      BY ONLY <2>5, <2>6
    <2> QED
      BY <2>1, <2>2, <2>7
  <1>10. PICK V : V = f.withdrawn
    OBVIOUS
  <1>11. \A i \in DOMAIN f.messages : WellCut(f.messages[i], V)
    BY <1>6, <1>10 DEF CutOK
  <1>12. WellCut([id |-> id, parts |-> <<>>], V)
    BY DEF WellCut
  <1>13. <<>> \in Seq(PartT)
    OBVIOUS
  <1>14. /\ u \in ThreadT /\ u.withdrawn = f.withdrawn /\ (u.pending <=> f.pending)
         /\ u.pendingId = f.pendingId /\ \A i \in DOMAIN u.messages : WellCut(u.messages[i], V)
    <2>1. PICK q : q = <<>>
      OBVIOUS
    <2>2. q \in Seq(PartT) /\ WellCut([id |-> id, parts |-> q], V) /\ u = Push(f, id, q) /\ f \in ThreadT
      BY <1>6, <1>7, <1>12, <1>13, <2>1
    <2> QED
      BY ONLY <1>11, <2>2, id \in MessageIds, PushKeeps
  <1>15. CutOK(u)
    BY <1>10, <1>14 DEF CutOK
  <1>16. e \in CliT
    BY <1>8, Empty, SimFacts DEF Fresh
  <1>17. l.thread = u /\ l.cli = e /\ l.open = log.open /\ l.srv = log.srv
    BY <1>18
  <1> QED
    BY <1>6, <1>8, <1>14, <1>15, <1>16, <1>17, <1>18 DEF Ready

\* The start of another message cuts what is pending and begins the folds anew.
LEMMA LogOpens ==
    ASSUME NEW log, Ready(log), NEW id \in MessageIds, id # None, log.thread.pendingId # id, NEW l,
           l = LogEntry(log, Chunk("message", "start", id, "new"))
    PROVE  /\ Fresh(l.srv, l.cli) /\ l.open = log.open /\ l.thread \in ThreadT /\ CutOK(l.thread)
           /\ l.thread.pending /\ l.thread.pendingId = id
  <1>1. PICK b : b = log.thread
    OBVIOUS
  <1>2. PICK t : t = log.cli
    OBVIOUS
  <1>3. /\ b \in ThreadT /\ t \in CliT /\ CutOK(b) /\ (b.pending <=> b.pendingId # None) /\ b.pendingId # id
        /\ (b.pendingId = None => t = EmptyAccumulator)
    BY <1>1, <1>2 DEF Ready
  <1>4. PICK f : f = IF b.pendingId # None THEN Flush(b, t) ELSE b
    OBVIOUS
  <1>5. f \in ThreadT /\ CutOK(f)
    BY ONLY <1>3, <1>4, FlushKeeps
  <1>6. PICK ch : ch = Chunk("message", "start", id, "new")
    OBVIOUS
  <1>7. ch.k = "message" /\ ch.op = "start" /\ ch.x = "new" /\ ch.id = id
    BY <1>6 DEF Chunk
  <1>8. PICK s2 : s2 = ApplyChunk(NewState, ch)
    OBVIOUS
  <1>9. PICK t2 : t2 = ReduceTurn(EmptyAccumulator, ch)
    OBVIOUS
  <1>10. PICK u : u = [f EXCEPT !.pending = TRUE, !.pendingId = id]
    OBVIOUS
  <1>11. Observe(log.open, ch) = log.open
    BY <1>7 DEF Observe
  <1>12. b.pendingId \notin {None, id} <=> b.pendingId # None
    BY <1>3
  <1>13. l = [srv |-> s2, cli |-> t2, thread |-> u, open |-> log.open]
    <2>1. l = LogEntry(log, ch)
      BY <1>6
    <2>2. CASE b.pendingId # None
      BY <1>1, <1>2, <1>4, <1>7, <1>8, <1>9, <1>10, <1>11, <1>12, <2>1, <2>2 DEF LogEntry
    <2>3. CASE b.pendingId = None
      BY <1>1, <1>2, <1>3, <1>4, <1>7, <1>8, <1>9, <1>10, <1>11, <1>12, <2>1, <2>3 DEF LogEntry
    <2> QED
      BY <2>2, <2>3
  <1>14. After(NewState, EmptyAccumulator, ch, s2, t2)
    BY <1>8, <1>9 DEF After
  <1>15. Fresh(s2, t2)
    BY <1>6, <1>14, MessageOpens
  <1>16. u \in ThreadT /\ u.messages = f.messages /\ u.withdrawn = f.withdrawn /\ u.pending /\ u.pendingId = id
    <2>1. f \in ThreadT /\ id \in MessageIds \cup {None} /\ PendInto(f, id, u)
      BY <1>5, <1>10 DEF PendInto
    <2>2. IsPending(f, id, u)
      BY ONLY <2>1, ThreadPending
    <2> QED
      BY <2>2 DEF IsPending
  <1>17. CutOK(u)
    BY <1>5, <1>16 DEF CutOK
  <1> QED
    BY <1>13, <1>15, <1>16, <1>17

LEMMA FreshStream ==
    ASSUME NEW z \in StreamT
    PROVE  LET u == NewStream(z.next)
           IN  u \in StreamT /\ u.next = z.next /\ \A i \in Indexes : u.live[i].k \notin TextKinds
  <1>1. Free \in LiveT /\ Free.k \notin TextKinds
    BY DEF Free, LiveT, Ids, TextKinds
  <1>2. PICK f : f = [i \in Indexes |-> Free]
    OBVIOUS
  <1>3. f \in [Indexes -> LiveT] /\ \A i \in Indexes : f[i] = Free
    BY <1>1, <1>2
  <1>4. PICK g : g = [i \in Indexes |-> None]
    OBVIOUS
  <1>5. g \in [Indexes -> Nat \cup {None}]
    BY <1>4
  <1>6. PICK n : n = z.next
    OBVIOUS
  <1>7. n \in 1..(MaxParts + 1) /\ 0 \in Nat /\ None \in Nat \cup {None}
    BY <1>6, StreamFields
  <1>8. NewStream(n) = [steps |-> 0, id |-> None, next |-> n, pinned |-> g, live |-> f]
    BY <1>2, <1>4 DEF NewStream
  <1>9. NewStream(n) \in StreamT
    <2>1. PICK a \in Nat : a = 0
      OBVIOUS
    <2>2. PICK b \in Nat \cup {None} : b = None
      OBVIOUS
    <2>3. [steps |-> a, id |-> b, next |-> n, pinned |-> g, live |-> f] \in StreamT
      BY <1>3, <1>5, <1>7, StreamMade
    <2> QED
      BY <1>8, <2>1, <2>2, <2>3
  <1>10. NewStream(n).next = n /\ NewStream(n).live = f
    BY <1>8
  <1> QED
    BY <1>1, <1>3, <1>6, <1>9, <1>10

\* The turn z followed by one of message g.
OpensInto(z, g, u) == u = [z EXCEPT !.open = TRUE, !.n = z.n + 1, !.msg = g, !.fin = "none"]
IsOpen(z, g, u) ==
    u \in TurnT /\ u.open /\ u.n = z.n + 1 /\ u.msg = g /\ u.fin = "none" /\ u.answer = z.answer

LEMMA TurnOpened ==
    ASSUME NEW z \in TurnT, z.n < MaxTurns, NEW g \in MessageIds, NEW u, OpensInto(z, g, u)
    PROVE  IsOpen(z, g, u)
  <1>1. PICK m : m = z.n + 1
    OBVIOUS
  <1>4. PICK o \in BOOLEAN : o = TRUE
    OBVIOUS
  <1>9. PICK f : f = "none"
    OBVIOUS
  <1>2. u = [z EXCEPT !.open = o, !.n = m, !.msg = g, !.fin = f]
    BY <1>1, <1>4, <1>9 DEF OpensInto
  <1>11. TurnIs(z, z.open, z.n, z.msg, z.fin, z.data, z.answer)
    BY TurnItself
  <1>12. TurnOpens(z, o, m, g, f, u)
    BY <1>2 DEF TurnOpens
  <1>13. TurnIs(u, o, m, g, f, z.data, z.answer)
    BY ONLY <1>11, <1>12, TurnOpensRec
  <1>3. u = [open |-> o, n |-> m, msg |-> g, fin |-> f, data |-> z.data, answer |-> z.answer]
    BY <1>13 DEF TurnIs
  <1>5. z.n \in 0..MaxTurns /\ z.data \in Nat /\ z.answer \in [Calls -> {"none", "yes", "no"}]
    BY TurnFields
  <1>6. m \in 0..MaxTurns
    BY <1>1, <1>5, FoldBounds
  <1>7. g \in MessageIds \cup {None} /\ f \in {"none", "stop", "other", "error"}
    BY <1>9
  <1>8. [open |-> o, n |-> m, msg |-> g, fin |-> f, data |-> z.data, answer |-> z.answer] \in TurnT
    BY <1>5, <1>6, <1>7, TurnMade
  <1> QED
    BY <1>1, <1>3, <1>4, <1>8, <1>9 DEF IsOpen

\* What is known between two turns.
LEMMA IdleFacts ==
    ASSUME FoldInv, ~turn.open, turn.n < MaxTurns
    PROVE  /\ turn.n \in Nat /\ turn.n + 1 \in 1..MaxTurns /\ Assistant(turn.n + 1) \in MessageIds
           /\ User(turn.n + 1) \in MessageIds /\ None \notin {User(turn.n + 1), Assistant(turn.n + 1)}
           /\ Ready(Log({})) /\ thread.pendingId # Assistant(turn.n + 1)
           /\ thread.pendingId = None <=> turn.n = 0
  <1>1. turn \in TurnT /\ thread \in ThreadT /\ cli \in CliT
    BY SimFacts DEF FoldInv, Types
  <1>2. turn.n \in 0..MaxTurns
    BY <1>1, TurnFields
  <1>3. turn.n \in Nat /\ turn.n + 1 \in 1..MaxTurns /\ turn.n + 1 \in Nat
    BY <1>2, FoldBounds
  <1>4. None \notin {User(turn.n + 1), Assistant(turn.n + 1)}
    BY <1>3, FoldIds
  <1>5. Assistant(turn.n + 1) \in MessageIds /\ User(turn.n + 1) \in MessageIds
    BY <1>3 DEF MessageIds
  <1>6. turn.n > 0 => /\ thread.pending /\ thread.pendingId = turn.msg
                      /\ \E m \in 1..turn.n : turn.msg = Assistant(m)
    BY DEF FoldInv, Pending
  <1>7. turn.n = 0 => ~thread.pending /\ thread.pendingId = None /\ cli = EmptyAccumulator
    BY DEF FoldInv, Pending
  <1>8. ASSUME turn.n > 0 PROVE thread.pendingId # None /\ thread.pendingId # Assistant(turn.n + 1)
    <2>1. PICK m \in 1..turn.n : thread.pendingId = Assistant(m)
      BY <1>6, <1>8
    <2>2. m \in 1..MaxTurns /\ m # turn.n + 1
      <3>1. PICK k : k = turn.n
        OBVIOUS
      <3>2. k \in 0..MaxTurns /\ m \in 1..k /\ MaxTurns \in Nat
        BY <1>2, <3>1, FoldBounds
      <3>3. m \in 1..MaxTurns /\ m # k + 1
        BY ONLY <3>2
      <3> QED
        BY <3>1, <3>3
    <2>3. None # Assistant(m)
      BY <2>2, FoldIds
    <2>4. Assistant(m) # Assistant(turn.n + 1)
      BY <2>2 DEF Assistant
    <2> QED
      BY <2>1, <2>3, <2>4
  <1>9. CutOK(thread)
    BY DEF FoldInv, Cuts, CutOK
  <1>10. turn.n = 0 \/ turn.n > 0
    BY <1>3
  <1>11. thread.pending <=> thread.pendingId # None
    BY <1>6, <1>7, <1>8, <1>10
  <1>12. thread.pendingId = None <=> turn.n = 0
    BY <1>3, <1>7, <1>8, <1>10
  <1>13. thread.pendingId # Assistant(turn.n + 1)
    BY <1>4, <1>7, <1>8, <1>10
  <1>14. PICK log : log = Log({})
    OBVIOUS
  <1>15. log = [srv |-> srv, cli |-> cli, thread |-> thread, open |-> {}]
    BY <1>14 DEF Log
  <1>16. log.srv = srv /\ log.cli = cli /\ log.thread = thread /\ log.open = {}
    BY ONLY <1>15
  <1>17. Ready(log)
    BY <1>1, <1>7, <1>9, <1>11, <1>12, <1>15, <1>16 DEF Ready
  <1> QED
    BY <1>3, <1>4, <1>5, <1>12, <1>13, <1>14, <1>17

\* A turn that opens a message of its own.
Opening(g) ==
    /\ Fresh(srv', cli') /\ open' = {} /\ thread' \in ThreadT /\ CutOK(thread')
    /\ thread'.pending /\ thread'.pendingId = g

LEMMA BeginKeeps ==
    ASSUME FoldInv, ~turn.open, turn.n < MaxTurns, Opening(Assistant(turn.n + 1)),
           turn' = [turn EXCEPT !.open = TRUE, !.n = turn.n + 1, !.msg = Assistant(turn.n + 1), !.fin = "none"],
           stream' = NewStream(stream.next), started' = {}, hints' \subseteq Calls, sent' = sent,
           call' \in [Calls -> Kinds],
           \A c \in Calls : \/ call'[c] = call[c] \/ call'[c] = "dropped"
                            \/ call[c] = "parked" /\ call'[c] = "answered" /\ c \in hints'
    PROVE  FoldInv'
  <1>1. /\ turn.n \in Nat /\ turn.n + 1 \in 1..MaxTurns /\ Assistant(turn.n + 1) \in MessageIds
        /\ Assistant(turn.n + 1) # None
    BY IdleFacts
  <1>2. turn \in TurnT /\ stream \in StreamT /\ sent \in [1..MaxParts -> Nat] /\ call \in [Calls -> Kinds]
    BY DEF FoldInv, Types
  <1>3. PICK g \in MessageIds : g = Assistant(turn.n + 1)
    BY <1>1
  <1>4. /\ turn' \in TurnT /\ turn'.open /\ turn'.n = turn.n + 1 /\ turn'.msg = g
        /\ turn'.fin = "none" /\ turn'.answer = turn.answer
    <2>1. OpensInto(turn, g, turn')
      BY <1>3 DEF OpensInto
    <2>2. IsOpen(turn, g, turn')
      BY ONLY <1>2, <2>1, turn.n < MaxTurns, g \in MessageIds, TurnOpened
    <2> QED
      BY <2>2 DEF IsOpen
  <1>5. stream' \in StreamT /\ stream'.next = stream.next /\ \A i \in Indexes : ~Live(i)'
    BY <1>2, FreshStream DEF Live
  <1>6. Types'
    BY <1>2, <1>4, <1>5 DEF Types, Opening
  <1>7. Sim(srv, cli)' /\ Cuts'
    BY DEF Opening, Fresh, CutOK, Cuts
  <1>8. Pending'
    <2>1. turn.n + 1 \in 1..(turn.n + 1) /\ turn.n + 1 > 0 /\ turn.n + 1 # 0
      BY <1>1
    <2>2. thread'.pending /\ thread'.pendingId = turn'.msg
      BY <1>3, <1>4 DEF Opening
    <2>3. \E m \in 1..turn'.n : turn'.msg = Assistant(m)
      BY <1>3, <1>4, <2>1
    <2> QED
      BY <1>4, <2>1, <2>2, <2>3 DEF Pending
  <1>9. Texts(srv.parts, sent, stream.next)'
    BY DEF Texts, Opening, Fresh
  <1>10. Streams'
    BY <1>5 DEF Streams, FoldInv
  <1>11. ASSUME NEW c \in Calls PROVE CallOK(c)'
    <2>1. View(srv', cli', c) = Gone
      BY DEF Opening, Fresh
    <2>2. CallOK(c) /\ call[c] \in Kinds
      BY <1>2 DEF FoldInv
    <2>3. call[c] \notin Due
      BY <2>2 DEF CallOK
    <2>4. call[c] \in {"new", "parked"} => turn.answer[c] = "none"
      BY <2>2 DEF CallOK
    <2>5. call'[c] \in {"answered"} \cup (Kinds \ Due) /\ (call'[c] = "answered" => call[c] = "parked" /\ c \in hints')
      BY <2>2, <2>3 DEF Due, Kinds
    <2>6. call'[c] \in {"new", "parked"} => call'[c] = call[c]
      OBVIOUS
    <2>7. ~Gone.here /\ Gone.srv = "none" /\ Gone.cli = "none" /\ ~Gone.asked /\ ~Gone.partial
      BY DEF Gone
    <2>8. call'[c] \notin Arriving /\ call'[c] # "args"
      BY <2>5 DEF Due, Arriving
    <2>9. call'[c] = "answered" => turn'.answer[c] = "none" /\ c \in hints' /\ c \notin started'
      BY <1>4, <2>4, <2>5
    <2>10. call'[c] \in {"new", "parked"} => turn'.answer[c] = "none"
      BY <1>4, <2>4, <2>6
    <2> QED
      BY <1>4, <2>1, <2>7, <2>8, <2>9, <2>10 DEF CallOK, Busy
  <1> QED
    BY <1>4, <1>6, <1>7, <1>8, <1>9, <1>10, <1>11 DEF FoldInv

\* What BeginTurn does to everything but the calls.
LEMMA BeginFacts ==
    ASSUME FoldInv, NEW g, NEW q, NEW h, BeginTurn(g, q, h)
    PROVE  /\ ~turn.open /\ turn.n < MaxTurns /\ WriteThrough(<< >>, {}, q)
           /\ turn' = [turn EXCEPT !.open = TRUE, !.n = turn.n + 1, !.msg = g, !.fin = "none"]
           /\ stream' = NewStream(stream.next) /\ started' = {} /\ hints' = h /\ sent' = sent
  BY DEF BeginTurn

LEMMA PromptKeeps ==
    ASSUME FoldInv, Prompt
    PROVE  FoldInv'
  <1>1. PICK g : g = Assistant(turn.n + 1)
    OBVIOUS
  <1>2. PICK m : m = User(turn.n + 1)
    OBVIOUS
  <1>3. PICK a : a = Chunk("envelope", "put", m, None)
    OBVIOUS
  <1>4. PICK b : b = Chunk("message", "start", g, "new")
    OBVIOUS
  <1>5. PICK q : q = <<a, b>>
    OBVIOUS
  <1>6. BeginTurn(g, q, {})
    BY <1>1, <1>2, <1>3, <1>4, <1>5 DEF Prompt
  <1>7. /\ ~turn.open /\ turn.n < MaxTurns /\ WriteThrough(<< >>, {}, q)
        /\ turn' = [turn EXCEPT !.open = TRUE, !.n = turn.n + 1, !.msg = g, !.fin = "none"]
        /\ stream' = NewStream(stream.next) /\ started' = {} /\ hints' = {} /\ sent' = sent
    BY <1>6, BeginFacts
  <1>8. /\ g \in MessageIds /\ m \in MessageIds /\ g # None /\ m # None /\ Ready(Log({}))
    BY <1>1, <1>2, <1>7, IdleFacts
  <1>9. a.k = "envelope" /\ b.k = "message"
    BY <1>3, <1>4 DEF Chunk
  <1>10. q \in Seq({a, b}) /\ \A i \in 1..Len(q) : q[i].k \notin TextKinds
    BY <1>5, <1>9 DEF TextKinds
  <1>11. PICK log : log = Log({})
    OBVIOUS
  <1>12. log.open = {} /\ Ready(log)
    BY <1>8, <1>11 DEF Log
  <1>13. PICK k : k = LogEntry(log, a)
    OBVIOUS
  <1>14. Ready(k) /\ k.thread.pendingId = None /\ k.open = log.open
    BY <1>3, <1>8, <1>12, <1>13, LogEnvelope
  <1>15. PICK l : l = LogEntry(k, b)
    OBVIOUS
  <1>16. /\ Fresh(l.srv, l.cli) /\ l.open = k.open /\ l.thread \in ThreadT /\ CutOK(l.thread)
         /\ l.thread.pending /\ l.thread.pendingId = g
    <2>1. Ready(k) /\ k.thread.pendingId # g /\ g \in MessageIds /\ g # None
          /\ l = LogEntry(k, Chunk("message", "start", g, "new"))
      BY <1>4, <1>8, <1>14, <1>15
    <2> QED
      BY ONLY <2>1, LogOpens
  <1>17. l = LogAll(Log({}), q)
    BY <1>5, <1>11, <1>13, <1>15, LogTwo
  <1>18. srv' = l.srv /\ cli' = l.cli /\ thread' = l.thread /\ open' = l.open
    BY <1>7, <1>10, <1>17, WritePlain
  <1>19. Opening(g)
    BY <1>12, <1>14, <1>16, <1>18 DEF Opening
  <1>20. call \in [Calls -> Kinds]
    BY DEF FoldInv, Types
  <1>21. call' = [c \in Calls |-> IF call[c] = "asked" THEN "dropped" ELSE call[c]]
    BY DEF Prompt
  <1>22. call' \in [Calls -> Kinds] /\ \A c \in Calls : call'[c] = call[c] \/ call'[c] = "dropped"
    BY <1>20, <1>21 DEF Kinds
  <1>23. hints' \subseteq Calls
    BY <1>7
  <1> QED
    BY <1>1, <1>7, <1>19, <1>22, <1>23, BeginKeeps

LEMMA ResumeKeeps ==
    ASSUME FoldInv, Resume
    PROVE  FoldInv'
  <1> DEFINE parked == {c \in Calls : call[c] = "parked"}
  <1>1. PICK g : g = Assistant(turn.n + 1)
    OBVIOUS
  <1>4. PICK b : b = Chunk("message", "start", g, "new")
    OBVIOUS
  <1>5. PICK q : q = <<b>>
    OBVIOUS
  <1>6. BeginTurn(g, q, parked)
    BY <1>1, <1>4, <1>5 DEF Resume
  <1>7. /\ ~turn.open /\ turn.n < MaxTurns /\ WriteThrough(<< >>, {}, q)
        /\ turn' = [turn EXCEPT !.open = TRUE, !.n = turn.n + 1, !.msg = g, !.fin = "none"]
        /\ stream' = NewStream(stream.next) /\ started' = {} /\ hints' = parked /\ sent' = sent
    BY <1>6, BeginFacts
  <1>8. /\ g \in MessageIds /\ g # None /\ Ready(Log({})) /\ thread.pendingId # g
    BY <1>1, <1>7, IdleFacts
  <1>9. b.k = "message"
    BY <1>4 DEF Chunk
  <1>10. q \in Seq({b}) /\ \A i \in 1..Len(q) : q[i].k \notin TextKinds
    BY <1>5, <1>9 DEF TextKinds
  <1>11. PICK log : log = Log({})
    OBVIOUS
  <1>12. log.open = {} /\ Ready(log) /\ log.thread = thread
    BY <1>8, <1>11 DEF Log
  <1>15. PICK l : l = LogEntry(log, b)
    OBVIOUS
  <1>16. /\ Fresh(l.srv, l.cli) /\ l.open = log.open /\ l.thread \in ThreadT /\ CutOK(l.thread)
         /\ l.thread.pending /\ l.thread.pendingId = g
    <2>1. Ready(log) /\ log.thread.pendingId # g /\ g \in MessageIds /\ g # None
          /\ l = LogEntry(log, Chunk("message", "start", g, "new"))
      BY <1>4, <1>8, <1>12, <1>15
    <2> QED
      BY ONLY <2>1, LogOpens
  <1>17. l = LogAll(Log({}), q)
    BY <1>5, <1>11, <1>15, LogOne
  <1>18. srv' = l.srv /\ cli' = l.cli /\ thread' = l.thread /\ open' = l.open
    BY <1>7, <1>10, <1>17, WritePlain
  <1>19. Opening(g)
    BY <1>12, <1>16, <1>18 DEF Opening
  <1>20. call \in [Calls -> Kinds]
    BY DEF FoldInv, Types
  <1>21. call' = [c \in Calls |-> IF c \in parked THEN "answered" ELSE call[c]]
    BY DEF Resume
  <1>22. call' \in [Calls -> Kinds]
    BY <1>20, <1>21 DEF Kinds
  <1>23. \A c \in Calls : call'[c] = call[c] \/ (call[c] = "parked" /\ call'[c] = "answered" /\ c \in hints')
    BY <1>7, <1>21
  <1>24. hints' \subseteq Calls
    BY <1>7
  <1> HIDE DEF parked
  <1> QED
    BY <1>1, <1>7, <1>19, <1>22, <1>23, <1>24, BeginKeeps

\* The turn z taken up again with an answer to c.
AnswersInto(z, c, x, u) ==
    u = [z EXCEPT !.open = TRUE, !.n = z.n + 1, !.fin = "none", !.answer[c] = x]
IsAnswered(z, c, x, u) ==
    /\ u \in TurnT /\ u.open /\ u.n = z.n + 1 /\ u.msg = z.msg /\ u.fin = "none"
    /\ u.answer[c] = x /\ \A d \in Calls : d # c => u.answer[d] = z.answer[d]

LEMMA TurnAnswered ==
    ASSUME NEW z \in TurnT, z.n < MaxTurns, NEW c \in Calls, NEW x \in {"yes", "no"}, NEW u,
           AnswersInto(z, c, x, u)
    PROVE  IsAnswered(z, c, x, u)
  <1>1. PICK m : m = z.n + 1
    OBVIOUS
  <1>2. PICK o \in BOOLEAN : o = TRUE
    OBVIOUS
  <1>3. PICK f \in {"none", "stop", "other", "error"} : f = "none"
    OBVIOUS
  <1>4. PICK a : a = [z.answer EXCEPT ![c] = x]
    OBVIOUS
  <1>5. TurnIs(z, z.open, z.n, z.msg, z.fin, z.data, z.answer)
    BY TurnItself
  <1>6. TurnAnswers(z, o, m, f, a, u)
    <2>1. PICK y : y = [z EXCEPT !.open = o, !.n = m, !.fin = f]
      OBVIOUS
    <2>2. u = [y EXCEPT !.answer[c] = x]
      BY <1>1, <1>2, <1>3, <2>1 DEF AnswersInto
    <2>3. y.answer = z.answer
      BY <2>1, TurnFields
    <2>4. u = [y EXCEPT !.answer = a]
      BY <1>4, <2>2, <2>3
    <2> QED
      BY <2>1, <2>4 DEF TurnAnswers
  <1>7. TurnIs(u, o, m, z.msg, f, z.data, a)
    BY ONLY <1>5, <1>6, TurnAnswersRec
  <1>8. /\ z.n \in 0..MaxTurns /\ z.msg \in MessageIds \cup {None} /\ z.data \in Nat
        /\ z.answer \in [Calls -> {"none", "yes", "no"}]
    BY TurnFields
  <1>9. a \in [Calls -> {"none", "yes", "no"}] /\ a[c] = x /\ \A d \in Calls : d # c => a[d] = z.answer[d]
    BY <1>4, <1>8
  <1>10. m \in 0..MaxTurns
    BY <1>1, <1>8, FoldBounds
  <1>11. [open |-> o, n |-> m, msg |-> z.msg, fin |-> f, data |-> z.data, answer |-> a] \in TurnT
    BY <1>8, <1>9, <1>10, TurnMade
  <1>12. u = [open |-> o, n |-> m, msg |-> z.msg, fin |-> f, data |-> z.data, answer |-> a]
    BY <1>7 DEF TurnIs
  <1>13. u \in TurnT
    BY ONLY <1>11, <1>12
  <1>14. u.n = m /\ u.msg = z.msg /\ u.fin = f /\ u.answer = a
    BY ONLY <1>12
  <1>15. u.open
    BY ONLY <1>2, <1>12
  <1> QED
    BY ONLY <1>1, <1>3, <1>9, <1>13, <1>14, <1>15 DEF IsAnswered

\* The pending message is taken up again.
LEMMA LogContinues ==
    ASSUME NEW log, Sim(log.srv, log.cli), log.thread \in ThreadT, NEW id, log.thread.pendingId = id, NEW l,
           l = LogEntry(log, Chunk("message", "start", id, "same"))
    PROVE  QuietLog(log, l)
  <1>1. PICK ch : ch = Chunk("message", "start", id, "same")
    OBVIOUS
  <1>2. ch.k = "message" /\ ch.op = "start" /\ ch.x = "same" /\ ch.id = id
    BY <1>1 DEF Chunk
  <1>3. PICK b : b = log.thread
    OBVIOUS
  <1>4. PICK u : u = [b EXCEPT !.pending = TRUE, !.pendingId = id]
    OBVIOUS
  <1>5. Observe(log.open, ch) = log.open
    BY <1>2 DEF Observe
  <1>6. PICK s2 : s2 = ApplyChunk(log.srv, ch)
    OBVIOUS
  <1>7. PICK t2 : t2 = ReduceTurn(log.cli, ch)
    OBVIOUS
  <1>8. l = [srv |-> s2, cli |-> t2, thread |-> u, open |-> log.open]
    BY <1>1, <1>2, <1>3, <1>4, <1>5, <1>6, <1>7 DEF LogEntry
  <1>9. b \in ThreadT /\ id \in MessageIds \cup {None} /\ b.pendingId = id /\ PendInto(b, id, u)
    BY <1>3, <1>4, ThreadFields DEF PendInto
  <1>10. IsPending(b, id, u)
    BY ONLY <1>9, ThreadPending
  <1>11. ThreadKept(b, u)
    BY <1>9, <1>10 DEF IsPending, ThreadKept
  <1>12. After(log.srv, log.cli, ch, s2, t2)
    BY <1>6, <1>7 DEF After
  <1>13. ch.k = "message" /\ ch.op \in {"start", "finish"} /\ ch.x = "same" /\ "same" \in Words
    BY <1>2 DEF Words
  <1>14. Quiet(log.srv, log.cli, s2, t2)
    <2>1. PICK s : s = log.srv
      OBVIOUS
    <2>2. PICK t : t = log.cli
      OBVIOUS
    <2>3. Sim(s, t) /\ After(s, t, ch, s2, t2)
      BY <1>12, <2>1, <2>2
    <2>4. Quiet(s, t, s2, t2)
      BY ONLY <1>13, <2>3, MarkChunk
    <2> QED
      BY <2>1, <2>2, <2>4
  <1>15. l.srv = s2 /\ l.cli = t2 /\ l.thread = u /\ l.open = log.open
    BY ONLY <1>8
  <1> QED
    BY <1>3, <1>11, <1>14, <1>15 DEF QuietLog

LEMMA AnswerKeeps ==
    ASSUME FoldInv, NEW c \in Calls, NEW yes, Answer(c, yes)
    PROVE  FoldInv'
  <1>1. PICK x \in {"yes", "no"} : x = IF yes THEN "yes" ELSE "no"
    OBVIOUS
  <1>2. PICK a : a = Chunk("message", "start", turn.msg, "same")
    OBVIOUS
  <1>3. PICK b : b = Chunk("tool-approval", "put", c, x)
    OBVIOUS
  <1>4. PICK q : q = <<a, b>>
    OBVIOUS
  <1>5. /\ call[c] = "asked" /\ \A d \in Calls : call[d] # "parked"
        /\ turn.fin = "other" /\ ~turn.open /\ turn.n < MaxTurns
        /\ stream' = NewStream(stream.next) /\ started' = {} /\ hints' = {c}
        /\ WriteThrough(<< >>, {}, q) /\ call' = [call EXCEPT ![c] = "answered"] /\ sent' = sent
    BY <1>1, <1>2, <1>3, <1>4 DEF Answer
  <1>6. turn' = [turn EXCEPT !.open = TRUE, !.n = turn.n + 1, !.fin = "none", !.answer[c] = x]
    BY <1>1 DEF Answer
  <1>7. turn \in TurnT /\ stream \in StreamT /\ sent \in [1..MaxParts -> Nat] /\ call \in [Calls -> Kinds]
        /\ thread \in ThreadT
    BY DEF FoldInv, Types
  <1>8. /\ turn' \in TurnT /\ turn'.open /\ turn'.n = turn.n + 1 /\ turn'.msg = turn.msg /\ turn'.fin = "none"
        /\ turn'.answer[c] = x /\ \A d \in Calls : d # c => turn'.answer[d] = turn.answer[d]
    <2>1. AnswersInto(turn, c, x, turn')
      BY <1>6 DEF AnswersInto
    <2>2. IsAnswered(turn, c, x, turn')
      BY ONLY <1>5, <1>7, <2>1, c \in Calls, x \in {"yes", "no"}, TurnAnswered
    <2> QED
      BY <2>2 DEF IsAnswered
  <1>9. stream' \in StreamT /\ stream'.next = stream.next /\ \A i \in Indexes : ~Live(i)'
    BY <1>5, <1>7, FreshStream DEF Live
  <1>10. turn.n > 0
    <2>1. turn.n # 0
      BY <1>5 DEF FoldInv, Pending
    <2> QED
      BY <1>7, <2>1, TurnFields
  <1>11. thread.pendingId = turn.msg /\ turn.n \in Nat
    BY <1>7, <1>10, TurnFields DEF FoldInv, Pending
  <1>12. a.k = "message" /\ b.k = "tool-approval"
    BY <1>2, <1>3 DEF Chunk
  <1>13. q \in Seq({a, b}) /\ \A i \in 1..Len(q) : q[i].k \notin TextKinds
    BY <1>4, <1>12 DEF TextKinds
  <1>14. PICK log : log = Log({})
    OBVIOUS
  <1>15. log.srv = srv /\ log.cli = cli /\ log.thread = thread /\ log.open = {}
    BY <1>14 DEF Log
  <1>16. PICK k : k = LogEntry(log, a)
    OBVIOUS
  <1>17. Sim(log.srv, log.cli) /\ log.thread \in ThreadT
    BY <1>7, <1>15 DEF FoldInv
  <1>18. PICK id : id = turn.msg
    OBVIOUS
  <1>19. log.thread.pendingId = id /\ k = LogEntry(log, Chunk("message", "start", id, "same"))
    BY <1>2, <1>11, <1>15, <1>16, <1>18
  <1>20. QuietLog(log, k)
    BY ONLY <1>17, <1>19, LogContinues
  <1>21. b \in QuietChunks
    BY <1>3 DEF QuietChunks, DataKinds, Ids, Vals
  <1>22. Sim(k.srv, k.cli) /\ k.thread \in ThreadT
    BY <1>20 DEF QuietLog, Quiet, ThreadKept
  <1>23. PICK l : l = LogEntry(k, b)
    OBVIOUS
  <1>24. QuietLog(k, l)
    BY <1>21, <1>22, <1>23, QuietOnce
  <1>25. QuietLog(log, l)
    BY <1>20, <1>24, QuietTrans
  <1>26. l = LogAll(Log({}), q)
    BY <1>4, <1>14, <1>16, <1>23, LogTwo
  <1>27. srv' = l.srv /\ cli' = l.cli /\ thread' = l.thread /\ open' = l.open
    BY <1>5, <1>13, <1>26, WritePlain
  <1>28. Quiet(srv, cli, srv', cli') /\ open' = {} /\ ThreadKept(thread, thread')
    BY <1>15, <1>25, <1>27 DEF QuietLog
  <1>29. /\ Sim(srv, cli)' /\ Pending' /\ Cuts' /\ Texts(srv.parts, sent, stream.next)'
         /\ thread' \in ThreadT /\ \A n \in stream'.next..MaxParts : sent'[n] = 0
    <2>1. TextSame(srv.parts, srv'.parts) /\ Sim(srv', cli')
      BY <1>28 DEF Quiet
    <2>2. turn'.n \in {turn.n, turn.n + 1} /\ turn'.msg = turn.msg /\ stream'.next = stream.next /\ sent' = sent
      BY <1>5, <1>8, <1>9
    <2> QED
      BY ONLY FoldInv, <1>10, <1>28, <2>1, <2>2, Kept
  <1>30. call' \in [Calls -> Kinds]
    BY <1>5, <1>7 DEF Kinds
  <1>31. Types'
    BY <1>5, <1>7, <1>8, <1>9, <1>28, <1>29, <1>30 DEF Types
  <1>32. Streams'
    BY <1>9, <1>29 DEF Streams
  <1>33. ASSUME NEW d \in Calls PROVE CallOK(d)'
    <2>1. PICK v : v = View(srv, cli, d)
      OBVIOUS
    <2>2. View(srv', cli', d) = v
      BY <1>28, <2>1 DEF Quiet, ViewsSame
    <2>3. CallOK(d) /\ call[d] \in Kinds
      BY <1>7 DEF FoldInv
    <2>4. call[d] \notin Due /\ call[d] # "parked" /\ v.cli \notin Busy
      BY <1>5, <2>1, <2>3 DEF CallOK
    <2>5. call[d] = "new" => ~v.asked /\ turn.answer[d] = "none"
      BY <2>1, <2>3 DEF CallOK
    <2>6. CASE d = c
      <3>1. v.asked
        BY <1>5, <2>1, <2>3, <2>6 DEF CallOK
      <3>2. call'[d] = "answered"
        BY <1>5, <1>7, <2>6
      <3> QED
        BY <1>5, <1>8, <2>2, <2>4, <2>6, <3>1, <3>2 DEF CallOK, Arriving, Due
    <2>7. CASE d # c
      <3>1. call'[d] = call[d]
        BY <1>5, <1>7, <2>7
      <3>2. turn'.answer[d] = turn.answer[d]
        BY <1>8, <2>7
      <3>3. call'[d] \notin {"started", "half", "typed", "args", "refused", "answered", "parked"}
        BY <2>4, <3>1 DEF Due
      <3>4. call'[d] = "new" => ~v.asked /\ turn'.answer[d] = "none"
        BY <2>5, <3>1, <3>2
      <3> QED
        BY <1>8, <2>2, <2>4, <3>3, <3>4 DEF CallOK, Arriving, Due
    <2> QED
      BY <2>6, <2>7
  <1> QED
    BY <1>8, <1>29, <1>31, <1>32, <1>33 DEF FoldInv

-----------------------------------------------------------------------------
(* What the model writes: a part held by the gate until its first delta. *)

\* One chunk, written.
LEMMA WriteOne ==
    ASSUME NEW held, NEW opened, NEW ch, NEW acc, WriteThrough(held, opened, <<ch>>),
           acc = Admit([held |-> held, out |-> <<>>], ch)
    PROVE  LET l == LogAll(Log(opened), acc.out)
           IN  gate' = acc.held /\ srv' = l.srv /\ cli' = l.cli /\ thread' = l.thread /\ open' = l.open
  <1>1. AdmitAll(held, <<ch>>) = acc
    BY AdmitOne
  <1> QED
    BY <1>1 DEF WriteThrough, Log

\* The messages cut so far are left alone.
LEMMA KeptCuts ==
    ASSUME FoldInv, ThreadKept(thread, thread'), turn.n > 0, turn' = turn
    PROVE  Pending' /\ Cuts' /\ thread' \in ThreadT
  <1>1. thread.pending /\ thread.pendingId = turn.msg /\ \E m \in 1..turn.n : turn.msg = Assistant(m)
    BY DEF FoldInv, Pending
  <1>2. thread'.pending /\ thread'.pendingId = turn'.msg
    BY <1>1 DEF ThreadKept
  <1>3. turn.n # 0
    BY TurnFields DEF FoldInv, Types
  <1> QED
    BY <1>1, <1>2, <1>3 DEF Pending, FoldInv, Cuts, ThreadKept

\* A part the model writes goes out under its own id.
LEMMA OwnId ==
    ASSUME FoldInv, turn.open, NEW i \in Indexes, Live(i)
    PROVE  LET p == stream.live[i]
           IN  /\ WireId(i) = p.id /\ p.id \in 1..(stream.next - 1) /\ p.id \in 1..MaxParts /\ p.k \in TextKinds
               /\ \A j \in Indexes : Live(j) /\ stream.live[j].id = p.id => j = i
               /\ \/ p.id \in DOMAIN gate /\ gate[p.id] = Chunk(p.k, "start", p.id, None) /\ sent[p.id] = 0
                  \/ p.id \notin DOMAIN gate /\ <<p.k, p.id>> \in DOMAIN srv.active
  <1>1. PICK p : p = stream.live[i]
    OBVIOUS
  <1>2. /\ p.id \in 1..(stream.next - 1) /\ stream.pinned[i] = p.id
        /\ \A j \in Indexes : Live(j) /\ stream.live[j].id = p.id => j = i
        /\ \/ p.id \in DOMAIN gate /\ gate[p.id] = Chunk(p.k, "start", p.id, None) /\ sent[p.id] = 0
           \/ p.id \notin DOMAIN gate /\ <<p.k, p.id>> \in DOMAIN srv.active
    BY <1>1 DEF FoldInv, Streams
  <1>3. stream \in StreamT
    BY DEF FoldInv, Types
  <1>4. stream.next \in 1..(MaxParts + 1)
    BY <1>3, StreamFields
  <1>5. p.id \in 1..MaxParts
    <2>1. PICK n : n = stream.next
      OBVIOUS
    <2>2. PICK m : m = p.id
      OBVIOUS
    <2>3. n \in 1..(MaxParts + 1) /\ m \in 1..(n - 1) /\ MaxParts \in Nat
      BY <1>2, <1>4, <2>1, <2>2, FoldBounds
    <2>4. m \in 1..MaxParts
      BY ONLY <2>3
    <2> QED
      BY <2>2, <2>4
  <1>6. p.id # None
    BY <1>5, FoldIds
  <1>7. WireId(i) = p.id
    BY <1>2, <1>6 DEF WireId
  <1>8. p.k \in TextKinds
    BY <1>1 DEF Live
  <1> QED
    BY <1>1, <1>2, <1>5, <1>7, <1>8

\* A text part joins the folds with its first delta.
LEMMA TextsAdd ==
    ASSUME NEW q \in Seq(PartT), NEW r \in Seq(PartT), NEW counts \in [1..MaxParts -> Nat], NEW next \in 1..(MaxParts + 1),
           NEW n \in 1..MaxParts, n \in 1..(next - 1), Texts(q, counts, next), counts[n] = 0,
           NEW more, more = [counts EXCEPT ![n] = 1],
           Len(r) = Len(q) + 1, \A i \in 1..Len(q) : r[i] = q[i],
           r[Len(q) + 1].id = n, r[Len(q) + 1].txt = <<n>>
    PROVE  Texts(r, more, next)
  <1>1. Len(q) \in Nat /\ DOMAIN q = 1..Len(q) /\ DOMAIN r = 1..(Len(q) + 1)
    BY SeqFacts
  <1>2. \A i \in DOMAIN q : q[i].k \in TextKinds =>
          /\ q[i].id \in 1..(next - 1) /\ q[i].txt # <<>>
          /\ \A j \in DOMAIN q[i].txt : q[i].txt[j] = q[i].id
          /\ Len(q[i].txt) = counts[q[i].id]
    BY DEF Texts
  <1>3. \A i \in DOMAIN q : q[i].txt \in Seq(Nat)
    BY SeqFacts DEF PartT
  <1>4. \A i \in DOMAIN q : q[i].k \in TextKinds => q[i].id # n
    <2>1. TAKE i \in DOMAIN q
    <2>2. HAVE q[i].k \in TextKinds
    <2>3. SUFFICES ASSUME q[i].id = n PROVE FALSE
      OBVIOUS
    <2>4. Len(q[i].txt) = 0 /\ q[i].txt # <<>>
      BY <1>2, <2>2, <2>3
    <2> QED
      BY <1>3, <2>4
  <1>5. ASSUME NEW i \in DOMAIN r, r[i].k \in TextKinds
        PROVE  /\ r[i].id \in 1..(next - 1) /\ r[i].txt # <<>>
               /\ \A j \in DOMAIN r[i].txt : r[i].txt[j] = r[i].id
               /\ Len(r[i].txt) = more[r[i].id]
    <2>1. CASE i = Len(q) + 1
      <3>1. r[i].id = n /\ r[i].txt = <<n>>
        BY <2>1
      <3>2. more[n] = 1
        OBVIOUS
      <3> QED
        BY <3>1, <3>2
    <2>2. CASE i # Len(q) + 1
      <3>1. i \in DOMAIN q /\ r[i] = q[i]
        BY <1>1, <2>2
      <3>2. q[i].id # n
        BY <1>4, <1>5, <3>1
      <3>4. q[i].id \in 1..MaxParts
        <4>1. q[i].id \in 1..(next - 1) /\ MaxParts \in Nat
          BY <1>2, <1>5, <3>1, FoldBounds
        <4> QED
          BY <4>1
      <3>3. more[q[i].id] = counts[q[i].id]
        BY <3>2, <3>4
      <3> QED
        BY <1>2, <1>5, <3>1, <3>3
    <2> QED
      BY <2>1, <2>2
  <1>6. ASSUME NEW i \in DOMAIN r, NEW j \in DOMAIN r, r[i].k \in TextKinds, r[j].k \in TextKinds,
               r[i].id = r[j].id
        PROVE  i = j
    <2>1. \A m \in DOMAIN r : m # Len(q) + 1 => m \in DOMAIN q /\ r[m] = q[m]
      BY <1>1
    <2>2. CASE i = Len(q) + 1 /\ j # Len(q) + 1
      BY <1>4, <1>6, <2>1, <2>2
    <2>3. CASE i # Len(q) + 1 /\ j = Len(q) + 1
      BY <1>4, <1>6, <2>1, <2>3
    <2>4. CASE i # Len(q) + 1 /\ j # Len(q) + 1
      BY <1>6, <2>1, <2>4 DEF Texts
    <2> QED
      BY <2>2, <2>3, <2>4
  <1> QED
    BY <1>5, <1>6 DEF Texts

\* A text part already there takes a delta, or is left as it was.
LEMMA TextsMore ==
    ASSUME NEW q \in Seq(PartT), NEW counts \in [1..MaxParts -> Nat], NEW next \in 1..(MaxParts + 1),
           NEW m \in DOMAIN q, NEW p \in PartT, q[m].k \in TextKinds, p.k = q[m].k, p.id = q[m].id,
           Texts(q, counts, next), NEW more,
           \/ p.txt = q[m].txt /\ more = counts
           \/ /\ q[m].id \in 1..MaxParts /\ p.txt = Append(q[m].txt, q[m].id)
              /\ more = [counts EXCEPT ![q[m].id] = counts[q[m].id] + 1]
    PROVE  Texts([q EXCEPT ![m] = p], more, next)
  <1>1. PICK r : r = [q EXCEPT ![m] = p]
    OBVIOUS
  <1>2. DOMAIN r = DOMAIN q /\ r[m] = p /\ \A j \in DOMAIN q : j # m => r[j] = q[j]
    BY <1>1, ChangeFacts
  <1>3. \A i \in DOMAIN q : q[i].k \in TextKinds =>
          /\ q[i].id \in 1..(next - 1) /\ q[i].txt # <<>>
          /\ \A j \in DOMAIN q[i].txt : q[i].txt[j] = q[i].id
          /\ Len(q[i].txt) = counts[q[i].id]
    BY DEF Texts
  <1>4. \A i, j \in DOMAIN q : q[i].k \in TextKinds /\ q[j].k \in TextKinds /\ q[i].id = q[j].id => i = j
    BY DEF Texts
  <1>5. PICK n : n = q[m].id
    OBVIOUS
  <1>6. PICK t : t = q[m].txt
    OBVIOUS
  <1>7. t \in Seq(Nat)
    BY <1>6, SeqFacts DEF PartT
  <1>8. n \in 1..(next - 1) /\ t # <<>> /\ Len(t) = counts[n] /\ \A j \in DOMAIN t : t[j] = n
    BY <1>3, <1>5, <1>6
  <1>9. /\ p.id = n /\ p.txt # <<>> /\ (\A j \in DOMAIN p.txt : p.txt[j] = n) /\ Len(p.txt) = more[n]
        /\ \A x \in 1..MaxParts : x # n => more[x] = counts[x]
    <2>1. CASE p.txt = t /\ more = counts
      BY <1>5, <1>8, <2>1
    <2>2. CASE n \in 1..MaxParts /\ p.txt = Append(t, n) /\ more = [counts EXCEPT ![n] = counts[n] + 1]
      <3>1. n \in Nat
        BY <2>2
      <3>2. Append(t, n) # <<>> /\ Len(Append(t, n)) = Len(t) + 1 /\ \A j \in DOMAIN Append(t, n) : Append(t, n)[j] = n
        BY ONLY <1>7, <1>8, <3>1
      <3>3. more[n] = counts[n] + 1 /\ \A x \in 1..MaxParts : x # n => more[x] = counts[x]
        BY <2>2
      <3> QED
        BY <1>5, <1>8, <2>2, <3>2, <3>3
    <2> QED
      BY <1>5, <1>6, <2>1, <2>2
  <1>10. ASSUME NEW i \in DOMAIN r, r[i].k \in TextKinds
         PROVE  /\ r[i].id \in 1..(next - 1) /\ r[i].txt # <<>>
                /\ \A j \in DOMAIN r[i].txt : r[i].txt[j] = r[i].id
                /\ Len(r[i].txt) = more[r[i].id]
    <2>1. CASE i = m
      BY <1>2, <1>8, <1>9, <2>1
    <2>2. CASE i # m
      <3>1. i \in DOMAIN q /\ r[i] = q[i] /\ q[i].k \in TextKinds
        BY <1>2, <1>10, <2>2
      <3>2. q[i].id # n
        BY <1>4, <1>5, <2>2, <3>1
      <3>4. q[i].id \in 1..MaxParts
        <4>1. q[i].id \in 1..(next - 1) /\ MaxParts \in Nat
          BY <1>3, <3>1, FoldBounds
        <4> QED
          BY <4>1
      <3>3. more[q[i].id] = counts[q[i].id]
        BY <1>9, <3>2, <3>4
      <3> QED
        BY <1>3, <3>1, <3>3
    <2> QED
      BY <2>1, <2>2
  <1>11. ASSUME NEW i \in DOMAIN r, NEW j \in DOMAIN r, r[i].k \in TextKinds, r[j].k \in TextKinds,
                r[i].id = r[j].id
         PROVE  i = j
    <2>1. \A x \in DOMAIN r : r[x].k = q[x].k /\ r[x].id = q[x].id
      BY <1>2
    <2> QED
      BY <1>2, <1>4, <1>11, <2>1
  <1>12. Texts(r, more, next)
    BY <1>10, <1>11 DEF Texts
  <1> QED
    BY <1>1, <1>12

\* A part is started: its id is pinned and its start is held back.
PartInto(z, i, k, u) ==
    u = [z EXCEPT !.id = z.next, !.next = z.next + 1, !.live[i] = [k |-> k, id |-> z.next],
                  !.pinned[i] = z.next]
IsStarted(z, i, k, u) ==
    /\ u \in StreamT /\ u.next = z.next + 1
    /\ u.live[i] = [k |-> k, id |-> z.next] /\ u.pinned[i] = z.next
    /\ \A j \in Indexes : j # i => u.live[j] = z.live[j] /\ u.pinned[j] = z.pinned[j]

LEMMA StreamStarted ==
    ASSUME NEW z \in StreamT, z.next <= MaxParts, NEW i \in Indexes, NEW k \in TextKinds, NEW u,
           PartInto(z, i, k, u)
    PROVE  IsStarted(z, i, k, u)
  <1>1. PICK n : n = z.next
    OBVIOUS
  <1>2. n \in 1..(MaxParts + 1) /\ n <= MaxParts /\ MaxParts \in Nat
    BY <1>1, StreamFields, FoldBounds
  <1>3. n \in Nat /\ n + 1 \in 1..(MaxParts + 1) /\ n \in 1..MaxParts
    BY ONLY <1>2
  <1>4. PICK m : m = n + 1
    OBVIOUS
  <1>5. PICK x : x = [k |-> k, id |-> n]
    OBVIOUS
  <1>6. x \in LiveT
    BY <1>3, <1>5 DEF LiveT, Ids
  <1>7. PICK f, g : f = z.live /\ g = z.pinned
    OBVIOUS
  <1>8. f \in [Indexes -> LiveT] /\ g \in [Indexes -> Nat \cup {None}]
    BY <1>7, StreamFields
  <1>9. PICK l : l = [f EXCEPT ![i] = x]
    OBVIOUS
  <1>10. PICK p : p = [g EXCEPT ![i] = n]
    OBVIOUS
  <1>11. l \in [Indexes -> LiveT] /\ l[i] = x /\ \A j \in Indexes : j # i => l[j] = f[j]
    BY <1>6, <1>8, <1>9
  <1>12. p \in [Indexes -> Nat \cup {None}] /\ p[i] = n /\ \A j \in Indexes : j # i => p[j] = g[j]
    BY <1>3, <1>8, <1>10
  <1>13. PICK s, b : s = z.steps /\ b = z.id
    OBVIOUS
  <1>14. z = [steps |-> s, id |-> b, next |-> n, pinned |-> g, live |-> f] /\ s \in Nat
    BY <1>1, <1>7, <1>13, StreamFields
  <1>15. u = [steps |-> s, id |-> n, next |-> m, pinned |-> p, live |-> l]
    <2>1. u = [z EXCEPT !.id = n, !.next = m, !.live[i] = x, !.pinned[i] = n]
      BY <1>1, <1>4, <1>5 DEF PartInto
    <2>2. PICK y : y = [z EXCEPT !.id = n]
      OBVIOUS
    <2>3. y = [steps |-> s, id |-> n, next |-> n, pinned |-> g, live |-> f]
      BY ONLY <1>14, <2>2
    <2>4. PICK w : w = [y EXCEPT !.next = m]
      OBVIOUS
    <2>5. w = [steps |-> s, id |-> n, next |-> m, pinned |-> g, live |-> f]
      BY ONLY <2>3, <2>4
    <2>6. PICK v : v = [w EXCEPT !.live[i] = x]
      OBVIOUS
    <2>7. v = [steps |-> s, id |-> n, next |-> m, pinned |-> g, live |-> l]
      BY ONLY <1>9, <2>5, <2>6
    <2>8. u = [v EXCEPT !.pinned[i] = n]
      BY ONLY <2>1, <2>2, <2>4, <2>6
    <2> QED
      BY ONLY <1>10, <2>7, <2>8
  <1>16. u \in StreamT
    <2>1. n \in Nat \cup {None} /\ m \in 1..(MaxParts + 1)
      BY <1>3, <1>4
    <2>2. [steps |-> s, id |-> n, next |-> m, pinned |-> p, live |-> l] \in StreamT
      BY <1>11, <1>12, <1>14, <2>1, StreamMade
    <2> QED
      BY <1>15, <2>2
  <1>17. u.next = m /\ u.live = l /\ u.pinned = p
    BY ONLY <1>15
  <1> QED
    BY <1>1, <1>4, <1>5, <1>7, <1>11, <1>12, <1>16, <1>17 DEF IsStarted

LEMMA PartStartKeeps ==
    ASSUME FoldInv, NEW i \in Indexes, NEW k \in TextKinds, PartStart(i, k)
    PROVE  FoldInv'
  <1>1. PICK n : n = stream.next
    OBVIOUS
  <1>2. PICK ch : ch = Chunk(k, "start", n, None)
    OBVIOUS
  <1>3. /\ turn.open /\ stream.next <= MaxParts /\ WriteThrough(gate, open, <<ch>>)
        /\ PartInto(stream, i, k, stream') /\ UNCHANGED <<turn, call, started, hints, sent>>
    BY <1>1, <1>2 DEF PartStart, Running, Emit, PartInto
  <1>4. /\ turn.n > 0 /\ turn.fin = "none" /\ turn.n \in 1..MaxTurns
        /\ Types /\ Sim(srv, cli) /\ thread \in ThreadT /\ \A c \in Calls : CallOK(c)
    BY <1>3, RunningFacts
  <1>5. stream \in StreamT /\ turn \in TurnT
    BY <1>4 DEF Types
  <1>6. n \in 1..(MaxParts + 1) /\ n <= MaxParts /\ MaxParts \in Nat
    BY <1>1, <1>3, <1>5, StreamFields, FoldBounds
  <1>7. /\ stream' \in StreamT /\ stream'.next = n + 1
        /\ stream'.live[i] = [k |-> k, id |-> n] /\ stream'.pinned[i] = n
        /\ \A j \in Indexes : j # i => stream'.live[j] = stream.live[j] /\ stream'.pinned[j] = stream.pinned[j]
    <2>1. IsStarted(stream, i, k, stream')
      BY ONLY <1>3, <1>5, i \in Indexes, k \in TextKinds, StreamStarted
    <2> QED
      BY <1>1, <2>1 DEF IsStarted
  <1>8. ch.k = k /\ ch.op = "start" /\ ch.id = n
    BY <1>2 DEF Chunk
  <1>9. PICK acc : acc = Admit([held |-> gate, out |-> <<>>], ch)
    OBVIOUS
  <1>10. acc = [held |-> Put(gate, n, ch), out |-> <<>>]
    BY <1>8, <1>9 DEF Admit, TextKinds
  <1>11. acc.held = Put(gate, n, ch) /\ acc.out = <<>>
    BY ONLY <1>10
  <1>12. gate' = Put(gate, n, ch) /\ srv' = srv /\ cli' = cli /\ thread' = thread /\ open' = open
    <2>1. LogAll(Log(open), acc.out) = Log(open)
      BY <1>11, LogNone
    <2>2. Log(open).srv = srv /\ Log(open).cli = cli /\ Log(open).thread = thread /\ Log(open).open = open
      BY DEF Log
    <2> HIDE DEF Log
    <2> QED
      BY <1>3, <1>9, <1>11, <2>1, <2>2, WriteOne
  <1>13. Pending' /\ Cuts' /\ thread' \in ThreadT /\ Sim(srv, cli)'
    <2>1. turn.n # 0
      BY <1>4
    <2> QED
      BY <1>3, <1>4, <1>12, <2>1 DEF Pending, Cuts, FoldInv
  <1>14. Types'
    BY <1>3, <1>4, <1>7, <1>12 DEF Types
  <1>15. Texts(srv.parts, sent, stream.next)'
    <2>1. Texts(srv.parts, sent, n)
      BY <1>1 DEF FoldInv
    <2>2. 1..(n - 1) \subseteq 1..((n + 1) - 1)
      BY <1>6
    <2>3. Texts(srv.parts, sent, n + 1)
      BY <2>1, <2>2 DEF Texts
    <2> QED
      BY <1>3, <1>7, <1>12, <2>3
  <1>16. DOMAIN gate' = DOMAIN gate \cup {n} /\ gate'[n] = ch /\ \A x \in DOMAIN gate : x # n => gate'[x] = gate[x]
    BY <1>12 DEF Put
  <1>17. \A m \in n..MaxParts : sent[m] = 0
    BY <1>1 DEF FoldInv, Streams
  <1>18. ASSUME NEW j \in Indexes, Live(j)'
         PROVE  LET p == stream'.live[j]
                IN  /\ p.id \in 1..(stream'.next - 1) /\ stream'.pinned[j] = p.id
                    /\ \A h \in Indexes : Live(h)' /\ stream'.live[h].id = p.id => h = j
                    /\ \/ p.id \in DOMAIN gate' /\ gate'[p.id] = Chunk(p.k, "start", p.id, None) /\ sent'[p.id] = 0
                       \/ p.id \notin DOMAIN gate' /\ <<p.k, p.id>> \in DOMAIN srv'.active
    <2>1. \A h \in Indexes : h # i /\ Live(h)' => Live(h)
      BY <1>7 DEF Live
    <2>2. \A h \in Indexes : h # i /\ Live(h)' => stream'.live[h].id \in 1..(n - 1) /\ stream'.live[h].id # n
      <3>1. \A h \in Indexes : Live(h) => stream.live[h].id \in 1..(n - 1)
        BY <1>1, <1>3 DEF FoldInv, Streams
      <3>2. n \notin 1..(n - 1)
        BY <1>6
      <3> QED
        BY <1>7, <2>1, <3>1, <3>2
    <2>3. CASE j = i
      <3>1. stream'.live[j].k = k /\ stream'.live[j].id = n
        BY <1>7, <2>3
      <3>2. n \in 1..(stream'.next - 1)
        BY <1>6, <1>7
      <3>3. sent'[n] = 0
        BY <1>3, <1>6, <1>17
      <3>4. \A h \in Indexes : Live(h)' /\ stream'.live[h].id = n => h = j
        BY <2>2, <2>3
      <3> QED
        BY <1>2, <1>7, <1>16, <2>3, <3>1, <3>2, <3>3, <3>4
    <2>4. CASE j # i
      <3>1. PICK p : p = stream.live[j]
        OBVIOUS
      <3>2. Live(j) /\ stream'.live[j] = p /\ stream'.pinned[j] = stream.pinned[j]
        BY <1>7, <1>18, <2>1, <2>4, <3>1
      <3>3. /\ p.id \in 1..(n - 1) /\ stream.pinned[j] = p.id
            /\ \A h \in Indexes : Live(h) /\ stream.live[h].id = p.id => h = j
            /\ \/ p.id \in DOMAIN gate /\ gate[p.id] = Chunk(p.k, "start", p.id, None) /\ sent[p.id] = 0
               \/ p.id \notin DOMAIN gate /\ <<p.k, p.id>> \in DOMAIN srv.active
        BY <1>1, <1>3, <3>1, <3>2 DEF FoldInv, Streams
      <3>4. p.id # n
        BY <1>18, <2>2, <2>4, <3>2
      <3>5. p.id \in 1..(stream'.next - 1)
        BY <1>6, <1>7, <3>3
      <3>6. \A h \in Indexes : Live(h)' /\ stream'.live[h].id = p.id => h = j
        BY <1>7, <2>1, <3>3, <3>4
      <3>7. \/ p.id \in DOMAIN gate' /\ gate'[p.id] = Chunk(p.k, "start", p.id, None) /\ sent'[p.id] = 0
            \/ p.id \notin DOMAIN gate' /\ <<p.k, p.id>> \in DOMAIN srv'.active
        BY <1>3, <1>12, <1>16, <3>3, <3>4
      <3> QED
        BY <3>2, <3>3, <3>5, <3>6, <3>7
    <2> QED
      BY <2>3, <2>4
  <1>19. Streams'
    <2>1. \A m \in stream'.next..MaxParts : sent'[m] = 0
      BY <1>3, <1>6, <1>7, <1>17
    <2> QED
      BY <1>18, <2>1 DEF Streams
  <1>20. ASSUME NEW c \in Calls PROVE CallOK(c)'
    BY <1>3, <1>4, <1>12, SameCall
  <1> QED
    BY <1>3, <1>4, <1>13, <1>14, <1>15, <1>19, <1>20 DEF FoldInv

\* The other parts' streams are left alone by a delta or an end of part i.
LEMMA StreamsKept ==
    ASSUME FoldInv, turn.open, NEW i \in Indexes, Live(i), NEW n, n = stream.live[i].id,
           NEW key, key = <<stream.live[i].k, n>>,
           stream'.next = stream.next, stream'.pinned = stream.pinned,
           \A j \in Indexes : j # i => stream'.live[j] = stream.live[j],
           gate' = Without(gate, {n}), \A m \in 1..MaxParts : m # n => sent'[m] = sent[m],
           DOMAIN srv.active \ {key} \subseteq DOMAIN srv'.active,
           ~Live(i)' \/ (stream'.live[i] = stream.live[i] /\ key \in DOMAIN srv'.active)
    PROVE  Streams'
  <1>1. n \in 1..(stream.next - 1) /\ n \in 1..MaxParts
    BY OwnId
  <1>2. stream.next \in 1..(MaxParts + 1) /\ MaxParts \in Nat
    BY FoldBounds, StreamFields DEF FoldInv, Types
  <1>3. ASSUME NEW m \in stream'.next..MaxParts PROVE sent'[m] = 0
    <2>1. m \in stream.next..MaxParts
      OBVIOUS
    <2>2. sent[m] = 0
      BY <2>1 DEF FoldInv, Streams
    <2>3. m \in 1..MaxParts /\ m # n
      BY <1>1, <1>2, <2>1
    <2> QED
      BY <2>2, <2>3
  <1>4. DOMAIN gate' = DOMAIN gate \ {n} /\ \A x \in DOMAIN gate \ {n} : gate'[x] = gate[x]
    BY DEF Without
  <1>5. ASSUME NEW j \in Indexes, Live(j)'
        PROVE  LET p == stream'.live[j]
               IN  /\ p.id \in 1..(stream'.next - 1) /\ stream'.pinned[j] = p.id
                   /\ \A h \in Indexes : Live(h)' /\ stream'.live[h].id = p.id => h = j
                   /\ \/ p.id \in DOMAIN gate' /\ gate'[p.id] = Chunk(p.k, "start", p.id, None) /\ sent'[p.id] = 0
                      \/ p.id \notin DOMAIN gate' /\ <<p.k, p.id>> \in DOMAIN srv'.active
    <2>1. \A h \in Indexes : Live(h)' => stream'.live[h] = stream.live[h] /\ Live(h)
      BY DEF Live
    <2>2. PICK p : p = stream.live[j]
      OBVIOUS
    <2>3. Live(j) /\ stream'.live[j] = p
      BY <1>5, <2>1, <2>2
    <2>4. /\ p.id \in 1..(stream.next - 1) /\ p.id \in 1..MaxParts
          /\ \A h \in Indexes : Live(h) /\ stream.live[h].id = p.id => h = j
          /\ \/ p.id \in DOMAIN gate /\ gate[p.id] = Chunk(p.k, "start", p.id, None) /\ sent[p.id] = 0
             \/ p.id \notin DOMAIN gate /\ <<p.k, p.id>> \in DOMAIN srv.active
      BY <2>2, <2>3, OwnId
    <2>5. stream.pinned[j] = p.id
      BY <2>2, <2>3 DEF FoldInv, Streams
    <2>6. \A h \in Indexes : Live(h)' /\ stream'.live[h].id = p.id => h = j
      BY <2>1, <2>4
    <2>7. CASE j = i
      <3>1. p.id = n /\ key \in DOMAIN srv'.active /\ <<p.k, p.id>> = key
        BY <1>5, <2>2, <2>7
      <3>2. n \notin DOMAIN gate'
        BY <1>4
      <3> QED
        BY <2>3, <2>4, <2>5, <2>6, <3>1, <3>2
    <2>8. CASE j # i
      <3>1. p.id # n
        BY <2>4, <2>8
      <3>2. <<p.k, p.id>> # key
        BY <3>1
      <3>3. p.id \in DOMAIN gate => /\ p.id \in DOMAIN gate' /\ gate'[p.id] = gate[p.id]
                                    /\ sent'[p.id] = sent[p.id]
        BY <1>4, <2>4, <3>1
      <3>4. p.id \notin DOMAIN gate => p.id \notin DOMAIN gate' /\ <<p.k, p.id>> \in DOMAIN srv'.active
        BY <1>4, <2>4, <3>2
      <3>5. \/ p.id \in DOMAIN gate' /\ gate'[p.id] = Chunk(p.k, "start", p.id, None) /\ sent'[p.id] = 0
            \/ p.id \notin DOMAIN gate' /\ <<p.k, p.id>> \in DOMAIN srv'.active
        BY <2>4, <3>3, <3>4
      <3> QED
        BY <2>3, <2>4, <2>5, <2>6, <3>5
    <2> QED
      BY <2>7, <2>8
  <1> QED
    BY <1>3, <1>5 DEF Streams

\* What is left of the invariant once a text part is written.
LEMMA TextWritten ==
    ASSUME FoldInv, turn.open, Sim(srv', cli'), ViewsSame(srv, cli, srv', cli'), ThreadKept(thread, thread'),
           open' = open, UNCHANGED <<turn, call, started, hints>>,
           stream' \in StreamT, sent' \in [1..MaxParts -> Nat],
           Texts(srv.parts, sent, stream.next)', Streams'
    PROVE  FoldInv'
  <1>1. /\ turn.n > 0 /\ turn.fin = "none" /\ turn.n \in 1..MaxTurns
        /\ Types /\ Sim(srv, cli) /\ thread \in ThreadT /\ \A c \in Calls : CallOK(c)
    BY RunningFacts
  <1>2. Pending' /\ Cuts' /\ thread' \in ThreadT
    BY <1>1, KeptCuts
  <1>3. Types'
    BY <1>1, <1>2 DEF Types
  <1>4. ASSUME NEW c \in Calls PROVE CallOK(c)'
    BY <1>1, SameCall DEF ViewsSame
  <1> QED
    BY <1>1, <1>2, <1>3, <1>4 DEF FoldInv

\* A chunk of a text part, logged.
LEMMA LogText ==
    ASSUME NEW log, NEW k \in TextKinds, NEW op, NEW id, NEW x, NEW ch, ch = Chunk(k, op, id, x),
           log.thread \in ThreadT, NEW l, l = LogEntry(log, ch)
    PROVE  After(log.srv, log.cli, ch, l.srv, l.cli) /\ l.open = log.open /\ ThreadKept(log.thread, l.thread)
  <1>1. ch.k \in TextKinds
    BY DEF Chunk
  <1>2. Inner(ch) /\ Observe(log.open, ch) = log.open
    BY <1>1 DEF Inner, Observe, TextKinds
  <1> QED
    BY <1>2, LogInner

LEMMA ThreadTrans ==
    ASSUME NEW b, NEW c, NEW d, ThreadKept(b, c), ThreadKept(c, d)
    PROVE  ThreadKept(b, d)
  BY DEF ThreadKept

\* The first delta of a part brings its start with it.
FirstWritten(s, t, k, n, s2, t2, counts, next) ==
    /\ Sim(s2, t2) /\ ViewsSame(s, t, s2, t2) /\ DOMAIN s.active \cup {<<k, n>>} \subseteq DOMAIN s2.active
    /\ Texts(s2.parts, counts, next)

LEMMA FirstDelta ==
    ASSUME NEW s, NEW t, NEW s1, NEW t1, NEW s2, NEW t2, NEW k \in TextKinds, NEW n \in 1..MaxParts,
           Sim(s, t), After(s, t, Chunk(k, "start", n, None), s1, t1),
           After(s1, t1, Chunk(k, "delta", n, n), s2, t2),
           NEW counts \in [1..MaxParts -> Nat], NEW next \in 1..(MaxParts + 1), n \in 1..(next - 1),
           Texts(s.parts, counts, next), counts[n] = 0, NEW more, more = [counts EXCEPT ![n] = 1]
    PROVE  FirstWritten(s, t, k, n, s2, t2, more, next)
  <1>0. PICK y : y = None
    OBVIOUS
  <1>a. After(s, t, Chunk(k, "start", n, y), s1, t1)
    BY <1>0
  <1>b. Sim(s, t) /\ k \in TextKinds /\ n \in 1..MaxParts
    OBVIOUS
  <1>c. TextBegun(s, t, k, n, s1, t1)
    BY ONLY <1>a, <1>b, TextStart
  <1>1. /\ Sim(s1, t1) /\ ViewsSame(s, t, s1, t1) /\ s1.active = Put(s.active, <<k, n>>, Len(s.parts) + 1)
        /\ \E p \in PartT : s1.parts = Append(s.parts, p) /\ p.k = k /\ p.id = n /\ p.txt = <<>>
    BY <1>c DEF TextBegun
  <1>2. DOMAIN s1.active = DOMAIN s.active \cup {<<k, n>>}
    BY <1>1 DEF Put
  <1>3. n \in Nat
    OBVIOUS
  <1>4. /\ Sim(s2, t2) /\ ViewsSame(s1, t1, s2, t2) /\ s2.active = s1.active
        /\ \E i \in DOMAIN s1.parts, p \in PartT :
             /\ s2.parts = [s1.parts EXCEPT ![i] = p] /\ s1.parts[i].k = k /\ s1.parts[i].id = n
             /\ p.k = k /\ p.id = n /\ p.txt = Append(s1.parts[i].txt, n)
    <2>1. <<k, n>> \in DOMAIN s1.active
      BY <1>2
    <2>2. Sim(s1, t1)
      BY <1>1
    <2>3. PICK x \in Nat : x = n
      BY <1>3
    <2>4. After(s1, t1, Chunk(k, "delta", n, x), s2, t2)
      BY <2>3
    <2>5. TextGrown(s1, t1, k, n, x, s2, t2)
      BY ONLY x \in Nat, <2>1, <2>2, <2>4, TextDelta
    <2> QED
      BY <2>3, <2>5 DEF TextGrown
  <1>5. PICK q : q = s.parts
    OBVIOUS
  <1>6. q \in Seq(PartT)
    BY <1>5, SimFacts
  <1>7. PICK p0 \in PartT : s1.parts = Append(q, p0) /\ p0.k = k /\ p0.id = n /\ p0.txt = <<>>
    BY <1>1, <1>5
  <1>8. PICK q1 : q1 = s1.parts
    OBVIOUS
  <1>9. PICK i \in DOMAIN q1, p \in PartT :
             /\ s2.parts = [q1 EXCEPT ![i] = p] /\ q1[i].k = k /\ q1[i].id = n
             /\ p.k = k /\ p.id = n /\ p.txt = Append(q1[i].txt, n)
    BY <1>4, <1>8
  <1>10. /\ q1 = Append(q, p0) /\ q1 \in Seq(PartT) /\ Len(q1) = Len(q) + 1 /\ DOMAIN q1 = 1..(Len(q) + 1)
         /\ q1[Len(q) + 1] = p0 /\ (\A j \in 1..Len(q) : q1[j] = q[j]) /\ Len(q) \in Nat /\ DOMAIN q = 1..Len(q)
    BY <1>6, <1>7, <1>8, AppendFacts, SeqFacts
  <1>11. i = Len(q) + 1
    <2>1. SUFFICES ASSUME i # Len(q) + 1 PROVE FALSE
      OBVIOUS
    <2>2. i \in DOMAIN q /\ q[i] = q1[i]
      BY <1>9, <1>10, <2>1
    <2>3. Texts(q, counts, next)
      BY <1>5
    <2>4. q[i].k \in TextKinds /\ q[i].id = n
      BY <1>9, <2>2
    <2>5. q[i].txt # <<>> /\ Len(q[i].txt) = 0
      BY <2>2, <2>3, <2>4 DEF Texts
    <2>6. q[i].txt \in Seq(Nat)
      BY <1>6, <2>2, SeqFacts DEF PartT
    <2> QED
      BY <2>5, <2>6
  <1>12. PICK r : r = s2.parts
    OBVIOUS
  <1>13. r = [q1 EXCEPT ![i] = p]
    BY <1>9, <1>12
  <1>14. /\ r \in Seq(PartT) /\ Len(r) = Len(q1) /\ r[i] = p /\ \A j \in DOMAIN q1 : j # i => r[j] = q1[j]
    BY <1>10, <1>13, ChangeFacts
  <1>15. p.txt = <<n>>
    <2>1. q1[i].txt = <<>>
      BY <1>7, <1>10, <1>11
    <2>2. p.txt = Append(<<>>, n)
      BY <1>9, <2>1
    <2> QED
      BY <2>2
  <1>16. Len(r) = Len(q) + 1 /\ (\A j \in 1..Len(q) : r[j] = q[j]) /\ r[Len(q) + 1].id = n /\ r[Len(q) + 1].txt = <<n>>
    BY <1>9, <1>10, <1>11, <1>14, <1>15
  <1>17. Texts(r, more, next)
    <2>1. q \in Seq(PartT) /\ r \in Seq(PartT) /\ Texts(q, counts, next)
      BY <1>5, <1>6, <1>14
    <2> QED
      BY ONLY <1>16, <2>1, counts \in [1..MaxParts -> Nat], next \in 1..(MaxParts + 1),
              n \in 1..MaxParts, n \in 1..(next - 1), counts[n] = 0, more = [counts EXCEPT ![n] = 1], TextsAdd
  <1>18. ViewsSame(s, t, s2, t2)
    BY <1>1, <1>4 DEF ViewsSame
  <1> QED
    BY <1>2, <1>4, <1>12, <1>17, <1>18 DEF FirstWritten

LEMMA PartDeltaKeeps ==
    ASSUME FoldInv, NEW i \in Indexes, PartDelta(i)
    PROVE  FoldInv'
  <1>1. PICK k, n : k = stream.live[i].k /\ n = stream.live[i].id
    OBVIOUS
  <1>2. PICK ch : ch = Chunk(k, "delta", n, n)
    OBVIOUS
  <1>3. turn.open /\ Live(i)
    BY DEF PartDelta, Running, Live, TextKinds
  <1>4. /\ WireId(i) = n /\ n \in 1..(stream.next - 1) /\ n \in 1..MaxParts /\ k \in TextKinds
        /\ \/ n \in DOMAIN gate /\ gate[n] = Chunk(k, "start", n, None) /\ sent[n] = 0
           \/ n \notin DOMAIN gate /\ <<k, n>> \in DOMAIN srv.active
    BY <1>1, <1>3, OwnId
  <1>5. /\ WriteThrough(gate, open, <<ch>>) /\ sent' = [sent EXCEPT ![n] = sent[n] + 1]
        /\ UNCHANGED <<turn, stream, call, started, hints>>
    BY <1>1, <1>2, <1>4 DEF PartDelta, Emit
  <1>6. /\ Types /\ Sim(srv, cli) /\ thread \in ThreadT
    BY <1>3, RunningFacts
  <1>7. sent \in [1..MaxParts -> Nat] /\ stream \in StreamT
    BY <1>6 DEF Types
  <1>8. stream.next \in 1..(MaxParts + 1) /\ Texts(srv.parts, sent, stream.next)
    BY <1>7, StreamFields DEF FoldInv
  <1>9. ch.k = k /\ ch.op = "delta" /\ ch.id = n
    BY <1>2 DEF Chunk
  <1>10. PICK acc : acc = Admit([held |-> gate, out |-> <<>>], ch)
    OBVIOUS
  <1>11. PICK log : log = Log(open)
    OBVIOUS
  <1>12. log.srv = srv /\ log.cli = cli /\ log.thread = thread /\ log.open = open
    BY <1>11 DEF Log
  <1>13. PICK l : l = LogAll(log, acc.out)
    OBVIOUS
  <1>14. gate' = acc.held /\ srv' = l.srv /\ cli' = l.cli /\ thread' = l.thread /\ open' = l.open
    BY <1>5, <1>10, <1>11, <1>13, WriteOne
  <1>15. sent' \in [1..MaxParts -> Nat] /\ \A m \in 1..MaxParts : m # n => sent'[m] = sent[m]
    BY <1>4, <1>5, <1>7
  <1>16. CASE n \in DOMAIN gate
    <2>1. gate[n] = Chunk(k, "start", n, None) /\ sent[n] = 0
      BY <1>4, <1>16
    <2>2. PICK a : a = Chunk(k, "start", n, None)
      OBVIOUS
    <2>3. acc = [held |-> Without(gate, {n}), out |-> <<>> \o <<a, ch>>]
      BY <1>4, <1>9, <1>10, <1>16, <2>1, <2>2 DEF Admit, TextKinds
    <2>4. acc.held = Without(gate, {n}) /\ acc.out = <<a, ch>>
      BY ONLY <2>3
    <2>5. PICK m : m = LogEntry(log, a)
      OBVIOUS
    <2>6. l = LogEntry(m, ch)
      BY <1>13, <2>4, <2>5, LogTwo
    <2>7. After(log.srv, log.cli, a, m.srv, m.cli) /\ m.open = log.open /\ ThreadKept(log.thread, m.thread)
      BY <1>4, <1>6, <1>12, <2>2, <2>5, LogText
    <2>8. m.thread \in ThreadT
      BY <2>7 DEF ThreadKept
    <2>9. After(m.srv, m.cli, ch, l.srv, l.cli) /\ l.open = m.open /\ ThreadKept(m.thread, l.thread)
      BY <1>2, <1>4, <2>6, <2>8, LogText
    <2>10. PICK s1, t1 : s1 = m.srv /\ t1 = m.cli
      OBVIOUS
    <2>11. After(srv, cli, Chunk(k, "start", n, None), s1, t1) /\ After(s1, t1, Chunk(k, "delta", n, n), srv', cli')
      BY <1>2, <1>12, <1>14, <2>2, <2>7, <2>9, <2>10
    <2>12. sent' = [sent EXCEPT ![n] = 1]
      BY <1>5, <2>1
    <2>13. PICK next \in 1..(MaxParts + 1) : next = stream.next
      BY <1>8
    <2>14. n \in 1..(next - 1) /\ Texts(srv.parts, sent, next)
      BY <1>4, <1>8, <2>13
    <2>15. /\ Sim(srv', cli') /\ ViewsSame(srv, cli, srv', cli')
           /\ DOMAIN srv.active \cup {<<k, n>>} \subseteq DOMAIN srv'.active
           /\ Texts(srv'.parts, sent', next)
      <3>1. PICK s, t, s2, t2, more : s = srv /\ t = cli /\ s2 = srv' /\ t2 = cli' /\ more = sent'
        OBVIOUS
      <3>2. PICK counts : counts = sent
        OBVIOUS
      <3>3. /\ Sim(s, t) /\ After(s, t, Chunk(k, "start", n, None), s1, t1)
            /\ After(s1, t1, Chunk(k, "delta", n, n), s2, t2)
        BY <1>6, <2>11, <3>1
      <3>4. counts \in [1..MaxParts -> Nat] /\ counts[n] = 0 /\ more = [counts EXCEPT ![n] = 1]
        BY <1>7, <2>1, <2>12, <3>1, <3>2
      <3>5. n \in 1..(next - 1) /\ Texts(s.parts, counts, next) /\ k \in TextKinds /\ n \in 1..MaxParts
        BY <1>4, <2>14, <3>1, <3>2
      <3>6. FirstWritten(s, t, k, n, s2, t2, more, next)
        BY ONLY <3>3, <3>4, <3>5, next \in 1..(MaxParts + 1), FirstDelta
      <3> QED
        BY <3>1, <3>6 DEF FirstWritten
    <2>16. ThreadKept(thread, thread') /\ open' = open
      <3>1. ThreadKept(log.thread, l.thread)
        BY <2>7, <2>9, ThreadTrans
      <3> QED
        BY <1>12, <1>14, <2>7, <2>9, <3>1
    <2>17. Streams'
      <3>1. gate' = Without(gate, {n})
        BY <1>14, <2>4
      <3> QED
        BY <1>1, <1>3, <1>5, <1>15, <2>15, <3>1, StreamsKept
    <2>18. Texts(srv.parts, sent, stream.next)'
      BY <1>5, <2>13, <2>15
    <2> QED
      BY <1>3, <1>5, <1>7, <1>15, <2>15, <2>16, <2>17, <2>18, TextWritten
  <1>17. CASE n \notin DOMAIN gate
    <2>1. <<k, n>> \in DOMAIN srv.active
      BY <1>4, <1>17
    <2>2. acc = [held |-> Without(gate, {n}), out |-> <<>> \o <<ch>>]
      BY <1>4, <1>9, <1>10, <1>17 DEF Admit, TextKinds
    <2>3. acc.held = Without(gate, {n}) /\ acc.out = <<ch>>
      BY ONLY <2>2
    <2>4. l = LogEntry(log, ch)
      BY <1>13, <2>3, LogOne
    <2>5. After(log.srv, log.cli, ch, l.srv, l.cli) /\ l.open = log.open /\ ThreadKept(log.thread, l.thread)
      BY <1>2, <1>4, <1>6, <1>12, <2>4, LogText
    <2>6. n \in Nat /\ After(srv, cli, Chunk(k, "delta", n, n), srv', cli')
      BY <1>2, <1>4, <1>12, <1>14, <2>5
    <2>7. /\ Sim(srv', cli') /\ ViewsSame(srv, cli, srv', cli') /\ srv'.active = srv.active
          /\ \E j \in DOMAIN srv.parts, p \in PartT :
               /\ srv'.parts = [srv.parts EXCEPT ![j] = p] /\ srv.parts[j].k = k /\ srv.parts[j].id = n
               /\ p.k = k /\ p.id = n /\ p.txt = Append(srv.parts[j].txt, n)
      <3>1. PICK x \in Nat : x = n
        BY <2>6
      <3>2. After(srv, cli, Chunk(k, "delta", n, x), srv', cli')
        BY <2>6, <3>1
      <3>3. PICK s, t, s2, t2 : s = srv /\ t = cli /\ s2 = srv' /\ t2 = cli'
        OBVIOUS
      <3>4. Sim(s, t) /\ <<k, n>> \in DOMAIN s.active /\ After(s, t, Chunk(k, "delta", n, x), s2, t2)
        BY <1>6, <2>1, <3>2, <3>3
      <3>5. TextGrown(s, t, k, n, x, s2, t2)
        BY ONLY x \in Nat, <3>4, TextDelta
      <3> QED
        BY <3>1, <3>3, <3>5 DEF TextGrown
    <2>8. PICK j \in DOMAIN srv.parts, p \in PartT :
               /\ srv'.parts = [srv.parts EXCEPT ![j] = p] /\ srv.parts[j].k = k /\ srv.parts[j].id = n
               /\ p.k = k /\ p.id = n /\ p.txt = Append(srv.parts[j].txt, n)
      BY <2>7
    <2>9. PICK q : q = srv.parts
      OBVIOUS
    <2>10. q \in Seq(PartT)
      BY <1>6, <2>9, SimFacts
    <2>11. /\ q[j].k \in TextKinds /\ p.k = q[j].k /\ p.id = q[j].id /\ q[j].id \in 1..MaxParts
           /\ p.txt = Append(q[j].txt, q[j].id) /\ sent' = [sent EXCEPT ![q[j].id] = sent[q[j].id] + 1]
           /\ j \in DOMAIN q
      BY <1>4, <1>5, <2>8, <2>9
    <2>12. PICK next \in 1..(MaxParts + 1) : next = stream.next
      BY <1>8
    <2>13. Texts(q, sent, next)
      BY <1>8, <2>9, <2>12
    <2>14. Texts([q EXCEPT ![j] = p], sent', next)
      BY ONLY <1>7, <2>10, <2>11, <2>13, next \in 1..(MaxParts + 1), p \in PartT, TextsMore
    <2>15. Texts(srv.parts, sent, stream.next)'
      BY <1>5, <2>8, <2>9, <2>12, <2>14
    <2>16. ThreadKept(thread, thread') /\ open' = open
      BY <1>12, <1>14, <2>5
    <2>17. Streams'
      <3>1. gate' = Without(gate, {n})
        BY <1>14, <2>3
      <3> QED
        BY <1>1, <1>3, <1>5, <1>15, <2>1, <2>7, <3>1, StreamsKept
    <2> QED
      BY <1>3, <1>5, <1>7, <1>15, <2>7, <2>15, <2>16, <2>17, TextWritten
  <1> QED
    BY <1>16, <1>17

\* The part the model was writing is over.
LiveInto(z, i, v, u) == u = [z EXCEPT !.live[i] = v]
IsLive(z, i, v, u) ==
    /\ u \in StreamT /\ u.next = z.next /\ u.pinned = z.pinned /\ u.steps = z.steps
    /\ u.live[i] = v /\ \A j \in Indexes : j # i => u.live[j] = z.live[j]

LEMMA StreamLive ==
    ASSUME NEW z \in StreamT, NEW i \in Indexes, NEW v \in LiveT, NEW u, LiveInto(z, i, v, u)
    PROVE  IsLive(z, i, v, u)
  <1>1. PICK a \in Nat : a = z.steps
    BY StreamFields
  <1>2. PICK b \in Nat \cup {None} : b = z.id
    BY StreamFields
  <1>3. PICK n \in 1..(MaxParts + 1) : n = z.next
    BY StreamFields
  <1>4. PICK p \in [Indexes -> Nat \cup {None}] : p = z.pinned
    BY StreamFields
  <1>5. PICK l \in [Indexes -> LiveT] : l = z.live
    BY StreamFields
  <1>6. z = [steps |-> a, id |-> b, next |-> n, pinned |-> p, live |-> l]
    BY <1>1, <1>2, <1>3, <1>4, <1>5, StreamFields
  <1>7. u = [steps |-> a, id |-> b, next |-> n, pinned |-> p, live |-> [l EXCEPT ![i] = v]]
    BY ONLY <1>6, LiveInto(z, i, v, u) DEF LiveInto
  <1>8. PICK m \in [Indexes -> LiveT] : m = [l EXCEPT ![i] = v]
    OBVIOUS
  <1>9. u = [steps |-> a, id |-> b, next |-> n, pinned |-> p, live |-> m]
    BY <1>7, <1>8
  <1>10. u \in StreamT
    BY <1>9, StreamMade
  <1>11. u.next = n /\ u.pinned = p /\ u.steps = a /\ u.live = m
    BY ONLY <1>9
  <1> QED
    BY <1>1, <1>3, <1>4, <1>5, <1>8, <1>10, <1>11 DEF IsLive

LEMMA PartEndKeeps ==
    ASSUME FoldInv, NEW i \in Indexes, PartEnd(i)
    PROVE  FoldInv'
  <1>1. PICK k, n : k = stream.live[i].k /\ n = stream.live[i].id
    OBVIOUS
  <1>2. PICK ch : ch = Chunk(k, "end", n, None)
    OBVIOUS
  <1>3. turn.open /\ Live(i)
    BY DEF PartEnd, Running, Live, TextKinds
  <1>4. /\ WireId(i) = n /\ n \in 1..(stream.next - 1) /\ n \in 1..MaxParts /\ k \in TextKinds
        /\ \/ n \in DOMAIN gate /\ gate[n] = Chunk(k, "start", n, None) /\ sent[n] = 0
           \/ n \notin DOMAIN gate /\ <<k, n>> \in DOMAIN srv.active
    BY <1>1, <1>3, OwnId
  <1>5. /\ WriteThrough(gate, open, <<ch>>) /\ stream' = [stream EXCEPT !.live[i].k = "ended"]
        /\ UNCHANGED <<turn, call, started, hints, sent>>
    BY <1>1, <1>2, <1>4 DEF PartEnd, Emit
  <1>6. /\ Types /\ Sim(srv, cli) /\ thread \in ThreadT
    BY <1>3, RunningFacts
  <1>7. sent \in [1..MaxParts -> Nat] /\ stream \in StreamT
    BY <1>6 DEF Types
  <1>8. stream.next \in 1..(MaxParts + 1) /\ Texts(srv.parts, sent, stream.next)
    BY <1>7, StreamFields DEF FoldInv
  <1>9. ch.k = k /\ ch.op = "end" /\ ch.id = n
    BY <1>2 DEF Chunk
  <1>10. PICK acc : acc = Admit([held |-> gate, out |-> <<>>], ch)
    OBVIOUS
  <1>11. PICK log : log = Log(open)
    OBVIOUS
  <1>12. log.srv = srv /\ log.cli = cli /\ log.thread = thread /\ log.open = open
    BY <1>11 DEF Log
  <1>13. PICK l : l = LogAll(log, acc.out)
    OBVIOUS
  <1>14. gate' = acc.held /\ srv' = l.srv /\ cli' = l.cli /\ thread' = l.thread /\ open' = l.open
    BY <1>5, <1>10, <1>11, <1>13, WriteOne
  <1>15. /\ stream' \in StreamT /\ stream'.next = stream.next /\ stream'.pinned = stream.pinned
         /\ stream'.live[i].k = "ended" /\ \A j \in Indexes : j # i => stream'.live[j] = stream.live[j]
    <2>1. PICK z \in StreamT : z = stream
      BY <1>7
    <2>2. PICK v : v = [z.live[i] EXCEPT !.k = "ended"]
      OBVIOUS
    <2>3. z.live \in [Indexes -> LiveT]
      BY StreamFields
    <2>4. v \in LiveT /\ v.k = "ended"
      BY <2>2, <2>3 DEF LiveT
    <2>5. PICK u : u = stream'
      OBVIOUS
    <2>6. LiveInto(z, i, v, u)
      BY <1>5, <2>1, <2>2, <2>5 DEF LiveInto
    <2>7. IsLive(z, i, v, u)
      BY ONLY <2>4, <2>6, z \in StreamT, i \in Indexes, StreamLive
    <2> QED
      BY <2>1, <2>4, <2>5, <2>7 DEF IsLive
  <1>16. ~Live(i)'
    BY <1>15 DEF Live, TextKinds
  <1>17. CASE n \in DOMAIN gate
    <2>1. acc = [held |-> Without(gate, {n}), out |-> <<>>]
      BY <1>4, <1>9, <1>10, <1>17 DEF Admit, TextKinds
    <2>2. acc.held = Without(gate, {n}) /\ acc.out = <<>>
      BY ONLY <2>1
    <2>3. l = log
      BY <1>13, <2>2, LogNone
    <2>4. srv' = srv /\ cli' = cli /\ thread' = thread /\ open' = open /\ gate' = Without(gate, {n})
      BY <1>12, <1>14, <2>2, <2>3
    <2>5. ViewsSame(srv, cli, srv', cli') /\ ThreadKept(thread, thread') /\ Sim(srv', cli')
      BY <1>6, <2>4 DEF ViewsSame, ThreadKept
    <2>6. Texts(srv.parts, sent, stream.next)'
      BY <1>5, <1>8, <1>15, <2>4
    <2>7. Streams'
      BY <1>1, <1>3, <1>5, <1>15, <1>16, <2>4, StreamsKept
    <2> QED
      BY <1>3, <1>5, <1>7, <1>15, <2>4, <2>5, <2>6, <2>7, TextWritten
  <1>18. CASE n \notin DOMAIN gate
    <2>1. <<k, n>> \in DOMAIN srv.active
      BY <1>4, <1>18
    <2>2. acc = [held |-> Without(gate, {n}), out |-> Append(<<>>, ch)]
      BY <1>4, <1>9, <1>10, <1>18 DEF Admit, TextKinds
    <2>3. acc.held = Without(gate, {n}) /\ acc.out = <<ch>>
      BY ONLY <2>2
    <2>4. l = LogEntry(log, ch)
      BY <1>13, <2>3, LogOne
    <2>5. After(log.srv, log.cli, ch, l.srv, l.cli) /\ l.open = log.open /\ ThreadKept(log.thread, l.thread)
      BY <1>2, <1>4, <1>6, <1>12, <2>4, LogText
    <2>6. PICK s, t, s2, t2, x : s = srv /\ t = cli /\ s2 = srv' /\ t2 = cli' /\ x = None
      OBVIOUS
    <2>7. Sim(s, t) /\ <<k, n>> \in DOMAIN s.active /\ After(s, t, Chunk(k, "end", n, x), s2, t2)
      BY <1>2, <1>6, <1>12, <1>14, <2>1, <2>5, <2>6
    <2>8. TextEnded(s, t, k, n, s2, t2)
      BY ONLY <2>7, TextEnd
    <2>9. PICK j \in DOMAIN s.parts, p \in PartT :
               /\ s2.parts = [s.parts EXCEPT ![j] = p] /\ s.parts[j].k = k /\ s.parts[j].id = n
               /\ p.k = k /\ p.id = n /\ p.txt = s.parts[j].txt
      BY <2>8 DEF TextEnded
    <2>10. PICK q, counts : q = s.parts /\ counts = sent
      OBVIOUS
    <2>11. q \in Seq(PartT)
      BY <2>7, <2>10, SimFacts
    <2>12. PICK next \in 1..(MaxParts + 1) : next = stream.next
      BY <1>8
    <2>13. /\ q[j].k \in TextKinds /\ p.k = q[j].k /\ p.id = q[j].id /\ p.txt = q[j].txt /\ j \in DOMAIN q
           /\ Texts(q, counts, next) /\ counts \in [1..MaxParts -> Nat]
      BY <1>4, <1>7, <1>8, <2>6, <2>9, <2>10, <2>12
    <2>14. PICK more : more = counts
      OBVIOUS
    <2>15. Texts([q EXCEPT ![j] = p], more, next)
      BY ONLY <2>11, <2>13, <2>14, next \in 1..(MaxParts + 1), p \in PartT, TextsMore
    <2>16. Texts(srv.parts, sent, stream.next)'
      BY <1>5, <1>15, <2>6, <2>9, <2>10, <2>12, <2>14, <2>15
    <2>17. ThreadKept(thread, thread') /\ open' = open
      BY <1>12, <1>14, <2>5
    <2>18. Sim(srv', cli') /\ ViewsSame(srv, cli, srv', cli') /\ srv'.active = Without(srv.active, {<<k, n>>})
      BY <2>6, <2>8 DEF TextEnded
    <2>19. DOMAIN srv.active \ {<<k, n>>} \subseteq DOMAIN srv'.active
      BY <2>18 DEF Without
    <2>20. Streams'
      <3>1. gate' = Without(gate, {n})
        BY <1>14, <2>3
      <3> QED
        BY <1>1, <1>3, <1>5, <1>15, <1>16, <2>19, <3>1, StreamsKept
    <2> QED
      BY <1>3, <1>5, <1>7, <1>15, <2>16, <2>17, <2>18, <2>20, TextWritten
  <1> QED
    BY <1>17, <1>18

\* A log in which only one call changed, the list of open calls apart from it.
TouchLog(l, l2, c) ==
    /\ Sim(l2.srv, l2.cli) /\ OthersSame(l.srv, l.cli, l2.srv, l2.cli, c)
    /\ TextSame(l.srv.parts, l2.srv.parts) /\ l2.srv.active = l.srv.active
    /\ ThreadKept(l.thread, l2.thread) /\ l2.open \ {c} = l.open \ {c}

LEMMA TouchTrans ==
    ASSUME NEW l, NEW m, NEW n, NEW c, TouchLog(l, m, c), TouchLog(m, n, c)
    PROVE  TouchLog(l, n, c)
  <1>1. OthersSame(l.srv, l.cli, n.srv, n.cli, c)
    BY DEF TouchLog, OthersSame
  <1>2. TextSame(l.srv.parts, n.srv.parts)
    BY TextTrans DEF TouchLog
  <1>3. ThreadKept(l.thread, n.thread)
    BY ThreadTrans DEF TouchLog
  <1> QED
    BY <1>1, <1>2, <1>3 DEF TouchLog

LEMMA LogTool ==
    ASSUME NEW log, NEW c, NEW ch, ch.k \in {"tool-input", "tool-output", "approval", "tool-summary"}, ch.id = c,
           log.thread \in ThreadT, NEW l, l = LogEntry(log, ch)
    PROVE  /\ After(log.srv, log.cli, ch, l.srv, l.cli) /\ ThreadKept(log.thread, l.thread)
           /\ l.open = Observe(log.open, ch) /\ l.open \ {c} = log.open \ {c}
  <1>1. Inner(ch)
    BY DEF Inner
  <1>2. Observe(log.open, ch) \ {c} = log.open \ {c}
    <2>1. PICK o : o = log.open
      OBVIOUS
    <2>2. Observe(o, ch) \in {o, o \cup {c}, o \ {c}}
      BY DEF Observe
    <2> QED
      BY <2>1, <2>2
  <1>3. After(log.srv, log.cli, ch, l.srv, l.cli) /\ l.open = Observe(log.open, ch) /\ ThreadKept(log.thread, l.thread)
    BY ONLY <1>1, log.thread \in ThreadT, l = LogEntry(log, ch), LogInner
  <1> QED
    BY <1>2, <1>3

\* A chunk about a call, written while the turn runs.
LEMMA WriteTool ==
    ASSUME NEW c, NEW ch, ch.k \in {"tool-input", "tool-output", "approval", "tool-summary"}, ch.id = c,
           thread \in ThreadT, WriteThrough(gate, open, <<ch>>)
    PROVE  /\ gate' = gate /\ After(srv, cli, ch, srv', cli') /\ ThreadKept(thread, thread')
           /\ open' = Observe(open, ch) /\ open' \ {c} = open \ {c}
  <1>1. <<ch>> \in Seq({ch}) /\ \A i \in 1..Len(<<ch>>) : <<ch>>[i].k \notin TextKinds
    BY DEF TextKinds
  <1>2. PICK l : l = LogAll(Log(open), <<ch>>)
    OBVIOUS
  <1>3. gate' = gate /\ srv' = l.srv /\ cli' = l.cli /\ thread' = l.thread /\ open' = l.open
    BY <1>1, <1>2, WritePlain
  <1>4. PICK log : log = Log(open)
    OBVIOUS
  <1>5. log.srv = srv /\ log.cli = cli /\ log.thread = thread /\ log.open = open
    BY <1>4 DEF Log
  <1>6. l = LogEntry(log, ch)
    BY <1>2, <1>4, LogOne
  <1>7. log.thread \in ThreadT
    BY <1>5
  <1>8. /\ After(log.srv, log.cli, ch, l.srv, l.cli) /\ ThreadKept(log.thread, l.thread)
        /\ l.open = Observe(log.open, ch) /\ l.open \ {c} = log.open \ {c}
    BY ONLY <1>6, <1>7, ch.k \in {"tool-input", "tool-output", "approval", "tool-summary"}, ch.id = c, LogTool
  <1> QED
    BY <1>3, <1>5, <1>8

\* A step of a running turn that concerns one call.
LEMMA ToolKeeps ==
    ASSUME FoldInv, turn.open, NEW c \in Calls, NEW x \in Kinds, Sim(srv', cli'),
           OthersSame(srv, cli, srv', cli', c), TextSame(srv.parts, srv'.parts), srv'.active = srv.active,
           ThreadKept(thread, thread'), open' \ {c} = open \ {c}, gate' = gate,
           UNCHANGED <<turn, hints, sent>>, call' = [call EXCEPT ![c] = x],
           started' \in {started, started \cup {c}},
           stream' \in StreamT, stream'.next = stream.next, stream'.pinned = stream.pinned,
           \A i \in Indexes : stream'.live[i] = stream.live[i] \/ ~Live(i)',
           CallOK(c)'
    PROVE  FoldInv'
  <1>1. /\ turn.n > 0 /\ turn.fin = "none" /\ turn.n \in 1..MaxTurns
        /\ Types /\ Sim(srv, cli) /\ thread \in ThreadT /\ \A d \in Calls : CallOK(d)
    BY RunningFacts
  <1>2. turn' = turn /\ hints' = hints /\ sent' = sent
    OBVIOUS
  <1>3. /\ Pending' /\ Cuts' /\ Texts(srv.parts, sent, stream.next)'
        /\ thread' \in ThreadT /\ \A n \in stream'.next..MaxParts : sent'[n] = 0
    <2>1. turn'.n = turn.n /\ turn'.msg = turn.msg
      BY <1>2
    <2>2. turn'.n \in {turn.n, turn.n + 1}
      BY <2>1
    <2> QED
      BY <1>1, <1>2, <2>1, <2>2, Kept
  <1>4. Types'
    <2>1. call \in [Calls -> Kinds] /\ started \subseteq Calls /\ open \subseteq Calls
      BY <1>1 DEF Types
    <2>2. call' \in [Calls -> Kinds]
      BY <2>1
    <2>3. started' \subseteq Calls /\ open' \subseteq Calls
      BY <2>1
    <2> QED
      BY <1>1, <1>2, <1>3, <2>2, <2>3 DEF Types
  <1>5. Streams'
    <2>1. SUFFICES ASSUME NEW i \in Indexes, Live(i)'
                   PROVE  LET p == stream'.live[i]
                          IN  /\ p.id \in 1..(stream'.next - 1) /\ stream'.pinned[i] = p.id
                              /\ \A j \in Indexes : Live(j)' /\ stream'.live[j].id = p.id => j = i
                              /\ \/ p.id \in DOMAIN gate' /\ gate'[p.id] = Chunk(p.k, "start", p.id, None) /\ sent'[p.id] = 0
                                 \/ p.id \notin DOMAIN gate' /\ <<p.k, p.id>> \in DOMAIN srv'.active
      BY <1>3 DEF Streams
    <2>2. PICK p : p = stream.live[i]
      OBVIOUS
    <2>3. stream'.live[i] = p
      BY <2>1, <2>2
    <2>4. Live(i)
      BY <2>1, <2>2, <2>3 DEF Live
    <2>5. /\ p.id \in 1..(stream.next - 1) /\ stream.pinned[i] = p.id
          /\ \A j \in Indexes : Live(j) /\ stream.live[j].id = p.id => j = i
          /\ \/ p.id \in DOMAIN gate /\ gate[p.id] = Chunk(p.k, "start", p.id, None) /\ sent[p.id] = 0
             \/ p.id \notin DOMAIN gate /\ <<p.k, p.id>> \in DOMAIN srv.active
      BY <2>2, <2>4 DEF FoldInv, Streams
    <2>6. \A j \in Indexes : Live(j)' /\ stream'.live[j].id = p.id => j = i
      <3>1. ASSUME NEW j \in Indexes, Live(j)', stream'.live[j].id = p.id PROVE j = i
        <4>1. stream'.live[j] = stream.live[j]
          BY <3>1
        <4>2. Live(j) /\ stream.live[j].id = p.id
          BY <3>1, <4>1 DEF Live
        <4> QED
          BY <2>5, <4>2
      <3> QED
        BY <3>1
    <2> QED
      BY <1>2, <2>3, <2>5, <2>6
  <1>6. ASSUME NEW d \in Calls PROVE CallOK(d)'
    <2>1. CASE d = c
      BY <2>1
    <2>2. CASE d # c
      <3>1. View(srv', cli', d) = View(srv, cli, d)
        BY <2>2 DEF OthersSame
      <3>2. call'[d] = call[d]
        BY <2>2
      <3>3. d \in open => d \in open'
        BY <2>2
      <3>4. d \in started' => d \in started
        BY <2>2
      <3> QED
        BY <1>1, <1>2, <3>1, <3>2, <3>3, <3>4, SameCall
    <2> QED
      BY <2>1, <2>2
  <1> QED
    BY <1>1, <1>2, <1>3, <1>4, <1>5, <1>6 DEF FoldInv

\* What a running turn knows of one call.
LEMMA CallNow ==
    ASSUME FoldInv, turn.open, NEW c \in Calls, NEW v, v = View(srv, cli, c)
    PROVE  /\ call[c] = "new" => ~v.asked
           /\ call[c] \in Arriving => v.here /\ v.partial /\ ~v.asked /\ c \in open
           /\ call[c] = "args" => v.here /\ v.srv = "input-available"
           /\ call[c] \in {"answered", "args"} /\ turn.answer[c] = "no" => v.asked
           /\ call[c] = "answered" => c \in hints /\ c \notin started
           /\ call[c] \in Arriving \cup {"new", "parked"} => turn.answer[c] = "none"
           /\ v.cli \in Busy => c \in open /\ call[c] \in Arriving \cup {"args"}
           /\ (v.here <=> c \in DOMAIN cli.tools) /\ (v.asked => c \in srv.asked) /\ (v.partial => c \in srv.partial)
           /\ (v.here /\ c \in srv.asked => v.asked)
  <1>1. CallOK(c)
    BY DEF FoldInv
  <1>2. CASE c \in DOMAIN cli.tools
    <2>1. v = [here |-> TRUE, srv |-> srv.parts[cli.tools[c].pos].st, cli |-> cli.parts[cli.tools[c].pos].st,
               asked |-> c \in srv.asked, partial |-> c \in srv.partial]
      BY <1>2 DEF View
    <2>2. PICK x, y : x = srv.parts[cli.tools[c].pos].st /\ y = cli.parts[cli.tools[c].pos].st
      OBVIOUS
    <2>3. v = [here |-> TRUE, srv |-> x, cli |-> y, asked |-> c \in srv.asked, partial |-> c \in srv.partial]
      BY <2>1, <2>2
    <2>4. PICK A, P : A = srv.asked /\ P = srv.partial
      OBVIOUS
    <2>5. v = [here |-> TRUE, srv |-> x, cli |-> y, asked |-> c \in A, partial |-> c \in P]
      BY <2>3, <2>4
    <2>6. Seen(v, x, y, c, A, P)
      BY ONLY <2>5, Reading
    <2>7. v.here /\ (v.asked <=> c \in srv.asked) /\ (v.partial <=> c \in srv.partial)
      BY <2>4, <2>6 DEF Seen
    <2> QED
      BY <1>1, <1>2, <2>7 DEF CallOK
  <1>3. CASE c \notin DOMAIN cli.tools
    <2>1. v = Gone
      BY <1>3 DEF View
    <2>2. ~v.here /\ ~v.asked /\ ~v.partial
      BY <2>1 DEF Gone
    <2> QED
      BY <1>1, <1>3, <2>2 DEF CallOK
  <1> QED
    BY <1>2, <1>3

LEMMA ToolPartStartKeeps ==
    ASSUME FoldInv, NEW i \in Indexes, NEW c \in Calls, ToolPartStart(i, c)
    PROVE  FoldInv'
  <1>1. PICK ch : ch = Chunk("tool-input", "start", c, None)
    OBVIOUS
  <1>2. /\ turn.open /\ call[c] = "new" /\ WriteThrough(gate, open, <<ch>>)
        /\ stream' = [stream EXCEPT !.live[i] = [k |-> "tool", id |-> c]]
        /\ call' = [call EXCEPT ![c] = "started"] /\ started' = started \cup {c}
        /\ UNCHANGED <<turn, hints, sent>>
    BY <1>1 DEF ToolPartStart, Running, Emit
  <1>3. ch.k = "tool-input" /\ ch.op = "start" /\ ch.id = c
    BY <1>1 DEF Chunk
  <1>4. Types /\ Sim(srv, cli) /\ thread \in ThreadT
    BY <1>2, RunningFacts
  <1>5. /\ gate' = gate /\ After(srv, cli, ch, srv', cli') /\ ThreadKept(thread, thread')
        /\ open' = Observe(open, ch) /\ open' \ {c} = open \ {c}
    BY <1>2, <1>3, <1>4, WriteTool
  <1>6. c \in open'
    BY <1>3, <1>5 DEF Observe
  <1>7. PICK s, t, s2, t2, x : s = srv /\ t = cli /\ s2 = srv' /\ t2 = cli' /\ x = None
    OBVIOUS
  <1>8. s2 = ApplyChunk(s, Chunk("tool-input", "start", c, x)) /\ t2 = ReduceTurn(t, Chunk("tool-input", "start", c, x))
    BY <1>1, <1>5, <1>7 DEF After
  <1>9. Sim(s, t)
    BY <1>4, <1>7
  <1>10. /\ ToolStep(s, t, s2, t2, c) /\ View(s2, t2, c).here /\ View(s2, t2, c).partial
         /\ (View(s2, t2, c).asked <=> View(s, t, c).asked)
    <2>1. LET ch2 == Chunk("tool-input", "start", c, x)
              s3 == ApplyChunk(s, ch2)
              t3 == ReduceTurn(t, ch2)
          IN  /\ ToolStep(s, t, s3, t3, c) /\ View(s3, t3, c).here /\ View(s3, t3, c).partial
              /\ (View(s3, t3, c).asked <=> View(s, t, c).asked)
      BY ONLY <1>9, c \in Calls, StartTool
    <2> QED
      BY <1>8, <2>1
  <1>11. PICK v : v = View(srv, cli, c)
    OBVIOUS
  <1>12. PICK w : w = View(srv', cli', c)
    OBVIOUS
  <1>13. ~v.asked /\ turn.answer[c] = "none"
    BY <1>2, <1>11, CallNow
  <1>14. w.here /\ w.partial /\ ~w.asked
    BY <1>7, <1>10, <1>11, <1>12, <1>13
  <1>15. /\ Sim(srv', cli') /\ OthersSame(srv, cli, srv', cli', c) /\ TextSame(srv.parts, srv'.parts)
         /\ srv'.active = srv.active
    BY <1>7, <1>10 DEF ToolStep
  <1>16. /\ stream' \in StreamT /\ stream'.next = stream.next /\ stream'.pinned = stream.pinned
         /\ \A j \in Indexes : stream'.live[j] = stream.live[j] \/ ~Live(j)'
    <2>1. PICK z \in StreamT : z = stream
      BY <1>4 DEF Types
    <2>2. PICK y : y = [k |-> "tool", id |-> c]
      OBVIOUS
    <2>3. y \in LiveT /\ y.k = "tool"
      BY <2>2 DEF LiveT, Ids
    <2>4. PICK u : u = stream'
      OBVIOUS
    <2>5. LiveInto(z, i, y, u)
      BY <1>2, <2>1, <2>2, <2>4 DEF LiveInto
    <2>6. IsLive(z, i, y, u)
      BY ONLY <2>3, <2>5, z \in StreamT, i \in Indexes, StreamLive
    <2> QED
      BY <2>1, <2>3, <2>4, <2>6 DEF IsLive, Live, TextKinds
  <1>17. call'[c] = "started"
    BY <1>2, <1>4 DEF Types
  <1>18. CallOK(c)'
    BY <1>2, <1>6, <1>12, <1>13, <1>14, <1>17 DEF CallOK, Arriving, Due
  <1>19. "started" \in Kinds
    BY DEF Kinds
  <1> QED
    BY <1>2, <1>5, <1>15, <1>16, <1>18, <1>19, ToolKeeps

LEMMA ToolArgumentsKeeps ==
    ASSUME FoldInv, NEW c \in Calls, NEW x \in {"more", "last"}, ToolArguments(c, x)
    PROVE  FoldInv'
  <1>1. PICK ch : ch = Chunk("tool-input", "delta", c, x)
    OBVIOUS
  <1>2. PICK y : y = IF x = "more" THEN "half" ELSE "typed"
    OBVIOUS
  <1>3. /\ turn.open /\ call[c] \in Arriving /\ WriteThrough(gate, open, <<ch>>)
        /\ call' = [call EXCEPT ![c] = y] /\ started' = started \cup {c}
        /\ UNCHANGED <<turn, stream, hints, sent>>
    BY <1>1, <1>2 DEF ToolArguments, Running, Emit, Arriving
  <1>4. ch.k = "tool-input" /\ ch.op = "delta" /\ ch.id = c
    BY <1>1 DEF Chunk
  <1>5. Types /\ Sim(srv, cli) /\ thread \in ThreadT
    BY <1>3, RunningFacts
  <1>6. /\ gate' = gate /\ After(srv, cli, ch, srv', cli') /\ ThreadKept(thread, thread')
        /\ open' = Observe(open, ch) /\ open' \ {c} = open \ {c}
    BY <1>3, <1>4, <1>5, WriteTool
  <1>7. open' = open
    BY <1>4, <1>6 DEF Observe
  <1>8. PICK v : v = View(srv, cli, c)
    OBVIOUS
  <1>9. /\ v.here /\ v.partial /\ ~v.asked /\ c \in open /\ turn.answer[c] = "none"
        /\ c \in srv.partial /\ c \notin srv.asked
    BY <1>3, <1>8, CallNow
  <1>10. PICK s, t, s2, t2 : s = srv /\ t = cli /\ s2 = srv' /\ t2 = cli'
    OBVIOUS
  <1>11. Sim(s, t) /\ After(s, t, Chunk("tool-input", "delta", c, x), s2, t2) /\ c \in s.partial
    BY <1>1, <1>5, <1>6, <1>9, <1>10
  <1>12. ToolStep(s, t, s2, t2, c) /\ Seen(View(s2, t2, c), "input-streaming", "input-streaming", c, s.asked, s.partial)
    BY ONLY <1>11, DeltaTool
  <1>13. PICK w : w = View(srv', cli', c)
    OBVIOUS
  <1>14. w.here /\ w.partial /\ ~w.asked
    BY <1>9, <1>10, <1>12, <1>13 DEF Seen
  <1>15. /\ Sim(srv', cli') /\ OthersSame(srv, cli, srv', cli', c) /\ TextSame(srv.parts, srv'.parts)
         /\ srv'.active = srv.active
    BY <1>10, <1>12 DEF ToolStep
  <1>16. y \in {"half", "typed"} /\ y \in Kinds /\ y \in Arriving
    BY <1>2 DEF Kinds, Arriving
  <1>17. call'[c] = y
    BY <1>3, <1>5 DEF Types
  <1>18. CallOK(c)'
    BY <1>3, <1>7, <1>9, <1>13, <1>14, <1>16, <1>17 DEF CallOK, Arriving, Due
  <1>19. stream' \in StreamT
    BY <1>3, <1>5 DEF Types
  <1> QED
    BY <1>3, <1>6, <1>15, <1>16, <1>18, <1>19, ToolKeeps

LivesInto(z, l, u) == u = [z EXCEPT !.live = l]
HasLives(z, l, u) == u \in StreamT /\ u.next = z.next /\ u.pinned = z.pinned /\ u.live = l

LEMMA StreamLives ==
    ASSUME NEW z \in StreamT, NEW l \in [Indexes -> LiveT], NEW u, LivesInto(z, l, u)
    PROVE  HasLives(z, l, u)
  <1>1. PICK a \in Nat : a = z.steps
    BY StreamFields
  <1>2. PICK b \in Nat \cup {None} : b = z.id
    BY StreamFields
  <1>3. PICK n \in 1..(MaxParts + 1) : n = z.next
    BY StreamFields
  <1>4. PICK p \in [Indexes -> Nat \cup {None}] : p = z.pinned
    BY StreamFields
  <1>5. PICK o \in [Indexes -> LiveT] : o = z.live
    BY StreamFields
  <1>6. z = [steps |-> a, id |-> b, next |-> n, pinned |-> p, live |-> o]
    BY <1>1, <1>2, <1>3, <1>4, <1>5, StreamFields
  <1>7. u = [steps |-> a, id |-> b, next |-> n, pinned |-> p, live |-> l]
    BY ONLY <1>6, LivesInto(z, l, u) DEF LivesInto
  <1>8. u \in StreamT
    BY <1>7, StreamMade
  <1>9. u.next = n /\ u.pinned = p /\ u.live = l
    BY ONLY <1>7
  <1> QED
    BY <1>3, <1>4, <1>8, <1>9 DEF HasLives

\* The call's part ends where the run announces the call.
LEMMA CallEnds ==
    ASSUME stream \in StreamT, NEW c,
           stream' = [stream EXCEPT !.live = [i \in Indexes |->
             IF @[i] = [k |-> "tool", id |-> c] THEN [@[i] EXCEPT !.k = "ended"] ELSE @[i]]]
    PROVE  /\ stream' \in StreamT /\ stream'.next = stream.next /\ stream'.pinned = stream.pinned
           /\ \A i \in Indexes : stream'.live[i] = stream.live[i] \/ ~Live(i)'
  <1>1. PICK z \in StreamT : z = stream
    OBVIOUS
  <1>2. PICK o \in [Indexes -> LiveT] : o = z.live
    BY StreamFields
  <1>3. PICK l : l = [i \in Indexes |->
             IF o[i] = [k |-> "tool", id |-> c] THEN [o[i] EXCEPT !.k = "ended"] ELSE o[i]]
    OBVIOUS
  <1>4. \A i \in Indexes : o[i] \in LiveT /\ [o[i] EXCEPT !.k = "ended"] \in LiveT
                           /\ [o[i] EXCEPT !.k = "ended"].k = "ended"
    BY DEF LiveT
  <1>5. l \in [Indexes -> LiveT]
    BY <1>3, <1>4
  <1>6. \A i \in Indexes : l[i] = o[i] \/ l[i].k = "ended"
    BY <1>3, <1>4
  <1>7. PICK u : u = stream'
    OBVIOUS
  <1>8. LivesInto(z, l, u)
    BY <1>1, <1>2, <1>3, <1>7 DEF LivesInto
  <1>9. HasLives(z, l, u)
    BY ONLY <1>5, <1>8, z \in StreamT, StreamLives
  <1> QED
    BY <1>1, <1>2, <1>6, <1>7, <1>9 DEF HasLives, Live, TextKinds

LEMMA CallToolKeeps ==
    ASSUME FoldInv, NEW c \in Calls, NEW valid, CallTool(c, valid)
    PROVE  FoldInv'
  <1>1. PICK op : op = IF valid THEN "available" ELSE "error"
    OBVIOUS
  <1>2. PICK ch : ch = Chunk("tool-input", op, c, None)
    OBVIOUS
  <1>3. PICK y : y = IF valid THEN "args" ELSE "refused"
    OBVIOUS
  <1>4. /\ turn.open /\ call[c] \in Arriving \cup {"answered"} /\ WriteThrough(gate, open, <<ch>>)
        /\ call[c] = "answered" => valid
        /\ call' = [call EXCEPT ![c] = y] /\ started' = started \cup {c}
        /\ UNCHANGED <<turn, hints, sent>>
    BY <1>1, <1>2, <1>3 DEF CallTool, Running, Emit, Arriving
  <1>5. ch.k = "tool-input" /\ ch.op = op /\ ch.id = c
    BY <1>2 DEF Chunk
  <1>6. Types /\ Sim(srv, cli) /\ thread \in ThreadT
    BY <1>4, RunningFacts
  <1>7. /\ gate' = gate /\ After(srv, cli, ch, srv', cli') /\ ThreadKept(thread, thread')
        /\ open' = Observe(open, ch) /\ open' \ {c} = open \ {c}
    BY <1>4, <1>5, <1>6, WriteTool
  <1>8. PICK v : v = View(srv, cli, c)
    OBVIOUS
  <1>9. PICK w : w = View(srv', cli', c)
    OBVIOUS
  <1>10. PICK s, t, s2, t2, x : s = srv /\ t = cli /\ s2 = srv' /\ t2 = cli' /\ x = None
    OBVIOUS
  <1>11. Sim(s, t) /\ After(s, t, Chunk("tool-input", op, c, x), s2, t2)
    BY <1>2, <1>6, <1>7, <1>10
  <1>12. call'[c] = y
    BY <1>4, <1>6 DEF Types
  <1>13. /\ stream' \in StreamT /\ stream'.next = stream.next /\ stream'.pinned = stream.pinned
         /\ \A i \in Indexes : stream'.live[i] = stream.live[i] \/ ~Live(i)'
    <2>1. stream \in StreamT
      BY <1>6 DEF Types
    <2>2. stream' = [stream EXCEPT !.live = [i \in Indexes |->
             IF @[i] = [k |-> "tool", id |-> c] THEN [@[i] EXCEPT !.k = "ended"] ELSE @[i]]]
      BY DEF CallTool
    <2> QED
      BY <2>1, <2>2, CallEnds
  <1>14. ToolStep(s, t, s2, t2, c) /\ CallOK(c)' /\ y \in Kinds
    <2>1. CASE valid
      <3>1. op = "available" /\ y = "args" /\ y \in Kinds
        BY <1>1, <1>3, <2>1 DEF Kinds
      <3>2. Sim(s, t) /\ After(s, t, Chunk("tool-input", "available", c, x), s2, t2)
        BY <1>11, <3>1
      <3>3. ToolStep(s, t, s2, t2, c) /\ Seen(View(s2, t2, c), "input-available", "input-available", c, s.asked, s.partial)
        BY ONLY <3>2, c \in Calls, AvailableTool
      <3>4. w.here /\ w.srv = "input-available" /\ (w.asked <=> c \in srv.asked)
        BY <1>9, <1>10, <3>3 DEF Seen
      <3>5. c \in open'
        BY <1>5, <1>7, <3>1 DEF Observe
      <3>6. turn.answer[c] = "no" => w.asked
        <4>1. turn.answer[c] = "no" => call[c] = "answered"
          BY <1>4, <1>8, CallNow
        <4>2. turn.answer[c] = "no" => v.asked
          BY <1>4, <1>8, <4>1, CallNow
        <4>3. v.asked => c \in srv.asked
          BY <1>4, <1>8, CallNow
        <4> QED
          BY <3>4, <4>2, <4>3
      <3>7. CallOK(c)'
        BY <1>4, <1>9, <1>12, <3>1, <3>4, <3>5, <3>6 DEF CallOK, Arriving, Due
      <3> QED
        BY <3>1, <3>3, <3>7
    <2>2. CASE ~valid
      <3>1. op = "error" /\ y = "refused" /\ y \in Kinds /\ call[c] \in Arriving
        BY <1>1, <1>3, <1>4, <2>2 DEF Kinds
      <3>2. Sim(s, t) /\ After(s, t, Chunk("tool-input", "error", c, x), s2, t2)
        BY <1>11, <3>1
      <3>3. v.here /\ ~v.asked
        BY <1>4, <1>8, <3>1, CallNow
      <3>4. c \in DOMAIN t.tools /\ c \notin s.asked
        BY <1>4, <1>8, <1>10, <3>3, CallNow
      <3>5. ToolStep(s, t, s2, t2, c) /\ Seen(View(s2, t2, c), "output-error", "output-error", c, s.asked, s.partial)
        BY ONLY <3>2, <3>4, ErrorTool
      <3>6. w.here /\ w.cli = "output-error"
        BY <1>9, <1>10, <3>5 DEF Seen
      <3>7. CallOK(c)'
        BY <1>4, <1>9, <1>12, <3>1, <3>6 DEF CallOK, Arriving, Due, Busy
      <3> QED
        BY <3>1, <3>5, <3>7
    <2> QED
      BY <2>1, <2>2
  <1>15. /\ Sim(srv', cli') /\ OthersSame(srv, cli, srv', cli', c) /\ TextSame(srv.parts, srv'.parts)
         /\ srv'.active = srv.active
    BY <1>10, <1>14 DEF ToolStep
  <1> QED
    BY <1>4, <1>7, <1>13, <1>14, <1>15, ToolKeeps

\* A log whose call c reads as an output says, or is not there.
Settled(l, c) == View(l.srv, l.cli, c).cli \notin Busy

\* The folds and the message cutter in a state a chunk can follow.
GoodLog(l) == Sim(l.srv, l.cli) /\ l.thread \in ThreadT

LEMMA TouchGood ==
    ASSUME NEW l, NEW m, NEW c, TouchLog(l, m, c)
    PROVE  GoodLog(m)
  BY DEF TouchLog, GoodLog, ThreadKept

LEMMA TouchSelf ==
    ASSUME NEW l, NEW c, GoodLog(l)
    PROVE  TouchLog(l, l, c)
  BY DEF TouchLog, GoodLog, ThreadKept, OthersSame, TextSame

\* One chunk about the call c.
LEMMA TouchOnce ==
    ASSUME NEW l, NEW c, NEW ch, NEW m, GoodLog(l),
           ch.k \in {"tool-input", "tool-output", "approval", "tool-summary"}, ch.id = c, m = LogEntry(l, ch),
           ToolStep(l.srv, l.cli, m.srv, m.cli, c)
    PROVE  TouchLog(l, m, c)
  <1>1. l.thread \in ThreadT
    BY DEF GoodLog
  <1>2. ThreadKept(l.thread, m.thread) /\ m.open \ {c} = l.open \ {c}
    BY <1>1, LogTool
  <1> QED
    BY <1>2 DEF TouchLog, ToolStep

LEMMA LogAfter ==
    ASSUME NEW l, NEW ch, NEW m, GoodLog(l),
           ch.k \in {"tool-input", "tool-output", "approval", "tool-summary"}, m = LogEntry(l, ch)
    PROVE  After(l.srv, l.cli, ch, m.srv, m.cli)
  <1>1. l.thread \in ThreadT
    BY DEF GoodLog
  <1> QED
    BY <1>1, LogTool

\* The output of a call, wherever the call stands.
LEMMA LogOutput ==
    ASSUME NEW l, NEW c \in Calls, NEW op \in {"available", "error", "denied"}, NEW m, GoodLog(l),
           m = LogEntry(l, Chunk("tool-output", op, c, None)),
           op = "denied" => c \in l.srv.asked /\ c \in DOMAIN l.cli.tools,
           op # "error" => View(l.srv, l.cli, c).srv \notin {"input-streaming", "output-error"}
    PROVE  TouchLog(l, m, c) /\ Settled(m, c) /\ (View(m.srv, m.cli, c).asked <=> View(l.srv, l.cli, c).asked)
  <1>1. PICK x : x = None
    OBVIOUS
  <1>2. PICK ch : ch = Chunk("tool-output", op, c, x)
    OBVIOUS
  <1>3. ch.k = "tool-output" /\ ch.id = c /\ m = LogEntry(l, ch)
    BY <1>1, <1>2 DEF Chunk
  <1>4. After(l.srv, l.cli, ch, m.srv, m.cli)
    BY <1>3, LogAfter
  <1>5. PICK s, t, s2, t2 : s = l.srv /\ t = l.cli /\ s2 = m.srv /\ t2 = m.cli
    OBVIOUS
  <1>6. Sim(s, t) /\ After(s, t, Chunk("tool-output", op, c, x), s2, t2)
    BY <1>2, <1>4, <1>5 DEF GoodLog
  <1>7. CASE c \in DOMAIN t.tools
    <2>1. (op = "denied" => c \in s.asked) /\ (op # "error" => View(s, t, c).srv \notin {"input-streaming", "output-error"})
      BY <1>5
    <2>2. ToolStep(s, t, s2, t2, c) /\ Seen(View(s2, t2, c), OutputState[op], OutputState[op], c, s.asked, s.partial)
      BY ONLY <1>6, <1>7, <2>1, op \in {"available", "error", "denied"}, OutputTool
    <2>3. View(s2, t2, c).cli = OutputState[op] /\ (View(s2, t2, c).asked <=> c \in s.asked)
      BY <2>2 DEF Seen
    <2>4. OutputState[op] \notin Busy
      BY DEF OutputState, Busy
    <2>5. View(s, t, c).asked <=> c \in s.asked
      <3>1. PICK a, b : a = s.parts[t.tools[c].pos].st /\ b = t.parts[t.tools[c].pos].st
        OBVIOUS
      <3>2. PICK A, P : A = s.asked /\ P = s.partial
        OBVIOUS
      <3>3. View(s, t, c) = [here |-> TRUE, srv |-> a, cli |-> b, asked |-> c \in A, partial |-> c \in P]
        BY <1>7, <3>1, <3>2 DEF View
      <3>4. PICK v : v = View(s, t, c)
        OBVIOUS
      <3>5. v = [here |-> TRUE, srv |-> a, cli |-> b, asked |-> c \in A, partial |-> c \in P]
        BY <3>3, <3>4
      <3>6. Seen(v, a, b, c, A, P)
        BY ONLY <3>5, Reading
      <3> QED
        BY <3>2, <3>4, <3>6 DEF Seen
    <2>6. TouchLog(l, m, c)
      BY <1>3, <1>5, <2>2, TouchOnce
    <2> QED
      BY <1>5, <2>3, <2>4, <2>5, <2>6 DEF Settled
  <1>8. CASE c \notin DOMAIN t.tools
    <2>1. s2 = s /\ t2 = t
      BY ONLY <1>6, <1>8, OutputNowhere
    <2>2. ToolStep(s, t, s2, t2, c)
      BY <1>6, <2>1 DEF ToolStep, OthersSame, TextSame
    <2>3. TouchLog(l, m, c)
      BY <1>3, <1>5, <2>2, TouchOnce
    <2>4. View(m.srv, m.cli, c) = Gone /\ View(l.srv, l.cli, c) = Gone
      BY <1>5, <1>8, <2>1 DEF View
    <2> QED
      BY <2>3, <2>4 DEF Settled, Gone, Busy
  <1> QED
    BY <1>7, <1>8

\* A summary line changes nothing else of a call.
LEMMA LogSummary ==
    ASSUME NEW l, NEW c, NEW x \in Words, NEW m, GoodLog(l), m = LogEntry(l, Chunk("tool-summary", "put", c, x))
    PROVE  TouchLog(l, m, c) /\ (c \in Calls => View(m.srv, m.cli, c) = View(l.srv, l.cli, c))
  <1>1. PICK ch : ch = Chunk("tool-summary", "put", c, x)
    OBVIOUS
  <1>2. ch.k = "tool-summary" /\ ch.id = c /\ m = LogEntry(l, ch)
    BY <1>1 DEF Chunk
  <1>3. After(l.srv, l.cli, ch, m.srv, m.cli)
    BY <1>2, LogAfter
  <1>4. PICK s, t, s2, t2 : s = l.srv /\ t = l.cli /\ s2 = m.srv /\ t2 = m.cli
    OBVIOUS
  <1>5. Sim(s, t) /\ After(s, t, Chunk("tool-summary", "put", c, x), s2, t2)
    BY <1>1, <1>3, <1>4 DEF GoodLog
  <1>6. Sim(s2, t2) /\ ViewsSame(s, t, s2, t2) /\ TextSame(s.parts, s2.parts) /\ s2.active = s.active
    BY ONLY <1>5, x \in Words, SummaryTool
  <1>7. ToolStep(s, t, s2, t2, c)
    BY <1>6 DEF ToolStep, ViewsSame, OthersSame
  <1>8. TouchLog(l, m, c)
    BY <1>2, <1>4, <1>7, TouchOnce
  <1> QED
    BY <1>4, <1>6, <1>8 DEF ViewsSame

LEMMA AskedView ==
    ASSUME NEW s, NEW t, Sim(s, t), NEW c
    PROVE  (View(s, t, c).asked <=> c \in s.asked) /\ (View(s, t, c).here <=> c \in DOMAIN t.tools)
  <1>1. PICK v : v = View(s, t, c)
    OBVIOUS
  <1>2. CASE c \in DOMAIN t.tools
    <2>1. PICK a, b : a = s.parts[t.tools[c].pos].st /\ b = t.parts[t.tools[c].pos].st
      OBVIOUS
    <2>2. PICK A, P : A = s.asked /\ P = s.partial
      OBVIOUS
    <2>3. View(s, t, c) = [here |-> TRUE, srv |-> a, cli |-> b, asked |-> c \in A, partial |-> c \in P]
      BY <1>2, <2>1, <2>2 DEF View
    <2>4. v = [here |-> TRUE, srv |-> a, cli |-> b, asked |-> c \in A, partial |-> c \in P]
      BY <1>1, <2>3
    <2>5. Seen(v, a, b, c, A, P)
      BY ONLY <2>4, Reading
    <2> QED
      BY <1>1, <1>2, <2>2, <2>5 DEF Seen
  <1>3. CASE c \notin DOMAIN t.tools
    <2>1. s.asked \subseteq DOMAIN t.tools
      BY DEF Sim, Tracks
    <2> QED
      BY <1>3, <2>1 DEF View, Gone
  <1> QED
    BY <1>2, <1>3

\* An output's call, announced for it.
LEMMA LogAnnounce ==
    ASSUME NEW l, NEW c \in Calls, NEW m, GoodLog(l),
           m = LogAll(l, <<Chunk("tool-input", "start", c, None), Chunk("tool-input", "available", c, None)>>)
    PROVE  /\ TouchLog(l, m, c) /\ View(m.srv, m.cli, c).here /\ View(m.srv, m.cli, c).srv = "input-available"
           /\ (View(m.srv, m.cli, c).asked <=> View(l.srv, l.cli, c).asked)
  <1>1. PICK x : x = None
    OBVIOUS
  <1>2. PICK a : a = Chunk("tool-input", "start", c, x)
    OBVIOUS
  <1>3. PICK b : b = Chunk("tool-input", "available", c, x)
    OBVIOUS
  <1>4. a.k = "tool-input" /\ a.id = c /\ b.k = "tool-input" /\ b.id = c
    BY <1>2, <1>3 DEF Chunk
  <1>5. PICK n : n = LogEntry(l, a)
    OBVIOUS
  <1>6. m = LogEntry(n, b)
    <2>1. m = LogAll(l, <<a, b>>)
      BY <1>1, <1>2, <1>3
    <2> QED
      BY <1>5, <2>1, LogTwo
  <1>7. After(l.srv, l.cli, a, n.srv, n.cli)
    BY <1>4, <1>5, LogAfter
  <1>8. PICK s, t, s1, t1, s2, t2 : s = l.srv /\ t = l.cli /\ s1 = n.srv /\ t1 = n.cli /\ s2 = m.srv /\ t2 = m.cli
    OBVIOUS
  <1>9. Sim(s, t)
    BY <1>8 DEF GoodLog
  <1>10. s1 = ApplyChunk(s, Chunk("tool-input", "start", c, x)) /\ t1 = ReduceTurn(t, Chunk("tool-input", "start", c, x))
    BY <1>2, <1>7, <1>8 DEF After
  <1>11. ToolStep(s, t, s1, t1, c) /\ (View(s1, t1, c).asked <=> View(s, t, c).asked)
    <2>1. LET ch2 == Chunk("tool-input", "start", c, x)
              s3 == ApplyChunk(s, ch2)
              t3 == ReduceTurn(t, ch2)
          IN  /\ ToolStep(s, t, s3, t3, c) /\ View(s3, t3, c).here /\ View(s3, t3, c).partial
              /\ (View(s3, t3, c).asked <=> View(s, t, c).asked)
      BY ONLY <1>9, c \in Calls, StartTool
    <2> QED
      BY <1>10, <2>1
  <1>12. TouchLog(l, n, c)
    BY <1>4, <1>5, <1>8, <1>11, TouchOnce
  <1>13. GoodLog(n)
    BY <1>12, TouchGood
  <1>14. After(n.srv, n.cli, b, m.srv, m.cli)
    BY <1>4, <1>6, <1>13, LogAfter
  <1>15. Sim(s1, t1) /\ After(s1, t1, Chunk("tool-input", "available", c, x), s2, t2)
    BY <1>3, <1>8, <1>13, <1>14 DEF GoodLog
  <1>16. ToolStep(s1, t1, s2, t2, c) /\ Seen(View(s2, t2, c), "input-available", "input-available", c, s1.asked, s1.partial)
    BY ONLY <1>15, c \in Calls, AvailableTool
  <1>17. TouchLog(n, m, c)
    BY <1>4, <1>6, <1>8, <1>13, <1>16, TouchOnce
  <1>18. TouchLog(l, m, c)
    BY <1>12, <1>17, TouchTrans
  <1>19. View(s1, t1, c).asked <=> c \in s1.asked
    BY <1>15, AskedView
  <1>20. /\ View(s2, t2, c).here /\ View(s2, t2, c).srv = "input-available"
         /\ (View(s2, t2, c).asked <=> c \in s1.asked)
    BY <1>16 DEF Seen
  <1> QED
    BY <1>8, <1>11, <1>18, <1>19, <1>20

LEMMA TwoChunks == \A a, b : <<a>> \o <<b>> = <<a, b>>
  <1>1. TAKE a, b
  <1>2. PICK S : S = {a, b}
    OBVIOUS
  <1>3. a \in S /\ b \in S
    BY <1>2
  <1>4. <<a>> \in Seq(S) /\ <<b>> \in Seq(S) /\ <<a, b>> \in Seq(S)
    BY <1>3
  <1>5. PICK p, q : p = <<a>> /\ q = <<b>>
    OBVIOUS
  <1>6. p \in Seq(S) /\ q \in Seq(S) /\ Len(p) = 1 /\ Len(q) = 1 /\ p[1] = a /\ q[1] = b
    BY <1>4, <1>5
  <1>7. PICK r : r = p \o q
    OBVIOUS
  <1>8. r \in Seq(S) /\ Len(r) = 2 /\ r[1] = a /\ r[2] = b
    <2>1. /\ p \o q \in Seq(S) /\ Len(p \o q) = Len(p) + Len(q)
          /\ \A i \in 1..(Len(p) + Len(q)) : (p \o q)[i] = IF i <= Len(p) THEN p[i] ELSE q[i - Len(p)]
      BY ONLY <1>6, ConcatProperties
    <2>2. \A i \in 1..2 : r[i] = IF i <= 1 THEN p[i] ELSE q[i - 1]
      BY <1>6, <1>7, <2>1
    <2> QED
      BY <1>6, <1>7, <2>1, <2>2
  <1>9. PICK u \in Seq(S) : u = <<a, b>>
    BY <1>4
  <1>10. Len(u) = 2 /\ u[1] = a /\ u[2] = b
    BY <1>9
  <1>11. r = u
    <2>1. r \in Seq(S) /\ Len(r) = Len(u) /\ \A i \in 1..Len(r) : r[i] = u[i]
      BY <1>8, <1>10
    <2> QED
      BY ONLY <2>1, u \in Seq(S), SeqEqual
  <1> QED
    BY <1>5, <1>7, <1>9, <1>11

\* The output and its summary line, in either order.
LEMMA LogResult ==
    ASSUME NEW l, NEW c \in Calls, NEW op \in {"available", "error", "denied"}, NEW line \in {"none", "ok", "corrected"},
           NEW m, GoodLog(l), NEW a, a = Chunk("tool-output", op, c, None),
           NEW b, b = Chunk("tool-summary", "put", c, line),
           op = "denied" => View(l.srv, l.cli, c).asked,
           op # "error" => View(l.srv, l.cli, c).srv \notin {"input-streaming", "output-error"},
           m = LogAll(l, CASE line = "none" -> <<a>> [] line = "ok" -> <<b, a>> [] line = "corrected" -> <<a, b>>)
    PROVE  TouchLog(l, m, c) /\ Settled(m, c)
  <1>1. line \in Words
    BY DEF Words
  <1>2. ASSUME NEW n, NEW o, GoodLog(n), View(n.srv, n.cli, c) = View(l.srv, l.cli, c), o = LogEntry(n, a)
        PROVE  TouchLog(n, o, c) /\ Settled(o, c)
    <2>1. o = LogEntry(n, Chunk("tool-output", op, c, None))
      BY <1>2
    <2>2. View(n.srv, n.cli, c).asked => c \in n.srv.asked
      BY <1>2, AskedView DEF GoodLog
    <2>3. n.srv.asked \subseteq DOMAIN n.cli.tools
      BY <1>2, Zenon DEF GoodLog, Sim, Tracks
    <2>4. op = "denied" => c \in n.srv.asked /\ c \in DOMAIN n.cli.tools
      BY <1>2, <2>2, <2>3
    <2>5. op # "error" => View(n.srv, n.cli, c).srv \notin {"input-streaming", "output-error"}
      BY <1>2
    <2> QED
      BY <1>2, <2>1, <2>4, <2>5, LogOutput
  <1>3. ASSUME NEW n, NEW o, GoodLog(n), o = LogEntry(n, b)
        PROVE  TouchLog(n, o, c) /\ View(o.srv, o.cli, c) = View(n.srv, n.cli, c)
    BY <1>1, <1>3, LogSummary
  <1>4. CASE line = "none"
    <2>1. m = LogEntry(l, a)
      BY <1>4, LogOne
    <2> QED
      BY <1>2, <2>1
  <1>5. CASE line = "ok"
    <2>1. PICK n : n = LogEntry(l, b)
      OBVIOUS
    <2>2. m = LogEntry(n, a)
      BY <1>5, <2>1, LogTwo
    <2>3. TouchLog(l, n, c) /\ View(n.srv, n.cli, c) = View(l.srv, l.cli, c)
      BY <1>3, <2>1
    <2>4. TouchLog(n, m, c) /\ Settled(m, c)
      BY <1>2, <2>2, <2>3, TouchGood
    <2> QED
      BY <2>3, <2>4, TouchTrans
  <1>6. CASE line = "corrected"
    <2>1. PICK n : n = LogEntry(l, a)
      OBVIOUS
    <2>2. m = LogEntry(n, b)
      BY <1>6, <2>1, LogTwo
    <2>3. TouchLog(l, n, c) /\ Settled(n, c)
      BY <1>2, <2>1
    <2>4. TouchLog(n, m, c) /\ View(m.srv, m.cli, c) = View(n.srv, n.cli, c)
      BY <1>3, <2>2, <2>3, TouchGood
    <2>5. Settled(m, c)
      BY <2>3, <2>4 DEF Settled
    <2> QED
      BY <2>3, <2>4, <2>5, TouchTrans
  <1> QED
    BY <1>4, <1>5, <1>6

LEMMA ToolResultKeeps ==
    ASSUME FoldInv, NEW c \in Calls, NEW op \in {"available", "error", "denied"},
           NEW line \in {"none", "ok", "corrected"}, ToolResult(c, op, line)
    PROVE  FoldInv'
  <1>1. PICK a : a = Chunk("tool-output", op, c, None)
    OBVIOUS
  <1>2. PICK b : b = Chunk("tool-summary", "put", c, line)
    OBVIOUS
  <1>3. PICK r : r = CASE line = "none" -> <<a>> [] line = "ok" -> <<b, a>> [] line = "corrected" -> <<a, b>>
    OBVIOUS
  <1>4. PICK y : y = Synthesized(c)
    OBVIOUS
  <1>5. /\ turn.open /\ call[c] \in {"args", "refused", "answered"} /\ op \in OutcomesOf(c)
        /\ WriteThrough(gate, open, y \o r)
        /\ started' = started \cup {c} /\ call' = [call EXCEPT ![c] = "settled"]
        /\ UNCHANGED <<turn, stream, hints, sent>>
    <2>1. PICK u, w : u = <<b>> \o <<a>> /\ w = <<a>> \o <<b>>
      OBVIOUS
    <2>2. u = <<b, a>> /\ w = <<a, b>>
      <3>1. <<b>> \o <<a>> = <<b, a>> /\ <<a>> \o <<b>> = <<a, b>>
        BY TwoChunks
      <3> QED
        BY ONLY <2>1, <3>1
    <2>3. r = CASE line = "none" -> <<a>> [] line = "ok" -> u [] line = "corrected" -> w
      BY <1>3, <2>2
    <2>4. /\ turn.open /\ call[c] \in {"args", "refused", "answered"} /\ op \in OutcomesOf(c)
          /\ started' = started \cup {c} /\ call' = [call EXCEPT ![c] = "settled"]
          /\ UNCHANGED <<turn, stream, hints, sent>>
      BY DEF ToolResult, Running
    <2>5. WriteThrough(gate, open, Synthesized(c) \o
              CASE line = "none" -> <<a>> [] line = "ok" -> <<b>> \o <<a>> [] line = "corrected" -> <<a>> \o <<b>>)
      BY <1>1, <1>2 DEF ToolResult, Emit
    <2>6. WriteThrough(gate, open, y \o r)
      BY ONLY <1>4, <2>1, <2>3, <2>5
    <2> QED
      BY <2>4, <2>6
  <1>6. Types /\ Sim(srv, cli) /\ thread \in ThreadT
    BY <1>5, RunningFacts
  <1>7. PICK d : d = Chunk("tool-input", "start", c, None)
    OBVIOUS
  <1>8. PICK e : e = Chunk("tool-input", "available", c, None)
    OBVIOUS
  <1>9. PICK S : S = {a, b, d, e}
    OBVIOUS
  <1>10. \A ch \in S : ch.k \notin TextKinds
    BY <1>1, <1>2, <1>7, <1>8, <1>9 DEF Chunk, TextKinds
  <1>11. r \in Seq(S)
    <2>1. a \in S /\ b \in S
      BY <1>9
    <2>2. <<a>> \in Seq(S) /\ <<b, a>> \in Seq(S) /\ <<a, b>> \in Seq(S)
      BY <2>1
    <2>3. CASE line = "none"
      BY <1>3, <2>2, <2>3
    <2>4. CASE line = "ok"
      BY <1>3, <2>2, <2>4
    <2>5. CASE line = "corrected"
      BY <1>3, <2>2, <2>5
    <2> QED
      BY <2>3, <2>4, <2>5
  <1>12. y = IF c \in started \/ c \notin hints THEN <<>> ELSE <<d, e>>
    BY <1>4, <1>7, <1>8 DEF Synthesized
  <1>13. y \in Seq(S)
    <2>1. d \in S /\ e \in S
      BY <1>9
    <2>2. <<>> \in Seq(S) /\ <<d, e>> \in Seq(S)
      BY <2>1
    <2> QED
      BY <1>12, <2>2
  <1>14. y \o r \in Seq(S) /\ \A i \in 1..Len(y \o r) : (y \o r)[i].k \notin TextKinds
    BY <1>10, <1>11, <1>13
  <1>15. PICK l : l = Log(open)
    OBVIOUS
  <1>16. l.srv = srv /\ l.cli = cli /\ l.thread = thread /\ l.open = open
    BY <1>15 DEF Log
  <1>17. GoodLog(l)
    BY <1>6, <1>16 DEF GoodLog
  <1>18. PICK n : n = LogAll(l, y \o r)
    OBVIOUS
  <1>19. gate' = gate /\ srv' = n.srv /\ cli' = n.cli /\ thread' = n.thread /\ open' = n.open
    <2>1. PICK q : q = y \o r
      OBVIOUS
    <2>2. q \in Seq(S) /\ (\A i \in 1..Len(q) : q[i].k \notin TextKinds) /\ WriteThrough(gate, open, q)
      BY <1>5, <1>14, <2>1
    <2>3. n = LogAll(Log(open), q)
      BY <1>15, <1>18, <2>1
    <2> QED
      BY ONLY <2>2, <2>3, WritePlain
  <1>20. PICK m : m = LogAll(l, y)
    OBVIOUS
  <1>21. n = LogAll(m, r)
    BY <1>11, <1>13, <1>18, <1>20, LogConcat
  <1>22. PICK v : v = View(srv, cli, c)
    OBVIOUS
  <1>23. v = View(l.srv, l.cli, c)
    BY <1>16, <1>22
  <1>24. /\ call[c] = "args" => v.srv = "input-available"
         /\ call[c] \in {"answered", "args"} /\ turn.answer[c] = "no" => v.asked
         /\ call[c] = "answered" => c \in hints /\ c \notin started
    BY <1>5, <1>22, CallNow
  <1>25. /\ op = "denied" => call[c] # "refused" /\ turn.answer[c] = "no"
         /\ op # "error" => call[c] # "refused"
    BY <1>5 DEF OutcomesOf
  <1>26. PICK w : w = View(m.srv, m.cli, c)
    OBVIOUS
  <1>27. /\ TouchLog(l, m, c) /\ (w.asked <=> v.asked)
         /\ w.srv = "input-available" \/ (w.srv = v.srv /\ call[c] # "answered")
    <2>1. CASE y = <<>>
      <3>1. m = l
        BY <1>20, <2>1, LogNone
      <3>2. w = v
        BY <1>23, <1>26, <3>1
      <3>3. ~(c \in hints /\ c \notin started)
        BY <1>12, <2>1
      <3> QED
        BY <1>17, <1>24, <3>1, <3>2, <3>3, TouchSelf
    <2>2. CASE y = <<d, e>>
      <3>1. m = LogAll(l, <<Chunk("tool-input", "start", c, None), Chunk("tool-input", "available", c, None)>>)
        BY <1>7, <1>8, <1>20, <2>2
      <3> QED
        BY <1>17, <1>23, <1>26, <3>1, LogAnnounce
    <2> QED
      BY <1>12, <2>1, <2>2
  <1>28. GoodLog(m)
    BY <1>27, TouchGood
  <1>29. op = "denied" => View(m.srv, m.cli, c).asked
    BY <1>5, <1>24, <1>25, <1>26, <1>27
  <1>30. op # "error" => View(m.srv, m.cli, c).srv \notin {"input-streaming", "output-error"}
    BY <1>5, <1>24, <1>25, <1>26, <1>27
  <1>31. TouchLog(m, n, c) /\ Settled(n, c)
    <2>1. n = LogAll(m, CASE line = "none" -> <<a>> [] line = "ok" -> <<b, a>> [] line = "corrected" -> <<a, b>>)
      BY <1>3, <1>21
    <2> QED
      BY ONLY <1>1, <1>2, <1>28, <1>29, <1>30, <2>1, c \in Calls, op \in {"available", "error", "denied"},
              line \in {"none", "ok", "corrected"}, LogResult
  <1>32. TouchLog(l, n, c)
    BY <1>27, <1>31, TouchTrans
  <1>33. /\ Sim(srv', cli') /\ OthersSame(srv, cli, srv', cli', c) /\ TextSame(srv.parts, srv'.parts)
         /\ srv'.active = srv.active /\ ThreadKept(thread, thread') /\ open' \ {c} = open \ {c}
    BY <1>16, <1>19, <1>32 DEF TouchLog
  <1>34. View(srv', cli', c).cli \notin Busy
    BY <1>19, <1>31 DEF Settled
  <1>35. call'[c] = "settled" /\ "settled" \in Kinds
    BY <1>5, <1>6 DEF Types, Kinds
  <1>36. CallOK(c)'
    BY <1>5, <1>34, <1>35 DEF CallOK, Arriving, Due
  <1>37. stream' \in StreamT
    BY <1>5, <1>6 DEF Types
  <1> QED
    BY <1>5, <1>19, <1>33, <1>35, <1>36, <1>37, ToolKeeps

-----------------------------------------------------------------------------
(* How a turn ends with chunks about several calls. *)

\* The set of chunks made for finitely many calls is finite, in whatever order they are sent.
LEMMA CallChunks ==
    ASSUME NEW k, NEW op, NEW S \in SUBSET Calls
    PROVE  IsFiniteSet({Chunk(k, op, c, None) : c \in S})
  <1>1. IsFiniteSet(S)
    BY FoldIds, FS_Subset
  <1>2. PICK f : f = [c \in S |-> Chunk(k, op, c, None)]
    OBVIOUS
  <1>3. PICK T : T = {Chunk(k, op, c, None) : c \in S}
    OBVIOUS
  <1>4. f \in Surjection(S, T)
    BY <1>2, <1>3 DEF Surjection
  <1>5. IsFiniteSet(T)
    BY <1>1, <1>4, FS_Surjection
  <1> QED
    BY <1>3, <1>5

\* A log in which only calls changed.
CallsLog(l, m) ==
    /\ GoodLog(m) /\ TextSame(l.srv.parts, m.srv.parts) /\ ThreadKept(l.thread, m.thread)
    /\ l.open \subseteq Calls => m.open \subseteq Calls

LEMMA CallsSelf ==
    ASSUME NEW l, GoodLog(l)
    PROVE  CallsLog(l, l)
  BY DEF CallsLog, GoodLog, TextSame, ThreadKept

LEMMA CallsTouch ==
    ASSUME NEW l, NEW m, NEW n, NEW c \in Calls, CallsLog(l, m), TouchLog(m, n, c)
    PROVE  CallsLog(l, n)
  <1>1. GoodLog(n)
    BY TouchGood
  <1>2. TextSame(l.srv.parts, n.srv.parts)
    BY TextTrans DEF CallsLog, TouchLog
  <1>3. ThreadKept(l.thread, n.thread)
    BY ThreadTrans DEF CallsLog, TouchLog
  <1>4. l.open \subseteq Calls => n.open \subseteq Calls
    BY DEF CallsLog, TouchLog
  <1> QED
    BY <1>1, <1>2, <1>3, <1>4 DEF CallsLog

LEMMA CallsQuiet ==
    ASSUME NEW l, NEW m, NEW n, CallsLog(l, m), QuietLog(m, n)
    PROVE  CallsLog(l, n) /\ ViewsSame(m.srv, m.cli, n.srv, n.cli)
  <1>1. GoodLog(n)
    BY DEF QuietLog, Quiet, ThreadKept, GoodLog
  <1>2. TextSame(l.srv.parts, n.srv.parts)
    BY TextTrans DEF CallsLog, QuietLog, Quiet
  <1>3. ThreadKept(l.thread, n.thread)
    BY ThreadTrans DEF CallsLog, QuietLog
  <1>4. l.open \subseteq Calls => n.open \subseteq Calls
    BY DEF CallsLog, QuietLog
  <1> QED
    BY <1>1, <1>2, <1>3, <1>4 DEF CallsLog, QuietLog, Quiet

\* The calls of D are closed, and no other call has changed.
Closed(l, m, D) ==
    /\ CallsLog(l, m)
    /\ \A d \in Calls :
          /\ View(m.srv, m.cli, d).asked <=> View(l.srv, l.cli, d).asked
          /\ d \in D => Settled(m, d)
          /\ d \notin D => View(m.srv, m.cli, d) = View(l.srv, l.cli, d)

LEMMA CloseOne ==
    ASSUME NEW l, NEW m, NEW D, Closed(l, m, D), NEW c \in Calls, NEW n,
           n = LogEntry(m, Chunk("tool-output", "error", c, None))
    PROVE  Closed(l, n, D \cup {c})
  <1>1. GoodLog(m)
    BY DEF Closed, CallsLog
  <1>2. PICK op \in {"available", "error", "denied"} : op = "error"
    OBVIOUS
  <1>3. n = LogEntry(m, Chunk("tool-output", op, c, None)) /\ op # "denied"
    BY <1>2
  <1>4. TouchLog(m, n, c) /\ Settled(n, c) /\ (View(n.srv, n.cli, c).asked <=> View(m.srv, m.cli, c).asked)
    BY <1>1, <1>2, <1>3, LogOutput
  <1>5. CallsLog(l, n)
    BY <1>4, CallsTouch DEF Closed
  <1>6. ASSUME NEW d \in Calls
        PROVE  /\ View(n.srv, n.cli, d).asked <=> View(l.srv, l.cli, d).asked
               /\ d \in D \cup {c} => Settled(n, d)
               /\ d \notin D \cup {c} => View(n.srv, n.cli, d) = View(l.srv, l.cli, d)
    <2>1. CASE d = c
      BY <1>4, <2>1 DEF Closed
    <2>2. CASE d # c
      <3>1. View(n.srv, n.cli, d) = View(m.srv, m.cli, d)
        BY <1>4, <2>2 DEF TouchLog, OthersSame
      <3> QED
        BY <2>2, <3>1 DEF Closed, Settled
    <2> QED
      BY <2>1, <2>2
  <1> QED
    BY <1>5, <1>6 DEF Closed

LEMMA CloseAll ==
    ASSUME NEW l, GoodLog(l), NEW q, Len(q) \in Nat,
           \A i \in 1..Len(q) : q[i].id \in Calls /\ q[i] = Chunk("tool-output", "error", q[i].id, None)
    PROVE  Closed(l, LogAll(l, q), {q[i].id : i \in 1..Len(q)})
  <1>1. PICK n \in Nat : n = Len(q)
    OBVIOUS
  <1>2. PICK g : /\ g[0] = l /\ LogAll(l, q) = g[n]
                 /\ \A i \in 1..n : g[i] = LogEntry(g[i - 1], q[i])
    BY <1>1, LogAllSteps
  <1> DEFINE D(i) == {q[j].id : j \in 1..i}
             A == {i \in 0..n : Closed(l, g[i], D(i))}
  <1>3. 0 \in A
    <2>1. Closed(l, l, D(0))
      BY CallsSelf DEF Closed
    <2> QED
      BY <1>1, <1>2, <2>1
  <1>4. ASSUME NEW i \in 1..n, i - 1 \in A PROVE i \in A
    <2>1. PICK m, o, c : m = g[i - 1] /\ o = g[i] /\ c = q[i].id
      OBVIOUS
    <2>2. Closed(l, m, D(i - 1))
      BY <1>4, <2>1
    <2>3. c \in Calls /\ q[i] = Chunk("tool-output", "error", c, None) /\ o = LogEntry(m, q[i])
      BY <1>1, <1>2, <2>1
    <2>4. PICK E : E = D(i - 1)
      OBVIOUS
    <2>5. Closed(l, m, E) /\ o = LogEntry(m, Chunk("tool-output", "error", c, None))
      BY <2>2, <2>3, <2>4
    <2>6. Closed(l, o, E \cup {c})
      BY ONLY <2>3, <2>5, CloseOne
    <2>7. D(i) = E \cup {c}
      <3>1. 1..i = 1..(i - 1) \cup {i}
        BY <1>1
      <3> QED
        BY <2>1, <2>4, <3>1
    <2>8. i \in 0..n
      BY <1>1
    <2> QED
      BY <2>1, <2>6, <2>7, <2>8
  <1> HIDE DEF A
  <1>5. \A i \in 0..n : i \in A
    BY <1>3, <1>4, UpTo
  <1>6. n \in A
    BY <1>1, <1>5
  <1> QED
    BY <1>1, <1>2, <1>6 DEF A

LEMMA DriverFailsKeeps ==
    ASSUME FoldInv, DriverFails
    PROVE  FoldInv'
  <1>1. PICK S : S = {Chunk("tool-output", "error", c, None) : c \in open}
    OBVIOUS
  <1>2. PICK q : q = SetToSeq(S)
    OBVIOUS
  <1>3. PICK r : r = <<Chunk("error", "put", None, None), Chunk("turn-failed", "put", None, None),
                      Chunk("message", "finish", None, "error")>>
    OBVIOUS
  <1>4. /\ turn.open /\ turn' = [turn EXCEPT !.open = FALSE, !.fin = "error"]
        /\ WriteThrough(<< >>, open, q \o r) /\ call' = Abandoned
        /\ UNCHANGED <<stream, started, hints, sent>>
    BY <1>1, <1>2, <1>3 DEF DriverFails
  <1>5. /\ turn.n > 0 /\ turn.n \in 1..MaxTurns /\ Types /\ Sim(srv, cli) /\ thread \in ThreadT
        /\ \A c \in Calls : CallOK(c)
    BY <1>4, RunningFacts
  <1>6. open \subseteq Calls /\ turn \in TurnT /\ call \in [Calls -> Kinds]
    BY <1>5 DEF Types
  <1>7. IsFiniteSet(S)
    BY <1>1, <1>6, CallChunks
  <1>8. /\ q \in Seq(S) /\ Len(q) \in Nat /\ DOMAIN q = 1..Len(q)
        /\ (\A i \in DOMAIN q : q[i] \in S) /\ \A x \in S : \E i \in DOMAIN q : q[i] = x
    BY <1>2, <1>7, Listed
  <1>9. \A x \in S : x.k = "tool-output" /\ x.id \in open /\ x = Chunk("tool-output", "error", x.id, None)
    BY <1>1 DEF Chunk
  <1>10. r \in Seq(QuietChunks)
    <2>1. PICK a, b, c : /\ a = Chunk("error", "put", None, None) /\ b = Chunk("turn-failed", "put", None, None)
                         /\ c = Chunk("message", "finish", None, "error")
      OBVIOUS
    <2>2. a \in QuietChunks /\ c \in QuietChunks
      BY <2>1 DEF QuietChunks, Words
    <2>3. b \in QuietChunks
      BY <2>1 DEF QuietChunks, DataKinds, Ids, Vals
    <2>4. r = <<a, b, c>>
      BY <1>3, <2>1
    <2> QED
      BY <2>2, <2>3, <2>4
  <1>11. PICK T : T = S \cup QuietChunks
    OBVIOUS
  <1>12. q \in Seq(T) /\ r \in Seq(T) /\ \A x \in T : x.k \notin TextKinds
    <2>1. \A x \in QuietChunks : x.k \notin TextKinds
      BY QuietFacts
    <2>2. \A x \in S : x.k \notin TextKinds
      BY <1>9 DEF TextKinds
    <2> QED
      BY <1>8, <1>10, <1>11, <2>1, <2>2
  <1>13. PICK y : y = q \o r
    OBVIOUS
  <1>14. y \in Seq(T) /\ (\A i \in 1..Len(y) : y[i].k \notin TextKinds) /\ WriteThrough(<< >>, open, y)
    BY <1>4, <1>12, <1>13
  <1>15. PICK l : l = Log(open)
    OBVIOUS
  <1>16. l.srv = srv /\ l.cli = cli /\ l.thread = thread /\ l.open = open
    BY <1>15 DEF Log
  <1>17. GoodLog(l)
    BY <1>5, <1>16 DEF GoodLog
  <1>18. PICK m, n : m = LogAll(l, q) /\ n = LogAll(m, r)
    OBVIOUS
  <1>19. n = LogAll(l, y)
    BY <1>12, <1>13, <1>18, LogConcat
  <1>20. srv' = n.srv /\ cli' = n.cli /\ thread' = n.thread /\ open' = n.open
    BY <1>14, <1>15, <1>19, WritePlain
  <1>21. PICK D : D = {q[i].id : i \in 1..Len(q)}
    OBVIOUS
  <1>22. Closed(l, m, D)
    <2>1. \A i \in 1..Len(q) : q[i].id \in Calls /\ q[i] = Chunk("tool-output", "error", q[i].id, None)
      BY <1>6, <1>8, <1>9
    <2> QED
      BY <1>8, <1>17, <1>18, <1>21, <2>1, CloseAll
  <1>23. open \subseteq D
    <2>1. ASSUME NEW c \in open PROVE c \in D
      <3>1. PICK i \in 1..Len(q) : q[i] = Chunk("tool-output", "error", c, None)
        BY <1>1, <1>8
      <3> QED
        BY <1>21, <3>1 DEF Chunk
    <2> QED
      BY <2>1
  <1>24. CallsLog(l, n) /\ ViewsSame(m.srv, m.cli, n.srv, n.cli)
    <2>1. QuietLog(m, n)
      BY <1>10, <1>18, <1>22, QuietAll DEF Closed, CallsLog, GoodLog
    <2> QED
      BY <1>22, <2>1, CallsQuiet DEF Closed
  <1>25. Sim(srv', cli') /\ TextSame(srv.parts, srv'.parts) /\ ThreadKept(thread, thread') /\ open' \subseteq Calls
    BY <1>6, <1>16, <1>20, <1>24 DEF CallsLog, GoodLog
  <1>26. /\ turn' \in TurnT /\ ~turn'.open /\ turn'.n = turn.n /\ turn'.msg = turn.msg /\ turn'.fin = "error"
         /\ turn'.answer = turn.answer
    <2>1. PICK z \in TurnT : z = turn
      BY <1>6
    <2>2. PICK u, f : u = turn' /\ f = "error"
      OBVIOUS
    <2>3. f \in {"none", "stop", "other", "error"} /\ ClosesInto(z, f, u)
      BY <1>4, <2>1, <2>2 DEF ClosesInto
    <2>4. IsClosed(z, f, u)
      BY ONLY <2>3, z \in TurnT, TurnClosed
    <2> QED
      BY <2>1, <2>2, <2>4 DEF IsClosed
  <1>27. stream' = stream /\ started' = started /\ hints' = hints /\ sent' = sent
    BY <1>4
  <1>28. /\ Sim(srv, cli)' /\ Pending' /\ Cuts' /\ Texts(srv.parts, sent, stream.next)'
         /\ thread' \in ThreadT /\ \A k \in stream'.next..MaxParts : sent'[k] = 0
    <2>1. turn'.n \in {turn.n, turn.n + 1} /\ turn'.msg = turn.msg /\ stream'.next = stream.next
      BY <1>26, <1>27
    <2> QED
      BY <1>5, <1>25, <1>27, <2>1, Kept
  <1>29. ASSUME NEW c \in Calls
         PROVE  call'[c] \in Kinds \ Due /\ (call'[c] # "lost" => call'[c] = call[c])
    <2>1. call'[c] = IF call[c] \in Due THEN "lost" ELSE call[c]
      BY <1>4 DEF Abandoned, Outstanding, Due
    <2> QED
      BY <1>6, <2>1 DEF Kinds, Due
  <1>30. call' \in [Calls -> Kinds]
    <2>1. call' = [c \in Calls |-> call'[c]]
      BY <1>4 DEF Abandoned
    <2> QED
      BY <1>29, <2>1
  <1>31. Types'
    BY <1>5, <1>25, <1>26, <1>27, <1>28, <1>30 DEF Types
  <1>32. Streams'
    BY <1>26, <1>28 DEF Streams
  <1>33. ASSUME NEW c \in Calls PROVE CallOK(c)'
    <2>1. PICK v : v = View(srv, cli, c)
      OBVIOUS
    <2>2. PICK w : w = View(srv', cli', c)
      OBVIOUS
    <2>3. w = View(m.srv, m.cli, c)
      BY <1>20, <1>24, <2>2 DEF ViewsSame
    <2>4. (w.asked <=> v.asked) /\ w.cli \notin Busy
      <3>1. v = View(l.srv, l.cli, c)
        BY <1>16, <2>1
      <3>2. CASE c \in D
        BY <1>22, <2>3, <3>1, <3>2 DEF Closed, Settled
      <3>3. CASE c \notin D
        <4>1. w = v
          BY <1>22, <2>3, <3>1, <3>3 DEF Closed
        <4>2. c \notin open
          BY <1>23, <3>3
        <4>3. v.cli \notin Busy
          BY <1>4, <2>1, <4>2, CallNow
        <4> QED
          BY <4>1, <4>3
      <3> QED
        BY <3>2, <3>3
    <2>5. CallOK(c)
      BY <1>5
    <2>6. PICK a, b, z : a = call[c] /\ b = call'[c] /\ z = turn.answer[c]
      OBVIOUS
    <2>7. b \notin Due /\ (b # "lost" => b = a) /\ turn'.answer[c] = z
      BY <1>26, <1>29, <2>6
    <2>8. (b = "new" => ~v.asked) /\ (b \in {"new", "parked"} => z = "none")
      BY <1>4, <2>1, <2>6, <2>7, CallNow
    <2> QED
      BY <1>26, <2>2, <2>4, <2>6, <2>7, <2>8 DEF CallOK, Due, Arriving
  <1> QED
    BY <1>25, <1>26, <1>28, <1>31, <1>32, <1>33 DEF FoldInv

\* The calls of D show a card, and no other call has changed.
CardShown(v) == v.here /\ v.asked /\ v.srv = "approval-requested" /\ v.cli = "approval-requested"
Carded(l, m, D) ==
    /\ CallsLog(l, m)
    /\ \A d \in Calls : /\ d \in D => CardShown(View(m.srv, m.cli, d))
                        /\ d \notin D => View(m.srv, m.cli, d) = View(l.srv, l.cli, d)
Askable(l, c) == View(l.srv, l.cli, c).here /\ View(l.srv, l.cli, c).srv = "input-available"

LEMMA CardOne ==
    ASSUME NEW l, NEW m, NEW D, Carded(l, m, D), NEW c \in Calls, NEW n, Askable(l, c),
           n = LogEntry(m, Chunk("approval", "request", c, None))
    PROVE  Carded(l, n, D \cup {c})
  <1>1. GoodLog(m)
    BY DEF Carded, CallsLog
  <1>2. PICK x, op : x = None /\ op = "request"
    OBVIOUS
  <1>3. PICK ch : ch = Chunk("approval", op, c, x)
    OBVIOUS
  <1>4. ch.k = "approval" /\ ch.id = c /\ n = LogEntry(m, ch)
    BY <1>2, <1>3 DEF Chunk
  <1>5. After(m.srv, m.cli, ch, n.srv, n.cli)
    BY <1>1, <1>4, LogAfter
  <1>6. PICK s, t, s2, t2 : s = m.srv /\ t = m.cli /\ s2 = n.srv /\ t2 = n.cli
    OBVIOUS
  <1>7. Sim(s, t) /\ After(s, t, Chunk("approval", op, c, x), s2, t2)
    BY <1>1, <1>3, <1>5, <1>6 DEF GoodLog
  <1>8. View(s, t, c).here /\ View(s, t, c).srv \notin {"input-streaming", "output-error"}
    <2>1. CASE c \in D
      BY <1>6, <2>1 DEF Carded, CardShown
    <2>2. CASE c \notin D
      BY <1>6, <2>2 DEF Carded, Askable
    <2> QED
      BY <2>1, <2>2
  <1>9. c \in DOMAIN t.tools
    BY <1>7, <1>8, AskedView
  <1>10. /\ ToolStep(s, t, s2, t2, c) /\ s2.asked = s.asked \cup {c}
         /\ Seen(View(s2, t2, c), "approval-requested", "approval-requested", c, s2.asked, s.partial)
    BY ONLY <1>7, <1>8, <1>9, AskTool
  <1>11. CardShown(View(s2, t2, c))
    BY <1>10 DEF Seen, CardShown
  <1>12. TouchLog(m, n, c)
    BY <1>1, <1>4, <1>6, <1>10, TouchOnce
  <1>13. CallsLog(l, n)
    BY <1>12, CallsTouch DEF Carded
  <1>14. ASSUME NEW d \in Calls
         PROVE  /\ d \in D \cup {c} => CardShown(View(n.srv, n.cli, d))
                /\ d \notin D \cup {c} => View(n.srv, n.cli, d) = View(l.srv, l.cli, d)
    <2>1. CASE d = c
      BY <1>6, <1>11, <2>1
    <2>2. CASE d # c
      <3>1. View(n.srv, n.cli, d) = View(m.srv, m.cli, d)
        BY <1>12, <2>2 DEF TouchLog, OthersSame
      <3> QED
        BY <2>2, <3>1 DEF Carded
    <2> QED
      BY <2>1, <2>2
  <1> QED
    BY <1>13, <1>14 DEF Carded

LEMMA CardAll ==
    ASSUME NEW l, GoodLog(l), NEW q, Len(q) \in Nat,
           \A i \in 1..Len(q) : /\ q[i].id \in Calls /\ q[i] = Chunk("approval", "request", q[i].id, None)
                                /\ Askable(l, q[i].id)
    PROVE  Carded(l, LogAll(l, q), {q[i].id : i \in 1..Len(q)})
  <1>1. PICK n \in Nat : n = Len(q)
    OBVIOUS
  <1>2. PICK g : /\ g[0] = l /\ LogAll(l, q) = g[n]
                 /\ \A i \in 1..n : g[i] = LogEntry(g[i - 1], q[i])
    BY <1>1, LogAllSteps
  <1> DEFINE D(i) == {q[j].id : j \in 1..i}
             A == {i \in 0..n : Carded(l, g[i], D(i))}
  <1>3. 0 \in A
    <2>1. Carded(l, l, D(0))
      BY CallsSelf DEF Carded
    <2> QED
      BY <1>1, <1>2, <2>1
  <1>4. ASSUME NEW i \in 1..n, i - 1 \in A PROVE i \in A
    <2>1. PICK m, o, c : m = g[i - 1] /\ o = g[i] /\ c = q[i].id
      OBVIOUS
    <2>2. Carded(l, m, D(i - 1))
      BY <1>4, <2>1
    <2>3. c \in Calls /\ q[i] = Chunk("approval", "request", c, None) /\ o = LogEntry(m, q[i]) /\ Askable(l, c)
      BY <1>1, <1>2, <2>1
    <2>4. PICK E : E = D(i - 1)
      OBVIOUS
    <2>5. Carded(l, m, E) /\ o = LogEntry(m, Chunk("approval", "request", c, None))
      BY <2>2, <2>3, <2>4
    <2>6. Carded(l, o, E \cup {c})
      BY ONLY <2>3, <2>5, CardOne
    <2>7. D(i) = E \cup {c}
      <3>1. 1..i = 1..(i - 1) \cup {i}
        BY <1>1
      <3> QED
        BY <2>1, <2>4, <3>1
    <2>8. i \in 0..n
      BY <1>1
    <2> QED
      BY <2>1, <2>6, <2>7, <2>8
  <1> HIDE DEF A
  <1>5. \A i \in 0..n : i \in A
    BY <1>3, <1>4, UpTo
  <1>6. n \in A
    BY <1>1, <1>5
  <1> QED
    BY <1>1, <1>2, <1>6 DEF A

LEMMA SuspendKeeps ==
    ASSUME FoldInv, NEW durable, Suspend(durable)
    PROVE  FoldInv'
  <1>1. PICK deferred : deferred = {c \in Calls : call[c] = "args" /\ turn.answer[c] = "none"}
    OBVIOUS
  <1>2. PICK W : W = deferred \ durable
    OBVIOUS
  <1>3. PICK S : S = {Chunk("approval", "request", c, None) : c \in W}
    OBVIOUS
  <1>4. PICK q : q = SetToSeq(S)
    OBVIOUS
  <1>5. PICK r : r = LastStep
    OBVIOUS
  <1>6. PICK f : f = <<Chunk("message", "finish", None, "other")>>
    OBVIOUS
  <1>7. /\ turn.open /\ turn' = [turn EXCEPT !.open = FALSE, !.fin = "other"]
        /\ WriteThrough(gate, open, (q \o r) \o f) /\ Outstanding = deferred /\ durable \subseteq deferred
        /\ call' = [c \in Calls |-> IF c \in durable THEN "parked"
                                    ELSE IF c \in deferred THEN "asked" ELSE Passed(call)[c]]
        /\ UNCHANGED <<stream, started, hints, sent>>
    BY <1>1, <1>2, <1>3, <1>4, <1>5, <1>6 DEF Suspend, EndTurn, Emit
  <1>8. /\ turn.n > 0 /\ turn.n \in 1..MaxTurns /\ Types /\ Sim(srv, cli) /\ thread \in ThreadT
        /\ \A c \in Calls : CallOK(c)
    BY <1>7, RunningFacts
  <1>9. open \subseteq Calls /\ turn \in TurnT /\ call \in [Calls -> Kinds]
    BY <1>8 DEF Types
  <1>10. W \subseteq Calls
    BY <1>1, <1>2
  <1>11. IsFiniteSet(S)
    BY <1>3, <1>10, CallChunks
  <1>12. /\ q \in Seq(S) /\ Len(q) \in Nat /\ DOMAIN q = 1..Len(q)
         /\ (\A i \in DOMAIN q : q[i] \in S) /\ \A x \in S : \E i \in DOMAIN q : q[i] = x
    BY <1>4, <1>11, Listed
  <1>13. \A x \in S : x.k = "approval" /\ x.id \in W /\ x = Chunk("approval", "request", x.id, None)
    BY <1>3 DEF Chunk
  <1>14. r \in Seq(QuietChunks) /\ f \in Seq(QuietChunks)
    <2>1. Chunk("step", "finish", None, None) \in QuietChunks
      BY DEF QuietChunks
    <2>2. Chunk("message", "finish", None, "other") \in QuietChunks
      BY DEF QuietChunks, Words
    <2> QED
      BY <1>5, <1>6, <2>1, <2>2 DEF LastStep
  <1>15. PICK T : T = S \cup QuietChunks
    OBVIOUS
  <1>16. q \in Seq(T) /\ r \in Seq(T) /\ f \in Seq(T) /\ \A x \in T : x.k \notin TextKinds
    <2>1. \A x \in QuietChunks : x.k \notin TextKinds
      BY QuietFacts
    <2>2. \A x \in S : x.k \notin TextKinds
      BY <1>13 DEF TextKinds
    <2> QED
      BY <1>12, <1>14, <1>15, <2>1, <2>2
  <1>17. PICK z : z = q \o r
    OBVIOUS
  <1>18. PICK y : y = z \o f
    OBVIOUS
  <1>19. z \in Seq(T)
    BY <1>16, <1>17
  <1>20. y \in Seq(T) /\ (\A i \in 1..Len(y) : y[i].k \notin TextKinds) /\ WriteThrough(gate, open, y)
    BY <1>7, <1>16, <1>17, <1>18, <1>19
  <1>21. PICK l : l = Log(open)
    OBVIOUS
  <1>22. l.srv = srv /\ l.cli = cli /\ l.thread = thread /\ l.open = open
    BY <1>21 DEF Log
  <1>23. GoodLog(l)
    BY <1>8, <1>22 DEF GoodLog
  <1>24. PICK m, o, n : m = LogAll(l, q) /\ o = LogAll(m, r) /\ n = LogAll(o, f)
    OBVIOUS
  <1>25. n = LogAll(l, y)
    <2>1. o = LogAll(l, z)
      BY <1>16, <1>17, <1>24, LogConcat
    <2> QED
      BY <1>16, <1>18, <1>19, <1>24, <2>1, LogConcat
  <1>26. srv' = n.srv /\ cli' = n.cli /\ thread' = n.thread /\ open' = n.open
    BY <1>20, <1>21, <1>25, WritePlain
  <1>27. PICK D : D = {q[i].id : i \in 1..Len(q)}
    OBVIOUS
  <1>28. \A c \in W : Askable(l, c)
    <2>1. ASSUME NEW c \in W PROVE Askable(l, c)
      <3>1. PICK v : v = View(srv, cli, c)
        OBVIOUS
      <3>2. c \in Calls /\ call[c] = "args"
        BY <1>1, <1>2
      <3>3. v.here /\ v.srv = "input-available"
        BY <1>7, <3>1, <3>2, CallNow
      <3> QED
        BY <1>22, <3>1, <3>3 DEF Askable
    <2> QED
      BY <2>1
  <1>29. Carded(l, m, D)
    <2>1. \A i \in 1..Len(q) : /\ q[i].id \in Calls /\ q[i] = Chunk("approval", "request", q[i].id, None)
                               /\ Askable(l, q[i].id)
      BY <1>10, <1>12, <1>13, <1>28
    <2> QED
      BY <1>12, <1>23, <1>24, <1>27, <2>1, CardAll
  <1>30. D = W
    <2>1. ASSUME NEW c \in W PROVE c \in D
      <3>1. PICK i \in 1..Len(q) : q[i] = Chunk("approval", "request", c, None)
        BY <1>3, <1>12
      <3> QED
        BY <1>27, <3>1 DEF Chunk
    <2>2. D \subseteq W
      BY <1>12, <1>13, <1>27
    <2> QED
      BY <2>1, <2>2
  <1>31. CallsLog(l, n) /\ ViewsSame(m.srv, m.cli, n.srv, n.cli)
    <2>1. CallsLog(l, m)
      BY <1>29 DEF Carded
    <2>2. QuietLog(m, o)
      BY <1>14, <1>24, <2>1, QuietAll DEF CallsLog, GoodLog
    <2>3. CallsLog(l, o) /\ ViewsSame(m.srv, m.cli, o.srv, o.cli)
      BY <2>1, <2>2, CallsQuiet
    <2>4. QuietLog(o, n)
      BY <1>14, <1>24, <2>3, QuietAll DEF CallsLog, GoodLog
    <2>5. CallsLog(l, n) /\ ViewsSame(o.srv, o.cli, n.srv, n.cli)
      BY <2>3, <2>4, CallsQuiet
    <2> QED
      BY <2>3, <2>5 DEF ViewsSame
  <1>32. Sim(srv', cli') /\ TextSame(srv.parts, srv'.parts) /\ ThreadKept(thread, thread') /\ open' \subseteq Calls
    BY <1>9, <1>22, <1>26, <1>31 DEF CallsLog, GoodLog
  <1>33. /\ turn' \in TurnT /\ ~turn'.open /\ turn'.n = turn.n /\ turn'.msg = turn.msg /\ turn'.fin = "other"
         /\ turn'.answer = turn.answer
    <2>1. PICK a \in TurnT : a = turn
      BY <1>9
    <2>2. PICK u, g : u = turn' /\ g = "other"
      OBVIOUS
    <2>3. g \in {"none", "stop", "other", "error"} /\ ClosesInto(a, g, u)
      BY <1>7, <2>1, <2>2 DEF ClosesInto
    <2>4. IsClosed(a, g, u)
      BY ONLY <2>3, a \in TurnT, TurnClosed
    <2> QED
      BY <2>1, <2>2, <2>4 DEF IsClosed
  <1>34. stream' = stream /\ started' = started /\ hints' = hints /\ sent' = sent
    BY <1>7
  <1>35. /\ Sim(srv, cli)' /\ Pending' /\ Cuts' /\ Texts(srv.parts, sent, stream.next)'
         /\ thread' \in ThreadT /\ \A k \in stream'.next..MaxParts : sent'[k] = 0
    <2>1. turn'.n \in {turn.n, turn.n + 1} /\ turn'.msg = turn.msg /\ stream'.next = stream.next
      BY <1>33, <1>34
    <2> QED
      BY <1>8, <1>32, <1>34, <2>1, Kept
  <1>36. ASSUME NEW c \in Calls
         PROVE  /\ c \in W => call'[c] = "asked"
                /\ c \in durable => call'[c] = "parked"
                /\ c \notin deferred => /\ call'[c] \in Kinds \ (Due \cup {"asked", "parked"})
                                        /\ call[c] \notin Due /\ (call'[c] = "new" => call[c] = "new")
    <2>1. Passed(call)[c] = IF call[c] \in {"asked", "parked"} THEN "dropped" ELSE call[c]
      BY DEF Passed
    <2>2. call'[c] = IF c \in durable THEN "parked" ELSE IF c \in deferred THEN "asked" ELSE Passed(call)[c]
      BY <1>7
    <2>3. c \notin deferred => call[c] \notin Due
      BY <1>7 DEF Outstanding, Due
    <2> QED
      BY <1>2, <1>7, <1>9, <2>1, <2>2, <2>3 DEF Kinds, Due
  <1>37. call' \in [Calls -> Kinds]
    <2>1. \A c \in Calls : call'[c] \in Kinds
      BY <1>2, <1>36 DEF Kinds
    <2>2. call' = [c \in Calls |-> call'[c]]
      BY <1>7
    <2> QED
      BY <2>1, <2>2
  <1>38. Types'
    BY <1>8, <1>32, <1>33, <1>34, <1>35, <1>37 DEF Types
  <1>39. Streams'
    BY <1>33, <1>35 DEF Streams
  <1>40. ASSUME NEW c \in Calls PROVE CallOK(c)'
    <2>1. PICK v : v = View(srv, cli, c)
      OBVIOUS
    <2>2. PICK w : w = View(srv', cli', c)
      OBVIOUS
    <2>3. w = View(m.srv, m.cli, c) /\ v = View(l.srv, l.cli, c)
      BY <1>22, <1>26, <1>31, <2>1, <2>2 DEF ViewsSame
    <2>4. PICK a, b, z1 : a = call[c] /\ b = call'[c] /\ z1 = turn.answer[c]
      OBVIOUS
    <2>5. turn'.answer[c] = z1
      BY <1>33, <2>4
    <2>6. CASE c \in W
      <3>1. b = "asked" /\ CardShown(w)
        BY <1>29, <1>30, <1>36, <2>3, <2>4, <2>6 DEF Carded
      <3>2. w.asked /\ w.cli = "approval-requested"
        BY <3>1 DEF CardShown
      <3> QED
        BY <1>33, <2>2, <2>4, <3>1, <3>2 DEF CallOK, Due, Arriving, Busy
    <2>7. CASE c \in durable
      <3>1. b = "parked" /\ z1 = "none"
        BY <1>1, <1>7, <1>36, <2>4, <2>7
      <3> QED
        BY <1>33, <2>2, <2>4, <2>5, <3>1 DEF CallOK, Due, Arriving
    <2>8. CASE c \notin deferred
      <3>1. w = v
        BY <1>2, <1>29, <1>30, <2>3, <2>8 DEF Carded
      <3>2. b \in Kinds \ (Due \cup {"asked", "parked"}) /\ a \notin Due /\ (b = "new" => a = "new")
        BY <1>36, <2>4, <2>8
      <3>3. v.cli \notin Busy
        BY <1>7, <2>1, <2>4, <3>2, CallNow DEF Due, Arriving
      <3>4. b = "new" => ~v.asked /\ z1 = "none"
        BY <1>7, <2>1, <2>4, <3>2, CallNow
      <3> QED
        BY <1>33, <2>2, <2>4, <2>5, <3>1, <3>2, <3>3, <3>4 DEF CallOK, Due, Arriving
    <2> QED
      BY <1>2, <2>6, <2>7, <2>8
  <1> QED
    BY <1>32, <1>33, <1>35, <1>38, <1>39, <1>40 DEF FoldInv

-----------------------------------------------------------------------------
(* The invariant holds from the start, and what it says of a thread. *)

LEMMA FoldInit ==
    ASSUME Init
    PROVE  FoldInv
  <1>1. Sim(srv, cli) /\ \A c \in Calls : View(srv, cli, c) = Gone
    BY Empty DEF Init, Fresh
  <1>2. /\ turn = [open |-> FALSE, n |-> 0, msg |-> None, fin |-> "none", data |-> 0,
                   answer |-> [c \in Calls |-> "none"]]
        /\ stream = NewStream(1) /\ call = [c \in Calls |-> "new"] /\ started = {} /\ hints = {} /\ open = {}
        /\ sent = [i \in 1..MaxParts |-> 0] /\ srv = NewState /\ cli = EmptyAccumulator
        /\ thread = [messages |-> <<>>, withdrawn |-> {}, pending |-> FALSE, pendingId |-> None]
    BY DEF Init
  <1>3. turn \in TurnT /\ ~turn.open /\ turn.n = 0 /\ turn.fin = "none" /\ turn.answer = [c \in Calls |-> "none"]
    <2>1. PICK a : a = [c \in Calls |-> "none"]
      OBVIOUS
    <2>2. a \in [Calls -> {"none", "yes", "no"}]
      BY <2>1
    <2>3. 0 \in 0..MaxTurns
      BY FoldBounds
    <2>4. PICK m \in 0..MaxTurns : m = 0
      BY <2>3
    <2>5. PICK o \in BOOLEAN : o = FALSE
      OBVIOUS
    <2>6. PICK g \in MessageIds \cup {None} : g = None
      OBVIOUS
    <2>7. PICK f \in {"none", "stop", "other", "error"} : f = "none"
      OBVIOUS
    <2>8. PICK d \in Nat : d = 0
      OBVIOUS
    <2>9. turn = [open |-> o, n |-> m, msg |-> g, fin |-> f, data |-> d, answer |-> a]
      BY <1>2, <2>1, <2>4, <2>5, <2>6, <2>7, <2>8
    <2>10. turn \in TurnT
      BY <2>2, <2>9, TurnMade
    <2>11. turn.open = o /\ turn.n = m /\ turn.fin = f /\ turn.answer = a
      BY ONLY <2>9
    <2> QED
      BY <2>1, <2>4, <2>5, <2>7, <2>10, <2>11
  <1>4. stream \in StreamT /\ stream.next = 1
    <2>1. 1 \in 1..(MaxParts + 1)
      BY FoldBounds
    <2>2. PICK n \in 1..(MaxParts + 1) : n = 1
      BY <2>1
    <2>3. PICK b \in Nat \cup {None} : b = None
      OBVIOUS
    <2>4. PICK a \in Nat : a = 0
      OBVIOUS
    <2>5. PICK p \in [Indexes -> Nat \cup {None}] : p = [i \in Indexes |-> None]
      OBVIOUS
    <2>6. Free \in LiveT
      BY DEF Free, LiveT, Ids
    <2>7. PICK l \in [Indexes -> LiveT] : l = [i \in Indexes |-> Free]
      BY <2>6
    <2>8. stream = [steps |-> a, id |-> b, next |-> n, pinned |-> p, live |-> l]
      BY <1>2, <2>5, <2>7, <2>2, <2>3, <2>4 DEF NewStream
    <2>9. stream \in StreamT
      BY <2>8, StreamMade
    <2>10. stream.next = n
      BY ONLY <2>8
    <2> QED
      BY <2>9, <2>10, <2>2
  <1>5. sent \in [1..MaxParts -> Nat] /\ \A n \in 1..MaxParts : sent[n] = 0
    BY <1>2
  <1>6. thread \in ThreadT /\ thread.messages = <<>> /\ ~thread.pending /\ thread.pendingId = None
    BY <1>2 DEF ThreadT
  <1>7. call \in [Calls -> Kinds] /\ \A c \in Calls : call[c] = "new"
    BY <1>2 DEF Kinds
  <1>8. Types
    BY <1>2, <1>3, <1>4, <1>5, <1>6, <1>7 DEF Types
  <1>9. Pending
    BY <1>2, <1>3, <1>6, <1>7 DEF Pending
  <1>10. Cuts
    BY <1>6 DEF Cuts
  <1>11. Texts(srv.parts, sent, stream.next)
    <2>1. srv.parts = <<>>
      BY <1>2 DEF NewState
    <2> QED
      BY <2>1 DEF Texts
  <1>12. Streams
    <2>1. \A n \in stream.next..MaxParts : sent[n] = 0
      BY <1>4, <1>5
    <2> QED
      BY <1>3, <2>1 DEF Streams
  <1>13. ASSUME NEW c \in Calls PROVE CallOK(c)
    <2>1. PICK v : v = View(srv, cli, c)
      OBVIOUS
    <2>2. ~v.asked /\ v.cli = "none"
      BY <1>1, <2>1 DEF Gone
    <2>3. call[c] = "new" /\ turn.answer[c] = "none"
      BY <1>3, <1>7
    <2> QED
      BY <1>3, <2>1, <2>2, <2>3 DEF CallOK, Due, Arriving, Busy
  <1> QED
    BY <1>1, <1>3, <1>8, <1>9, <1>10, <1>11, <1>12, <1>13 DEF FoldInv

LEMMA FoldStutters ==
    ASSUME FoldInv, UNCHANGED vars
    PROVE  FoldInv'
  <1>1. /\ turn' = turn /\ stream' = stream /\ call' = call /\ started' = started /\ hints' = hints
        /\ gate' = gate /\ open' = open /\ sent' = sent /\ srv' = srv /\ cli' = cli /\ thread' = thread
    BY DEF vars
  <1>2. Types' /\ Pending' /\ Cuts'
    BY <1>1 DEF FoldInv, Types, Pending, Cuts
  <1>3. Streams'
    BY <1>1 DEF FoldInv, Streams, Live
  <1>4. ASSUME NEW c \in Calls PROVE CallOK(c)'
    BY <1>1, SameCall DEF FoldInv
  <1>5. Sim(srv, cli)' /\ Texts(srv.parts, sent, stream.next)' /\ (turn'.open => turn'.fin = "none")
    BY <1>1 DEF FoldInv
  <1> QED
    BY <1>2, <1>3, <1>4, <1>5 DEF FoldInv

LEMMA FoldStep ==
    ASSUME FoldInv, [Next]_vars
    PROVE  FoldInv'
  <1>1. CASE UNCHANGED vars
    BY <1>1, FoldStutters
  <1>2. CASE Prompt
    BY <1>2, PromptKeeps
  <1>3. CASE Resume
    BY <1>3, ResumeKeeps
  <1>4. CASE StartResponse
    BY <1>4, StartResponseKeeps
  <1>5. CASE RunEnds \/ Decline \/ RunFails
    BY <1>5, RunStops
  <1>6. CASE DriverFails
    BY <1>6, DriverFailsKeeps
  <1>7. CASE \E durable \in SUBSET Calls : Suspend(durable)
    BY <1>7, SuspendKeeps
  <1>8. ASSUME NEW yes \in BOOLEAN, NEW c \in Calls, Answer(c, yes) PROVE FoldInv'
    BY <1>8, AnswerKeeps
  <1>9. ASSUME NEW yes \in BOOLEAN, NEW c \in Calls, CallTool(c, yes) PROVE FoldInv'
    BY <1>9, CallToolKeeps
  <1>10. ASSUME NEW i \in Indexes, PartDelta(i) PROVE FoldInv'
    BY <1>10, PartDeltaKeeps
  <1>11. ASSUME NEW i \in Indexes, PartEnd(i) PROVE FoldInv'
    BY <1>11, PartEndKeeps
  <1>12. ASSUME NEW i \in Indexes, NEW k \in {"text", "reasoning"}, PartStart(i, k) PROVE FoldInv'
    <2>1. k \in TextKinds
      BY DEF TextKinds
    <2> QED
      BY <1>12, <2>1, PartStartKeeps
  <1>13. ASSUME NEW i \in Indexes, NEW c \in Calls, ToolPartStart(i, c) PROVE FoldInv'
    BY <1>13, ToolPartStartKeeps
  <1>14. ASSUME NEW c \in Calls, NEW x \in {"more", "last"}, ToolArguments(c, x) PROVE FoldInv'
    BY <1>14, ToolArgumentsKeeps
  <1>15. ASSUME NEW c \in Calls, NEW op \in {"available", "error", "denied"},
                NEW line \in {"none", "ok", "corrected"}, ToolResult(c, op, line)
         PROVE  FoldInv'
    BY <1>15, ToolResultKeeps
  <1>16. ASSUME NEW ch, OtherPart(ch) PROVE FoldInv'
    BY <1>16, OtherPartKeeps
  <1> QED
    BY <1>1, <1>2, <1>3, <1>4, <1>5, <1>6, <1>7, <1>8, <1>9, <1>10, <1>11, <1>12, <1>13, <1>14, <1>15, <1>16
       DEF Next

LEMMA InvAgrees ==
    ASSUME FoldInv
    PROVE  FoldsAgree
  <1>1. Sim(srv, cli) /\ srv.meta = cli.meta /\ srv.fin = cli.fin /\ Len(srv.parts) = Len(cli.parts)
    BY SimFacts DEF FoldInv
  <1>2. ASSUME NEW i \in DOMAIN srv.parts
        PROVE  LET s == srv.parts[i]
                   c == cli.parts[i]
               IN  /\ s.k = c.k /\ s.id = c.id
                   /\ s.st # "input-streaming" => [s EXCEPT !.in = "none"] = [c EXCEPT !.in = "none"]
                   /\ s.st \notin {"input-streaming", "output-error"} => s.in = c.in
    <2>1. PICK s, c : s = srv.parts[i] /\ c = cli.parts[i]
      OBVIOUS
    <2>2. s \in PartT /\ c \in PartT /\ PartsAgree(s, c)
      BY <1>1, <1>2, <2>1, SimFacts
    <2>3. ASSUME s.st # "input-streaming" PROVE [s EXCEPT !.in = "none"] = [c EXCEPT !.in = "none"]
      <3>1. /\ s.k = c.k /\ s.id = c.id /\ s.txt = c.txt /\ s.sm = c.sm /\ s.st = c.st /\ s.ap = c.ap
        BY <2>2, <2>3 DEF PartsAgree
      <3>2. PICK k, d, st, x, ap, sm : k = s.k /\ d = s.id /\ st = s.st /\ x = s.txt /\ ap = s.ap /\ sm = s.sm
        OBVIOUS
      <3>3. s = [k |-> k, id |-> d, st |-> st, txt |-> x, in |-> s.in, ap |-> ap, sm |-> sm]
        BY <2>2, <3>2 DEF PartT
      <3>4. c = [k |-> k, id |-> d, st |-> st, txt |-> x, in |-> c.in, ap |-> ap, sm |-> sm]
        BY <2>2, <3>1, <3>2 DEF PartT
      <3>5. PICK a, b : a = s.in /\ b = c.in
        OBVIOUS
      <3>6. s = [k |-> k, id |-> d, st |-> st, txt |-> x, in |-> a, ap |-> ap, sm |-> sm]
        BY <3>3, <3>5
      <3>7. c = [k |-> k, id |-> d, st |-> st, txt |-> x, in |-> b, ap |-> ap, sm |-> sm]
        BY <3>4, <3>5
      <3>8. [s EXCEPT !.in = "none"] = [k |-> k, id |-> d, st |-> st, txt |-> x, in |-> "none", ap |-> ap, sm |-> sm]
        BY ONLY <3>6
      <3>9. [c EXCEPT !.in = "none"] = [k |-> k, id |-> d, st |-> st, txt |-> x, in |-> "none", ap |-> ap, sm |-> sm]
        BY ONLY <3>7
      <3> QED
        BY ONLY <3>8, <3>9
    <2> QED
      BY <2>1, <2>2, <2>3 DEF PartsAgree
  <1> QED
    BY <1>1, <1>2 DEF FoldsAgree

LEMMA InvDeltas ==
    ASSUME FoldInv
    PROVE  DeltasReachTheirPart
  <1>1. Sim(srv, cli) /\ Texts(srv.parts, sent, stream.next)
    BY DEF FoldInv
  <1>2. ASSUME NEW i \in DOMAIN srv.parts, srv.parts[i].k \in TextKinds
        PROVE  /\ \A j \in DOMAIN srv.parts[i].txt : srv.parts[i].txt[j] = srv.parts[i].id
               /\ Len(srv.parts[i].txt) = sent[srv.parts[i].id] /\ srv.parts[i].txt # <<>>
    BY <1>1, <1>2 DEF Texts
  <1>3. DOMAIN cli.parts = DOMAIN srv.parts
    BY <1>1, SimFacts
  <1>4. ASSUME NEW i \in DOMAIN cli.parts
        PROVE  /\ i \in DOMAIN srv.parts /\ cli.parts[i].k = srv.parts[i].k
               /\ cli.parts[i].id = srv.parts[i].id /\ cli.parts[i].txt = srv.parts[i].txt
    BY <1>1, <1>3, <1>4, SimFacts DEF PartsAgree
  <1>5. ASSUME NEW i \in DOMAIN cli.parts, cli.parts[i].k \in TextKinds
        PROVE  /\ \A j \in DOMAIN cli.parts[i].txt : cli.parts[i].txt[j] = cli.parts[i].id
               /\ Len(cli.parts[i].txt) = sent[cli.parts[i].id] /\ cli.parts[i].txt # <<>>
    BY <1>2, <1>4, <1>5
  <1> QED
    BY <1>2, <1>5 DEF DeltasReachTheirPart, TextKinds

LEMMA InvEnds ==
    ASSUME FoldInv
    PROVE  EndsClean
  <1>1. ASSUME turn.fin = "error", ~turn.open, NEW i \in DOMAIN cli.parts, cli.parts[i].k = "tool"
        PROVE  cli.parts[i].st \notin Busy
    <2>1. Sim(srv, cli)
      BY DEF FoldInv
    <2>2. PICK c : c = cli.parts[i].id
      OBVIOUS
    <2>3. c \in DOMAIN cli.tools /\ cli.tools[c].pos = i
      BY <1>1, <2>1, <2>2 DEF Sim, Tracks
    <2>4. c \in Calls
      BY <2>1, <2>3, CallFacts
    <2>5. View(srv, cli, c).cli = cli.parts[i].st
      <3>1. View(srv, cli, c) = [here |-> TRUE, srv |-> srv.parts[i].st, cli |-> cli.parts[i].st,
                                 asked |-> c \in srv.asked, partial |-> c \in srv.partial]
        BY <2>3 DEF View
      <3>2. PICK a, b, A, P : a = srv.parts[i].st /\ b = cli.parts[i].st /\ A = srv.asked /\ P = srv.partial
        OBVIOUS
      <3>3. PICK v : v = View(srv, cli, c)
        OBVIOUS
      <3>4. v = [here |-> TRUE, srv |-> a, cli |-> b, asked |-> c \in A, partial |-> c \in P]
        BY <3>1, <3>2, <3>3
      <3>5. Seen(v, a, b, c, A, P)
        BY ONLY <3>4, Reading
      <3> QED
        BY <3>2, <3>3, <3>5 DEF Seen
    <2>6. CallOK(c)
      BY <2>4 DEF FoldInv
    <2> QED
      BY <1>1, <2>5, <2>6 DEF CallOK
  <1>2. FailedTurnRunsNothing
    BY <1>1 DEF FailedTurnRunsNothing, Busy
  <1>3. Cuts
    BY DEF FoldInv
  <1>4. ASSUME NEW i \in DOMAIN thread.messages, NEW j \in DOMAIN thread.messages[i].parts,
               thread.messages[i].parts[j].k = "turn-withdrawn"
        PROVE  /\ Len(thread.messages[i].parts) = 1
               /\ \A shown \in Shown(thread) : shown.id # thread.messages[i].parts[j].in
    <2>1. PICK m : m = thread.messages[i]
      OBVIOUS
    <2>2. WellCut(m, thread.withdrawn)
      BY <1>3, <2>1 DEF Cuts
    <2>3. Len(m.parts) = 1 /\ m.parts[j].in \in thread.withdrawn \cup {None}
      BY <1>4, <2>1, <2>2 DEF WellCut
    <2>4. ASSUME NEW shown \in Shown(thread) PROVE shown.id # None /\ shown.id \notin thread.withdrawn
      <3>1. PICK n \in DOMAIN thread.messages : shown = thread.messages[n]
        BY <2>4 DEF Shown, Range
      <3>2. WellCut(shown, thread.withdrawn)
        BY <1>3, <3>1 DEF Cuts
      <3> QED
        BY <2>4, <3>2 DEF WellCut, Shown
    <2> QED
      BY <2>1, <2>3, <2>4
  <1>5. WithdrawnIsAlone
    BY <1>4 DEF WithdrawnIsAlone
  <1> QED
    BY <1>2, <1>5 DEF EndsClean

-----------------------------------------------------------------------------
\* The invariant of the driver, the log and its two folds is inductive.
THEOREM FoldInvariant == Spec => []FoldInv
  <1>1. Init => FoldInv
    BY FoldInit
  <1>2. FoldInv /\ [Next]_vars => FoldInv'
    BY FoldStep
  <1> QED
    BY <1>1, <1>2, PTL DEF Spec

\* The server's reducer and the client's agree on the open message, part by part,
\* whatever chunks the run, its failures and its successors wrote.
THEOREM ReducersAgree == Spec => []FoldsAgree
  <1>1. FoldInv => FoldsAgree
    BY InvAgrees
  <1> QED
    BY <1>1, FoldInvariant, PTL

\* Every delta is in the part whose start it followed, in both folds, and no part
\* without a delta is logged.
THEOREM DeltasArrive == Spec => []DeltasReachTheirPart
  <1>1. FoldInv => DeltasReachTheirPart
    BY InvDeltas
  <1> QED
    BY <1>1, FoldInvariant, PTL

\* A failed turn leaves no call running, and a withdrawn message is one part whose
\* prompt is shown nowhere.
THEOREM TurnsEndClean == Spec => []EndsClean
  <1>1. FoldInv => EndsClean
    BY InvEnds
  <1> QED
    BY <1>1, FoldInvariant, PTL

=============================================================================
