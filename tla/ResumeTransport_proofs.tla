------------------------ MODULE ResumeTransport_proofs ------------------------
(***************************************************************************)
(* Proofs about a client that follows a thread, for logs of any length and *)
(* any number of turns, parts, tasks, cuts, stops and reloads: the types,  *)
(* and that a message holds parts of its own turns only.  The invariant    *)
(* (Inv) says what may stand where in the log, what the log tells of the   *)
(* host, which messages the chat may hold, and how the cursor, the open    *)
(* message and the stream that is read hang together.                      *)
(***************************************************************************)
EXTENDS ResumeTransport, WellFoundedInduction, TLAPS

-----------------------------------------------------------------------------
(* Numbers, and functions that recurse on them.                             *)

\* A set of numbers that is not empty has a least one.
LEMMA LeastNat ==
    ASSUME NEW S \in SUBSET Nat, S # {}
    PROVE  \E i \in S : \A j \in S : i <= j
  <1>1. PICK i \in S : \A j \in S : <<j, i>> \notin OpToRel(<, Nat)
    BY WFMin, NatLessThanWellFounded, Zenon
  <1>2. \A j \in S : ~(j < i)
    BY <1>1, Zenon DEF OpToRel
  <1>3. \A j \in S : i <= j
    BY <1>2
  <1>4. QED
    BY <1>3

\* A bounded one has a greatest.
LEMMA GreatestNat ==
    ASSUME NEW n \in Nat, NEW S \in SUBSET (0..n), S # {}
    PROVE  \E i \in S : \A j \in S : j <= i
  <1> DEFINE T == {n - i : i \in S}
  <1>1. T \in SUBSET Nat /\ T # {}
    <2>1. \A i \in S : n - i \in Nat
      OBVIOUS
    <2>2. \E i \in S : n - i \in T
      OBVIOUS
    <2>3. QED
      BY <2>1, <2>2
  <1> HIDE DEF T
  <1>2. PICK k \in T : \A j \in T : k <= j
    BY <1>1, LeastNat
  <1> USE DEF T
  <1>3. PICK i \in S : k = n - i
    BY <1>2
  <1>4. \A j \in S : n - i <= n - j
    BY <1>2, <1>3
  <1>5. \A j \in S : j <= i
    BY <1>4
  <1>6. QED
    BY <1>5

\* A set that holds 0 and with each number the next holds all of them.
LEMMA UpTo ==
    ASSUME NEW n \in Nat, NEW S, 0 \in S, \A i \in 1..n : i - 1 \in S => i \in S
    PROVE  \A i \in 0..n : i \in S
  <1> DEFINE bad == {i \in 0..n : i \notin S}
  <1>1. SUFFICES ASSUME bad # {} PROVE FALSE
    OBVIOUS
  <1>2. bad \in SUBSET Nat
    OBVIOUS
  <1> HIDE DEF bad
  <1>3. PICK i \in bad : \A j \in bad : i <= j
    BY <1>1, <1>2, LeastNat
  <1> USE DEF bad
  <1>4. i \in 1..n /\ i \notin S /\ i - 1 \in 0..n
    BY <1>3
  <1>5. i - 1 \in S
    BY <1>3, <1>4
  <1>6. QED
    BY <1>4, <1>5

\* g is the recursion of F from b over 0..n.
Recurs(g, b, F, n) == g[0] = b /\ \A i \in 1..n : g[i] = F[<<g[i - 1], i>>]

\* F maps D into itself as far as n.
KeepsIn(F, D, n) == \A d \in D : \A i \in 1..n : F[<<d, i>>] \in D

LEMMA RecursionExists ==
    ASSUME NEW D, NEW b \in D, NEW F, NEW n \in Nat, KeepsIn(F, D, n)
    PROVE  \E g \in [0..n -> D] : Recurs(g, b, F, n)
  <1> DEFINE bad == {k \in Nat : k <= n /\ ~ \E g \in [0..k -> D] : Recurs(g, b, F, k)}
  <1>1. SUFFICES bad = {}
    OBVIOUS
  <1>2. SUFFICES ASSUME bad # {} PROVE FALSE
    OBVIOUS
  <1>3. bad \in SUBSET Nat
    OBVIOUS
  <1> HIDE DEF bad
  <1>4. PICK k \in bad : \A j \in bad : k <= j
    BY <1>2, <1>3, LeastNat
  <1> USE DEF bad
  <1>5. CASE k = 0
    <2> DEFINE g == [i \in 0..0 |-> b]
    <2>1. g \in [0..k -> D] /\ Recurs(g, b, F, k)
      BY <1>5 DEF Recurs
    <2>2. QED
      BY <2>1, <1>4
  <1>6. CASE k # 0
    <2>1. k - 1 \in Nat /\ k - 1 <= n /\ k - 1 \notin bad /\ k \in Nat /\ k <= n
      BY <1>4, <1>6
    <2>2. PICK h \in [0..(k - 1) -> D] : Recurs(h, b, F, k - 1)
      BY <2>1
    <2> DEFINE g == [i \in 0..k |-> IF i = k THEN F[<<h[k - 1], k>>] ELSE h[i]]
    <2>3. h[k - 1] \in D /\ F[<<h[k - 1], k>>] \in D
      BY <2>1, <2>2, <1>6 DEF KeepsIn
    <2>4. g \in [0..k -> D]
      BY <2>1, <2>3
    <2>5. g[0] = b
      BY <2>1, <2>2, <1>6 DEF Recurs
    <2>6. ASSUME NEW i \in 1..k PROVE g[i] = F[<<g[i - 1], i>>]
      <3>1. i - 1 \in 0..k /\ i - 1 # k /\ g[i - 1] = h[i - 1]
        BY <2>1
      <3>2. CASE i = k
        BY <3>1, <3>2, <2>1
      <3>3. CASE i # k
        <4>1. i \in 1..(k - 1) /\ g[i] = h[i]
          BY <3>3, <2>1
        <4>2. h[i] = F[<<h[i - 1], i>>]
          BY <4>1, <2>2 DEF Recurs
        <4>3. QED
          BY <4>1, <4>2, <3>1
      <3>4. QED
        BY <3>2, <3>3
    <2>7. Recurs(g, b, F, k)
      BY <2>5, <2>6 DEF Recurs
    <2>8. QED
      BY <2>4, <2>7, <1>4
  <1>7. QED
    BY <1>5, <1>6

-----------------------------------------------------------------------------
(* Entries of a log.                                                        *)

Kind(l, i) == l[i].k
Id(l, i) == l[i].x

\* LastOf, FirstOf, Owner, Follower and Stray, of any log.
LastIn(l, from, to, K) ==
    LET S == {i \in from..to : l[i].k \in K} IN IF S = {} THEN 0 ELSE CHOOSE i \in S : \A j \in S : j <= i
FirstIn(l, from, to, K) ==
    LET S == {i \in from..to : l[i].k \in K} IN IF S = {} THEN 0 ELSE CHOOSE i \in S : \A j \in S : i <= j
OwnerIn(l, i) == LET s == LastIn(l, 1, i, {"start"}) IN IF s = 0 THEN Unnamed ELSE l[s].x
FollowerIn(l, i) == LET s == FirstIn(l, i, Len(l), {"start"}) IN IF s = 0 THEN Unnamed ELSE l[s].x

\* No turn starts or ends in (a, b].
Calm(l, a, b) == \A j \in (a + 1)..b : Kind(l, j) \notin {"start", "done"}

\* A part reported at i, where the message before is closed; or a prompt is near.
AfterStop(l, i) == Id(l, LastIn(l, 1, i, {"finish"})) = "stop"
NearPrompt(l, i) ==
    \E p \in 1..Len(l) : Kind(l, p) = "prompt" /\ \A j \in (i..p) \cup (p..i) : Kind(l, j) \notin {"start", "done"}
StrayIn(l, i) ==
    /\ Kind(l, i) = "gap"
    /\ Kind(l, LastIn(l, 1, i, {"start", "done"})) = "done"
    /\ AfterStop(l, i) \/ NearPrompt(l, i)

\* A turn has started and not ended.
InTurn(l, i) == \E s \in 1..i : Kind(l, s) = "start" /\ \A j \in s..i : Kind(l, j) # "done"

\* The finish that closes a message.
StopAt(l, i) == Kind(l, i) = "finish" /\ Id(l, i) = "stop"

\* What may stand where in a thread's log.
EntryFollows(l, i) ==
    /\ Kind(l, i) \in {"start", "prompt"} => ~InTurn(l, i - 1)
    /\ Kind(l, i) \in {"text", "finish", "done"} => InTurn(l, i - 1)
    /\ Kind(l, i) = "done" => i > 1 /\ Kind(l, i - 1) = "finish"
    /\ Kind(l, i) = "gap" => \E j \in 1..(i - 1) : Kind(l, j) = "done"
    /\ Kind(l, i) = "finish" => i < Len(l) /\ Kind(l, i + 1) = "done"

LogOK(l) == l \in Seq(Entries) /\ \A i \in 1..Len(l) : EntryFollows(l, i)

LEMMA LastInIs ==
    ASSUME NEW l, NEW a \in Nat, NEW n \in Nat, NEW K, NEW r, r = LastIn(l, a, n, K)
    PROVE  /\ r \in Nat
           /\ r = 0 \/ (r \in a..n /\ Kind(l, r) \in K)
           /\ \A i \in a..n : Kind(l, i) \in K => i <= r /\ r \in a..n /\ Kind(l, r) \in K
  <1> DEFINE S == {i \in a..n : l[i].k \in K}
  <1>1. CASE S = {}
    BY <1>1 DEF LastIn, Kind
  <1>2. CASE S # {}
    <2>1. S \in SUBSET (0..n)
      OBVIOUS
    <2>2. \E i \in S : \A j \in S : j <= i
      <3> HIDE DEF S
      <3>1. QED
        BY <1>2, <2>1, GreatestNat
    <2>3. r \in S /\ \A j \in S : j <= r
      BY <1>2, <2>2 DEF LastIn
    <2>4. QED
      BY <2>3 DEF Kind
  <1>3. QED
    BY <1>1, <1>2

LEMMA FirstInIs ==
    ASSUME NEW l, NEW a \in Nat, NEW n \in Nat, NEW K, NEW r, r = FirstIn(l, a, n, K)
    PROVE  /\ r \in Nat
           /\ r = 0 \/ (r \in a..n /\ Kind(l, r) \in K)
           /\ \A i \in a..n : Kind(l, i) \in K => r <= i /\ r \in a..n /\ Kind(l, r) \in K
  <1> DEFINE S == {i \in a..n : l[i].k \in K}
  <1>1. CASE S = {}
    BY <1>1 DEF FirstIn, Kind
  <1>2. CASE S # {}
    <2>1. S \in SUBSET Nat
      OBVIOUS
    <2>2. \E i \in S : \A j \in S : i <= j
      <3> HIDE DEF S
      <3>1. QED
        BY <1>2, <2>1, LeastNat
    <2>3. r \in S /\ \A j \in S : r <= j
      BY <1>2, <2>2 DEF FirstIn
    <2>4. QED
      BY <2>3 DEF Kind
  <1>3. QED
    BY <1>1, <1>2

\* The names of the user's messages.
UserNames == {"user"} \X Nat

LEMMA EntryIs ==
    ASSUME NEW e \in Entries
    PROVE  /\ e.k \in {"prompt", "start", "text", "gap", "finish", "done"}
           /\ e.k = "start" => e.x \in Named
           /\ e.k = "prompt" => e.x \in UserNames
           /\ e.k = "finish" => e.x \in {"stop", "other"} /\ e = Entry("finish", e.x)
  BY DEF Entries, UserNames, Entry

LEMMA NamesAre ==
    /\ Named \subseteq Names /\ Unnamed \in Names /\ UserNames \subseteq Names
    /\ Unnamed \notin Named /\ None \notin Names /\ None \notin Named /\ None # Unnamed
    /\ \A u \in UserNames : u \notin Named /\ u # Unnamed
    /\ \A n \in Nat : Assistant(n) \in Named /\ User(n) \in UserNames
  <1>1. Named \subseteq Names /\ UserNames \subseteq Names
    BY DEF Named, Names, UserNames
  <1>2. Unnamed \in Names /\ Unnamed \notin Named
    BY DEF Named, Names, Unnamed
  <1>3. None \notin Names
    BY ResumeBounds
  <1>4. \A u \in UserNames : u[1] = "user" /\ u \notin Named /\ u # Unnamed
    BY DEF Named, Unnamed, UserNames
  <1>5. \A n \in Nat : Assistant(n) \in Named /\ User(n) \in UserNames
    BY DEF Named, Assistant, User, UserNames
  <1>6. QED
    BY <1>1, <1>2, <1>3, <1>4, <1>5

LEMMA KindIs ==
    ASSUME NEW l, LogOK(l), NEW i \in 1..Len(l)
    PROVE  /\ Kind(l, i) \in {"prompt", "start", "text", "gap", "finish", "done"}
           /\ Kind(l, i) = "start" => Id(l, i) \in Named
           /\ Kind(l, i) = "prompt" => Id(l, i) \in UserNames
           /\ Kind(l, i) = "finish" => Id(l, i) \in {"stop", "other"}
           /\ StopAt(l, i) => l[i] = Entry("finish", "stop")
           /\ EntryFollows(l, i)
  <1>1. l[i] \in Entries
    BY DEF LogOK
  <1>2. QED
    BY <1>1, EntryIs DEF LogOK, Kind, Id, StopAt

LEMMA LogLen ==
    ASSUME NEW l, LogOK(l) PROVE l \in Seq(Entries) /\ Len(l) \in Nat
  BY DEF LogOK

\* The owner of an entry is the one that started last before it.
LEMMA OwnerOf ==
    ASSUME NEW l, NEW i \in Nat, NEW s \in 1..i, Kind(l, s) = "start",
           \A j \in (s + 1)..i : Kind(l, j) # "start"
    PROVE  OwnerIn(l, i) = Id(l, s)
  <1> DEFINE r == LastIn(l, 1, i, {"start"})
  <1>1. /\ r \in Nat /\ (r = 0 \/ (r \in 1..i /\ Kind(l, r) \in {"start"}))
        /\ \A k \in 1..i : Kind(l, k) \in {"start"} => k <= r /\ r \in 1..i
    BY LastInIs
  <1>2. OwnerIn(l, i) = IF r = 0 THEN Unnamed ELSE Id(l, r)
    BY DEF OwnerIn, Id
  <1> HIDE DEF r
  <1>3. r = s
    BY <1>1
  <1>4. QED
    BY <1>2, <1>3

LEMMA OwnerCases ==
    ASSUME NEW l, NEW i \in Nat
    PROVE  \/ OwnerIn(l, i) = Unnamed /\ \A j \in 1..i : Kind(l, j) # "start"
           \/ \E s \in 1..i : /\ Kind(l, s) = "start" /\ Id(l, s) = OwnerIn(l, i)
                              /\ \A j \in (s + 1)..i : Kind(l, j) # "start"
  <1> DEFINE r == LastIn(l, 1, i, {"start"})
  <1>1. /\ r \in Nat /\ (r = 0 \/ (r \in 1..i /\ Kind(l, r) \in {"start"}))
        /\ \A k \in 1..i : Kind(l, k) \in {"start"} => k <= r /\ r \in 1..i
    BY LastInIs
  <1>2. OwnerIn(l, i) = IF r = 0 THEN Unnamed ELSE Id(l, r)
    BY DEF OwnerIn, Id
  <1> HIDE DEF r
  <1>3. CASE r = 0
    BY <1>1, <1>2, <1>3
  <1>4. CASE r # 0
    BY <1>1, <1>2, <1>4
  <1>5. QED
    BY <1>3, <1>4

\* The follower of an entry is the one that starts first from it on.
LEMMA FollowerOf ==
    ASSUME NEW l, Len(l) \in Nat, NEW i \in Nat, NEW s \in i..Len(l), Kind(l, s) = "start",
           \A j \in i..(s - 1) : Kind(l, j) # "start", i > 0
    PROVE  FollowerIn(l, i) = Id(l, s)
  <1> DEFINE r == FirstIn(l, i, Len(l), {"start"})
  <1>1. /\ r \in Nat /\ (r = 0 \/ (r \in i..Len(l) /\ Kind(l, r) \in {"start"}))
        /\ \A k \in i..Len(l) : Kind(l, k) \in {"start"} => r <= k /\ r \in i..Len(l) /\ Kind(l, r) \in {"start"}
    BY FirstInIs
  <1>2. FollowerIn(l, i) = IF r = 0 THEN Unnamed ELSE Id(l, r)
    BY DEF FollowerIn, Id
  <1> HIDE DEF r
  <1>3. r = s
    BY <1>1
  <1>4. QED
    BY <1>2, <1>3

LEMMA FollowerCases ==
    ASSUME NEW l, Len(l) \in Nat, NEW i \in Nat, i > 0
    PROVE  \/ FollowerIn(l, i) = Unnamed /\ \A j \in i..Len(l) : Kind(l, j) # "start"
           \/ \E s \in i..Len(l) : /\ Kind(l, s) = "start" /\ Id(l, s) = FollowerIn(l, i)
                                   /\ \A j \in i..(s - 1) : Kind(l, j) # "start"
  <1> DEFINE r == FirstIn(l, i, Len(l), {"start"})
  <1>1. /\ r \in Nat /\ (r = 0 \/ (r \in i..Len(l) /\ Kind(l, r) \in {"start"}))
        /\ \A k \in i..Len(l) : Kind(l, k) \in {"start"} => r <= k /\ r \in i..Len(l)
    BY FirstInIs
  <1>2. FollowerIn(l, i) = IF r = 0 THEN Unnamed ELSE Id(l, r)
    BY DEF FollowerIn, Id
  <1> HIDE DEF r
  <1>3. CASE r = 0
    BY <1>1, <1>2, <1>3
  <1>4. CASE r # 0
    BY <1>1, <1>2, <1>4
  <1>5. QED
    BY <1>3, <1>4

-----------------------------------------------------------------------------
(* Turns.                                                                   *)

LEMMA TurnStep ==
    ASSUME NEW l, NEW i \in Nat, i > 0
    PROVE  InTurn(l, i) <=> Kind(l, i) = "start" \/ (Kind(l, i) # "done" /\ InTurn(l, i - 1))
  <1>1. ASSUME Kind(l, i) = "start" PROVE InTurn(l, i)
    BY <1>1 DEF InTurn
  <1>2. ASSUME Kind(l, i) # "done", InTurn(l, i - 1) PROVE InTurn(l, i)
    BY <1>2 DEF InTurn
  <1>3. ASSUME InTurn(l, i) PROVE Kind(l, i) = "start" \/ (Kind(l, i) # "done" /\ InTurn(l, i - 1))
    <2>1. PICK s \in 1..i : Kind(l, s) = "start" /\ \A j \in s..i : Kind(l, j) # "done"
      BY <1>3 DEF InTurn
    <2>2. Kind(l, i) # "done"
      BY <2>1
    <2>3. CASE s = i
      BY <2>1, <2>3
    <2>4. CASE s # i
      <3>1. s \in 1..(i - 1) /\ \A j \in s..(i - 1) : j \in s..i
        BY <2>4
      <3>2. InTurn(l, i - 1)
        BY <2>1, <3>1 DEF InTurn
      <3>3. QED
        BY <2>2, <3>2
    <2>5. QED
      BY <2>3, <2>4
  <1>4. QED
    BY <1>1, <1>2, <1>3

\* Where no turn starts or ends, the turn and the owner stay.
LEMMA CalmStays ==
    ASSUME NEW l, NEW a \in Nat, NEW b \in Nat, a <= b, Calm(l, a, b)
    PROVE  (InTurn(l, b) <=> InTurn(l, a)) /\ OwnerIn(l, b) = OwnerIn(l, a)
  <1>0. \A j \in (a + 1)..b : Kind(l, j) # "start" /\ Kind(l, j) # "done"
    BY DEF Calm
  <1>1. ASSUME InTurn(l, a) PROVE InTurn(l, b)
    <2>1. PICK s \in 1..a : Kind(l, s) = "start" /\ \A j \in s..a : Kind(l, j) # "done"
      BY <1>1 DEF InTurn
    <2>2. s \in 1..b /\ \A j \in s..b : Kind(l, j) # "done"
      BY <1>0, <2>1
    <2>3. QED
      BY <2>1, <2>2 DEF InTurn
  <1>2. ASSUME InTurn(l, b) PROVE InTurn(l, a)
    <2>1. PICK s \in 1..b : Kind(l, s) = "start" /\ \A j \in s..b : Kind(l, j) # "done"
      BY <1>2 DEF InTurn
    <2>2. s \in 1..a /\ \A j \in s..a : Kind(l, j) # "done"
      BY <1>0, <2>1
    <2>3. QED
      BY <2>1, <2>2 DEF InTurn
  <1>3. OwnerIn(l, b) = OwnerIn(l, a)
    <2>1. CASE OwnerIn(l, a) = Unnamed /\ \A j \in 1..a : Kind(l, j) # "start"
      <3>1. \A j \in 1..b : Kind(l, j) # "start"
        BY <1>0, <2>1
      <3>2. QED
        BY <2>1, <3>1, OwnerCases
    <2>2. CASE \E s \in 1..a : Kind(l, s) = "start" /\ Id(l, s) = OwnerIn(l, a)
                              /\ \A j \in (s + 1)..a : Kind(l, j) # "start"
      <3>1. PICK s \in 1..a : Kind(l, s) = "start" /\ Id(l, s) = OwnerIn(l, a)
                              /\ \A j \in (s + 1)..a : Kind(l, j) # "start"
        BY <2>2
      <3>2. s \in 1..b /\ \A j \in (s + 1)..b : Kind(l, j) # "start"
        BY <1>0, <3>1
      <3>3. QED
        BY <3>1, <3>2, OwnerOf
    <2>3. QED
      BY <2>1, <2>2, OwnerCases
  <1>4. QED
    BY <1>1, <1>2, <1>3

\* No turn runs at the beginning, at a done or at a prompt.
Rest(l, c) == c = 0 \/ Kind(l, c) \in {"done", "prompt"}

LEMMA RestIs ==
    ASSUME NEW l, LogOK(l), NEW c \in 0..Len(l), Rest(l, c)
    PROVE  ~InTurn(l, c)
  <1>1. Len(l) \in Nat
    BY LogLen
  <1>2. CASE c = 0
    BY <1>2 DEF InTurn
  <1>3. CASE c # 0
    <2>1. c \in 1..Len(l) /\ c \in Nat /\ c > 0
      BY <1>1, <1>3
    <2>2. Kind(l, c) \in {"done", "prompt"} /\ EntryFollows(l, c)
      BY <1>3, <2>1, KindIs DEF Rest
    <2>3. QED
      BY <2>1, <2>2, TurnStep DEF EntryFollows
  <1>4. QED
    BY <1>2, <1>3

\* A turn that starts after the last done is the only one since.
LEMMA OneStart ==
    ASSUME NEW l, LogOK(l), NEW s \in 1..Len(l), NEW i \in s..Len(l), Kind(l, s) = "start",
           \A j \in s..i : Kind(l, j) # "done"
    PROVE  /\ InTurn(l, i) /\ OwnerIn(l, i) = Id(l, s)
           /\ \A j \in (s + 1)..i : Kind(l, j) # "start"
  <1>1. Len(l) \in Nat /\ s \in Nat /\ i \in Nat /\ s \in 1..i
    BY LogLen
  <1>2. ASSUME NEW j \in (s + 1)..i, Kind(l, j) = "start" PROVE FALSE
    <2>1. j \in 1..Len(l) /\ s \in 1..(j - 1) /\ \A k \in s..(j - 1) : k \in s..i
      BY <1>1
    <2>2. InTurn(l, j - 1)
      BY <2>1 DEF InTurn
    <2>3. QED
      BY <1>2, <2>1, <2>2, KindIs DEF EntryFollows
  <1>3. OwnerIn(l, i) = Id(l, s)
    BY <1>1, <1>2, OwnerOf
  <1>4. InTurn(l, i)
    BY <1>1 DEF InTurn
  <1>5. QED
    BY <1>2, <1>3, <1>4

\* A start that no done stands before since c: nothing has started since c.
LEMMA Between ==
    ASSUME NEW l, LogOK(l), NEW c \in Nat, NEW i \in (c + 1)..Len(l), Kind(l, i) = "start",
           \A j \in (c + 1)..(i - 1) : Kind(l, j) # "done"
    PROVE  Calm(l, c, i - 1)
  <1>1. Len(l) \in Nat /\ i \in 1..Len(l)
    BY LogLen
  <1>2. ASSUME NEW s \in (c + 1)..(i - 1), Kind(l, s) = "start" PROVE FALSE
    <2>1. s \in 1..Len(l) /\ i - 1 \in s..Len(l) /\ \A j \in s..(i - 1) : j \in (c + 1)..(i - 1)
      BY <1>1
    <2>2. InTurn(l, i - 1)
      BY <1>2, <2>1, OneStart
    <2>3. QED
      BY <1>1, <2>2, KindIs DEF EntryFollows
  <1>3. QED
    BY <1>2 DEF Calm

\* A turn that runs at i and did not at c has started in between.
LEMMA StartedSince ==
    ASSUME NEW l, LogOK(l), NEW c \in 0..Len(l), NEW i \in c..Len(l), ~InTurn(l, c), InTurn(l, i),
           \A j \in (c + 1)..i : Kind(l, j) # "done"
    PROVE  \E s \in (c + 1)..i : Kind(l, s) = "start" /\ OwnerIn(l, i) = Id(l, s) /\ Calm(l, c, s - 1)
  <1>1. Len(l) \in Nat /\ i \in Nat /\ c \in Nat
    BY LogLen
  <1>2. PICK s \in 1..i : Kind(l, s) = "start" /\ \A j \in s..i : Kind(l, j) # "done"
    BY DEF InTurn
  <1>3. s \in (c + 1)..i
    <2>1. SUFFICES ASSUME s <= c PROVE FALSE
      BY <1>1
    <2>2. s \in 1..c /\ \A j \in s..c : j \in s..i
      BY <1>1, <2>1
    <2>3. QED
      BY <1>2, <2>2 DEF InTurn
  <1>4. OwnerIn(l, i) = Id(l, s)
    BY <1>1, <1>2, OneStart
  <1>5. Calm(l, c, s - 1)
    BY <1>1, <1>2, <1>3, Between
  <1>6. QED
    BY <1>2, <1>3, <1>4, <1>5

\* Something has started before a done, and so before a gap.
LEMMA DoneHasOwner ==
    ASSUME NEW l, LogOK(l), NEW i \in 1..Len(l), NEW j \in 1..i, Kind(l, j) = "done"
    PROVE  /\ j > 1 /\ Kind(l, j - 1) = "finish" /\ OwnerIn(l, i) \in Named
  <1>1. Len(l) \in Nat /\ j \in 1..Len(l)
    BY LogLen
  <1>2. j > 1 /\ Kind(l, j - 1) = "finish" /\ InTurn(l, j - 1)
    BY <1>1, KindIs DEF EntryFollows
  <1>3. PICK s \in 1..(j - 1) : Kind(l, s) = "start"
    BY <1>2 DEF InTurn
  <1>4. s \in 1..i
    BY <1>1, <1>2
  <1>5. PICK t \in 1..i : Kind(l, t) = "start" /\ Id(l, t) = OwnerIn(l, i)
    BY <1>3, <1>4, OwnerCases
  <1>6. QED
    BY <1>1, <1>2, <1>5, KindIs

LEMMA GapHasOwner ==
    ASSUME NEW l, LogOK(l), NEW i \in 1..Len(l), Kind(l, i) = "gap"
    PROVE  OwnerIn(l, i) \in Named /\ OwnerIn(l, i) # Unnamed /\ \E j \in 1..(i - 1) : Kind(l, j) = "done"
  <1>1. PICK j \in 1..(i - 1) : Kind(l, j) = "done"
    BY KindIs DEF EntryFollows
  <1>2. Len(l) \in Nat /\ j \in 1..i
    BY LogLen
  <1>3. QED
    BY <1>1, <1>2, DoneHasOwner, NamesAre

\* A part between two turns, after the done of a turn that waits for nothing.
LEMMA StrayAfterStop ==
    ASSUME NEW l, LogOK(l), NEW i \in 1..Len(l), Kind(l, i) = "gap", NEW c \in 1..i, Kind(l, c) = "done",
           Calm(l, c, i), StopAt(l, c - 1)
    PROVE  StrayIn(l, i)
  <1>1. Len(l) \in Nat /\ c \in Nat /\ i \in Nat /\ c < i /\ c > 1
    <2>1. c # i
      OBVIOUS
    <2>2. QED
      BY <2>1, LogLen, DoneHasOwner
  <1>2. LastIn(l, 1, i, {"start", "done"}) = c
    <2> DEFINE r == LastIn(l, 1, i, {"start", "done"})
    <2>1. /\ r \in Nat /\ (r = 0 \/ (r \in 1..i /\ Kind(l, r) \in {"start", "done"}))
          /\ \A k \in 1..i : Kind(l, k) \in {"start", "done"} => k <= r /\ r \in 1..i /\ Kind(l, r) \in {"start", "done"}
      BY <1>1, LastInIs
    <2> HIDE DEF r
    <2>2. c <= r /\ r \in 1..i /\ Kind(l, r) \in {"start", "done"}
      BY <2>1
    <2>3. ~(r \in (c + 1)..i)
      BY <2>2 DEF Calm
    <2>4. r = c
      BY <1>1, <2>1, <2>2, <2>3
    <2>5. QED
      BY <2>4 DEF r
  <1>3. LastIn(l, 1, i, {"finish"}) = c - 1
    <2> DEFINE r == LastIn(l, 1, i, {"finish"})
    <2>1. /\ r \in Nat /\ (r = 0 \/ (r \in 1..i /\ Kind(l, r) \in {"finish"}))
          /\ \A k \in 1..i : Kind(l, k) \in {"finish"} => k <= r /\ r \in 1..i /\ Kind(l, r) \in {"finish"}
      BY <1>1, LastInIs
    <2> HIDE DEF r
    <2>2. c - 1 \in 1..i /\ Kind(l, c - 1) = "finish"
      BY <1>1 DEF StopAt
    <2>3. c - 1 <= r /\ r \in 1..i /\ Kind(l, r) = "finish"
      BY <2>1, <2>2
    <2>4. Kind(l, r + 1) = "done" /\ r # c /\ r # i
      BY <1>1, <2>3, KindIs DEF EntryFollows
    <2>5. ~(r + 1 \in (c + 1)..i)
      BY <2>4 DEF Calm
    <2>6. r = c - 1
      BY <1>1, <2>3, <2>4, <2>5
    <2>7. QED
      BY <2>6 DEF r
  <1>4. QED
    BY <1>2, <1>3 DEF StrayIn, AfterStop, StopAt

\* A part between two turns, where a prompt is near.
LEMMA StrayNearPrompt ==
    ASSUME NEW l, LogOK(l), NEW i \in 1..Len(l), Kind(l, i) = "gap", ~InTurn(l, i), NearPrompt(l, i)
    PROVE  StrayIn(l, i)
  <1>1. Len(l) \in Nat /\ i \in Nat
    BY LogLen
  <1>2. PICK j \in 1..(i - 1) : Kind(l, j) = "done"
    BY GapHasOwner
  <1> DEFINE r == LastIn(l, 1, i, {"start", "done"})
  <1>3. /\ r \in Nat
        /\ \A k \in 1..i : Kind(l, k) \in {"start", "done"} => k <= r /\ r \in 1..i /\ Kind(l, r) \in {"start", "done"}
    BY <1>1, LastInIs
  <1>4. Kind(l, r) = "done"
    <2> HIDE DEF r
    <2>1. j \in 1..i /\ r \in 1..i /\ Kind(l, r) \in {"start", "done"}
      BY <1>1, <1>2, <1>3
    <2>2. ASSUME Kind(l, r) = "start" PROVE FALSE
      <3>1. ASSUME NEW k \in r..i, Kind(l, k) = "done" PROVE FALSE
        <4>1. k \in 1..i /\ k <= r
          BY <1>1, <1>3, <2>1, <3>1
        <4>2. k = r
          BY <2>1, <4>1
        <4>3. QED
          BY <2>2, <3>1, <4>2
      <3>2. QED
        BY <2>1, <2>2, <3>1 DEF InTurn
    <2>3. QED
      BY <2>1, <2>2
  <1>5. QED
    BY <1>4 DEF StrayIn

-----------------------------------------------------------------------------
(* Messages.                                                                *)

In(msg, x) == \E j \in 1..Len(msg.seen) : msg.seen[j] = x
Behind(msg, at) == \A j \in 1..Len(msg.seen) : msg.seen[j] <= at

\* Entry i may stand in message m; sp are the messages that were split.
OwnedBy(l, sp, m, i) ==
    \/ OwnerIn(l, i) = m
    \/ /\ Kind(l, i) = "gap"
       /\ StrayIn(l, i) \/ FollowerIn(l, i) \in sp
       /\ m \in {Unnamed, FollowerIn(l, i)}

OwnPart(l, sp, m, i) == i \in 1..Len(l) /\ Kind(l, i) \in Parts /\ OwnedBy(l, sp, m, i)

Owned(l, sp, msg) ==
    /\ \A j \in 1..Len(msg.seen) : OwnPart(l, sp, msg.m, msg.seen[j])
    /\ \A j, k \in 1..Len(msg.seen) : j < k => msg.seen[j] < msg.seen[k]

\* The thread waits for the answer to a card, and the message of the card is the last.
Answering(h) == h.waits = "answer" /\ ~h.prompted

\* A part reported since the last turn ended.
LateGap(l, g) == Kind(l, g) = "gap" /\ Calm(l, g, Len(l))

\* The message an answer would continue has the late parts up to any it has.
InOrder(l, h, msg) ==
    Answering(h) /\ msg.m = h.m => \A x \in 1..Len(l) : In(msg, x) => \A g \in 1..x : LateGap(l, g) => In(msg, g)

\* What the chat may hold.
Shown(l, h, sp) == {msg \in Messages : Owned(l, sp, msg) /\ InOrder(l, h, msg)}

Empty(m) == [m |-> m, seen |-> <<>>]

LEMMA MessageIs ==
    ASSUME NEW msg \in Messages
    PROVE  /\ msg.m \in Names /\ msg.seen \in Seq(Nat) /\ Len(msg.seen) \in Nat
           /\ msg = [m |-> msg.m, seen |-> msg.seen]
           /\ \A j \in 1..Len(msg.seen) : msg.seen[j] \in Nat
  <1>1. msg.m \in Names /\ msg.seen \in Seq(Nat) /\ msg = [m |-> msg.m, seen |-> msg.seen]
    BY DEF Messages
  <1>2. QED
    BY <1>1

LEMMA EmptyIs ==
    ASSUME NEW m \in Names
    PROVE  /\ Empty(m) \in Messages /\ Empty(m).m = m /\ Empty(m).seen = <<>> /\ Len(Empty(m).seen) = 0
           /\ \A l, sp : Owned(l, sp, Empty(m))
           /\ \A l, h : InOrder(l, h, Empty(m))
           /\ \A l, h, sp : Empty(m) \in Shown(l, h, sp)
           /\ \A x : ~In(Empty(m), x)
           /\ \A at : Behind(Empty(m), at)
  <1>1. Empty(m) \in Messages /\ Empty(m).m = m /\ Empty(m).seen = <<>> /\ Len(Empty(m).seen) = 0
    BY DEF Empty, Messages
  <1>2. \A l, sp : Owned(l, sp, Empty(m))
    BY <1>1 DEF Owned
  <1>3. \A x : ~In(Empty(m), x)
    BY <1>1 DEF In
  <1>4. \A l, h : InOrder(l, h, Empty(m))
    BY <1>3 DEF InOrder
  <1>5. \A at : Behind(Empty(m), at)
    BY <1>1 DEF Behind
  <1>6. QED
    BY <1>1, <1>2, <1>3, <1>4, <1>5 DEF Shown

LEMMA BlankIs ==
    Blank = Empty(Unnamed) /\ Blank \in Messages /\ Blank.m = Unnamed
  BY EmptyIs, NamesAre DEF Blank, Empty

LEMMA InRange ==
    ASSUME NEW msg \in Messages, NEW x PROVE x \in Range(msg.seen) <=> In(msg, x)
  <1>1. msg.seen \in Seq(Nat)
    BY MessageIs
  <1>2. DOMAIN msg.seen = 1..Len(msg.seen)
    BY <1>1
  <1>3. QED
    BY <1>2 DEF Range, In

\* What the reader makes of an entry.
LEMMA ReadChunkIs ==
    ASSUME NEW msg \in Messages, NEW i \in Nat
    PROVE  /\ Kind(log, i) = "start" => ReadChunk(msg, i) = [m |-> Id(log, i), seen |-> msg.seen]
           /\ Kind(log, i) \in {"prompt", "finish", "done"} => ReadChunk(msg, i) = msg
           /\ Kind(log, i) = "gap" /\ In(msg, i) => ReadChunk(msg, i) = msg
           /\ Kind(log, i) \in Parts /\ ~(Kind(log, i) = "gap" /\ In(msg, i)) =>
                 ReadChunk(msg, i) = [m |-> msg.m, seen |-> Append(msg.seen, i)]
  <1>1. msg = [m |-> msg.m, seen |-> msg.seen]
    BY MessageIs
  <1> DEFINE s == msg.seen
             n == msg.m
  <1>2. msg = [m |-> n, seen |-> s] /\ msg.m = n /\ msg.seen = s
    BY <1>1
  <1> HIDE DEF s, n
  <1>3. ASSUME Kind(log, i) = "start" PROVE ReadChunk(msg, i) = [m |-> Id(log, i), seen |-> s]
    <2> DEFINE x == Id(log, i)
    <2>1. ReadChunk(msg, i) = [msg EXCEPT !.m = x]
      BY <1>3 DEF ReadChunk, Kind, Id
    <2> HIDE DEF x
    <2>2. ReadChunk(msg, i) = [m |-> x, seen |-> s]
      BY <1>2, <2>1
    <2>3. QED
      BY <2>2 DEF x
  <1>4. ASSUME Kind(log, i) \in {"prompt", "finish", "done"} PROVE ReadChunk(msg, i) = msg
    BY <1>4 DEF ReadChunk, Kind, Parts
  <1>5. i \in Range(msg.seen) <=> In(msg, i)
    BY InRange
  <1>6. ASSUME Kind(log, i) = "gap", In(msg, i) PROVE ReadChunk(msg, i) = msg
    BY <1>5, <1>6 DEF ReadChunk, Kind, Parts
  <1>7. ASSUME Kind(log, i) \in Parts, ~(Kind(log, i) = "gap" /\ In(msg, i))
        PROVE  ReadChunk(msg, i) = [m |-> n, seen |-> Append(s, i)]
    <2>1. ReadChunk(msg, i) = [msg EXCEPT !.seen = Append(@, i)]
      BY <1>5, <1>7 DEF ReadChunk, Kind, Parts
    <2>2. QED
      BY <1>2, <2>1
  <1>8. QED
    BY <1>2, <1>3, <1>4, <1>6, <1>7

\* A part goes into a message: at its end, or where it stands.
Adds(l, sp, msg, b, i) ==
    /\ b \in Messages /\ b.m = msg.m /\ Owned(l, sp, b)
    /\ \A x : In(b, x) <=> (In(msg, x) \/ x = i)

LEMMA PartAdds ==
    ASSUME NEW sp, NEW msg \in Messages, NEW i \in 1..Len(log), log \in Seq(Entries), Owned(log, sp, msg),
           OwnPart(log, sp, msg.m, i),
           Behind(msg, i - 1) \/ (Kind(log, i) = "gap" /\ In(msg, i))
    PROVE  Adds(log, sp, msg, ReadChunk(msg, i), i)
  <1> DEFINE s == msg.seen
             t == Append(s, i)
             n == Len(s)
             b == [m |-> msg.m, seen |-> t]
  <1>1. msg.m \in Names /\ s \in Seq(Nat) /\ n \in Nat /\ i \in Nat /\ \A j \in 1..n : s[j] \in Nat
    BY MessageIs
  <1>2. CASE Kind(log, i) = "gap" /\ In(msg, i)
    BY <1>1, <1>2, ReadChunkIs DEF Adds
  <1>3. CASE ~(Kind(log, i) = "gap" /\ In(msg, i))
    <2>1. ReadChunk(msg, i) = b /\ Behind(msg, i - 1)
      BY <1>1, <1>3, ReadChunkIs DEF OwnPart
    <2>2. t \in Seq(Nat) /\ Len(t) = n + 1 /\ t[n + 1] = i /\ \A j \in 1..n : t[j] = s[j]
      BY <1>1
    <2>3. b.m = msg.m /\ b.seen = t /\ b \in Messages
      BY <1>1, <2>2 DEF Messages
    <2> HIDE DEF t, b, n, s
    <2>4. \A j \in 1..(n + 1) : j \in 1..n \/ j = n + 1
      BY <1>1
    <2>5. \A j \in 1..n : s[j] <= i - 1
      BY <2>1 DEF Behind, s, n
    <2>6. \A j \in 1..n : OwnPart(log, sp, msg.m, s[j])
      BY DEF Owned, s, n
    <2>7. \A j \in 1..(n + 1) : OwnPart(log, sp, msg.m, t[j])
      BY <2>2, <2>4, <2>6
    <2>8. ASSUME NEW j \in 1..(n + 1), NEW k \in 1..(n + 1), j < k PROVE t[j] < t[k]
      <3>1. j \in 1..n /\ t[j] = s[j] /\ s[j] \in Nat /\ s[j] <= i - 1
        BY <1>1, <2>2, <2>4, <2>5, <2>8
      <3>2. CASE k \in 1..n
        <4>1. s[j] < s[k]
          BY <2>8, <3>1, <3>2 DEF Owned, s, n
        <4>2. QED
          BY <2>2, <3>1, <3>2, <4>1
      <3>3. CASE k = n + 1
        BY <1>1, <2>2, <3>1, <3>3
      <3>4. QED
        BY <2>4, <3>2, <3>3
    <2>9. Owned(log, sp, b)
      BY <2>2, <2>3, <2>7, <2>8 DEF Owned
    <2>10. ASSUME NEW x PROVE In(b, x) <=> (In(msg, x) \/ x = i)
      <3>1. In(b, x) <=> \E j \in 1..(n + 1) : t[j] = x
        BY <2>2, <2>3 DEF In
      <3>2. In(msg, x) <=> \E j \in 1..n : s[j] = x
        BY DEF In, s, n
      <3>3. \A j \in 1..n : j \in 1..(n + 1)
        BY <1>1
      <3>4. n + 1 \in 1..(n + 1)
        BY <1>1
      <3>5. QED
        BY <2>2, <2>4, <3>1, <3>2, <3>3, <3>4
    <2>11. QED
      BY <2>1, <2>3, <2>9, <2>10 DEF Adds
  <1>4. QED
    BY <1>2, <1>3

LEMMA InOwned ==
    ASSUME NEW l, NEW sp, NEW msg, Owned(l, sp, msg), NEW x, In(msg, x)
    PROVE  OwnPart(l, sp, msg.m, x)
  BY DEF In, Owned

LEMMA BehindIn ==
    ASSUME NEW msg \in Messages, NEW at
    PROVE  Behind(msg, at) <=> \A x \in Nat : In(msg, x) => x <= at
  <1>1. \A j \in 1..Len(msg.seen) : msg.seen[j] \in Nat
    BY MessageIs
  <1>2. QED
    BY <1>1 DEF Behind, In

-----------------------------------------------------------------------------
(* The chat, a sequence over a set of messages.                             *)

LEMMA WriteIs ==
    ASSUME NEW G, NEW messages \in Seq(G), NEW msg \in G
    PROVE  WriteMessage(messages, msg) \in Seq(G)
  <1>1. CASE messages # <<>> /\ Last(messages).m = msg.m
    BY <1>1 DEF WriteMessage
  <1>2. CASE ~(messages # <<>> /\ Last(messages).m = msg.m)
    BY <1>2 DEF WriteMessage
  <1>3. QED
    BY <1>1, <1>2

LEMMA EnqueueIs ==
    ASSUME NEW G, NEW messages \in Seq(G), NEW msg, NEW built \in G
    PROVE  Enqueue(messages, msg, built) \in Seq(G)
  BY WriteIs DEF Enqueue

LEMMA OpenedIs ==
    ASSUME NEW G, NEW messages \in Seq(G), NEW m, Empty(m) \in G
    PROVE  Opened(messages, m) \in Seq(G)
  BY DEF Opened, Empty

\* The newest of the copies of a message.
LEMMA NewestIs ==
    ASSUME NEW G, NEW messages \in Seq(G), NEW i \in 1..Len(messages)
    PROVE  \E j \in 1..Len(messages) :
              messages[i].m = messages[j].m /\ \A k \in 1..Len(messages) : messages[i].m = messages[k].m => k <= j
  <1> DEFINE S == {j \in 1..Len(messages) : messages[i].m = messages[j].m}
  <1>1. S \in SUBSET (0..Len(messages)) /\ S # {} /\ Len(messages) \in Nat
    OBVIOUS
  <1> HIDE DEF S
  <1>2. PICK j \in S : \A k \in S : k <= j
    BY <1>1, GreatestNat
  <1>3. QED
    BY <1>2 DEF S

LEMMA OneEntryIs ==
    ASSUME NEW G, NEW messages \in Seq(G)
    PROVE  OneEntryPerId(messages) \in Seq(G)
  <1> DEFINE n == Len(messages)
             D == Seq(G)
             Same(i, j) == messages[i].m = messages[j].m
             newest(i) == CHOOSE j \in DOMAIN messages :
                             Same(i, j) /\ \A k \in DOMAIN messages : Same(i, k) => k <= j
             Step(r, i) == IF \E j \in 1..(i - 1) : Same(i, j) THEN r ELSE Append(r, messages[newest(i)])
             F == [p \in D \X (1..n) |-> Step(p[1], p[2])]
  <1>1. n \in Nat /\ DOMAIN messages = 1..n
    OBVIOUS
  <1>2. ASSUME NEW i \in 1..n PROVE messages[newest(i)] \in G
    <2>1. \E j \in DOMAIN messages : Same(i, j) /\ \A k \in DOMAIN messages : Same(i, k) => k <= j
      BY <1>1, NewestIs
    <2>2. newest(i) \in DOMAIN messages
      BY <2>1
    <2> HIDE DEF newest
    <2>3. QED
      BY <1>1, <2>2
  <1>3. ASSUME NEW r \in D, NEW i \in 1..n PROVE Step(r, i) \in D
    <2>1. messages[newest(i)] \in G
      BY <1>2
    <2> HIDE DEF newest
    <2>2. QED
      BY <2>1
  <1>4. <<>> \in D
    OBVIOUS
  <1>5. \E g \in [0..n -> D] : g = [i \in 0..n |-> IF i = 0 THEN <<>> ELSE Step(g[i - 1], i)]
    <2> HIDE DEF Step, D
    <2>1. \A d \in D : \A i \in 1..n : F[<<d, i>>] = Step(d, i)
      OBVIOUS
    <2>2. KeepsIn(F, D, n)
      BY <1>3, <2>1 DEF KeepsIn
    <2> HIDE DEF F
    <2>3. PICK g \in [0..n -> D] : Recurs(g, <<>>, F, n)
      BY <1>1, <1>4, <2>2, RecursionExists
    <2>4. \A i \in 1..n : g[i] = Step(g[i - 1], i)
      <3>1. \A i \in 1..n : i - 1 \in 0..n
        BY <1>1
      <3>2. \A i \in 1..n : g[i - 1] \in D
        BY <2>3, <3>1
      <3>3. QED
        BY <2>1, <2>3, <3>2 DEF Recurs
    <2>5. g[0] = <<>>
      BY <2>3 DEF Recurs
    <2>6. g = [i \in 0..n |-> IF i = 0 THEN <<>> ELSE Step(g[i - 1], i)]
      BY <1>1, <2>3, <2>4, <2>5
    <2>7. QED
      BY <2>3, <2>6
  <1> DEFINE kept == CHOOSE g : g = [i \in 0..n |-> IF i = 0 THEN <<>> ELSE Step(g[i - 1], i)]
  <1>6. OneEntryPerId(messages) = kept[n]
    BY DEF OneEntryPerId
  <1>7. kept = [i \in 0..n |-> IF i = 0 THEN <<>> ELSE Step(kept[i - 1], i)]
    <2> HIDE DEF Step
    <2>1. QED
      BY <1>5
  <1> HIDE DEF kept, Step, D
  <1>8. \A i \in 0..n : i \in {k \in 0..n : kept[k] \in D}
    <2> DEFINE S == {k \in 0..n : kept[k] \in D}
    <2>1. kept[0] = <<>> /\ \A i \in 1..n : kept[i] = Step(kept[i - 1], i)
      BY <1>1, <1>7
    <2>2. 0 \in S
      BY <1>1, <1>4, <2>1
    <2>3. \A i \in 1..n : i - 1 \in S => i \in S
      BY <1>1, <1>3, <2>1
    <2> HIDE DEF S
    <2>4. \A i \in 0..n : i \in S
      BY <1>1, <2>2, <2>3, UpTo
    <2>5. QED
      BY <2>4 DEF S
  <1>9. QED
    BY <1>1, <1>6, <1>8 DEF D

LEMMA PushIs ==
    ASSUME NEW G, NEW messages \in Seq(G), NEW pending, pending = <<>> \/ \E p \in G : pending = <<p>>
    PROVE  Push(messages, pending) \in Seq(G)
  <1>1. CASE pending = <<>>
    BY <1>1 DEF Push
  <1>2. CASE pending # <<>>
    <2>1. PICK p \in G : pending = <<p>>
      BY <1>2
    <2>2. pending[1] = p
      BY <2>1
    <2>3. QED
      BY <1>2, <2>2 DEF Push
  <1>3. QED
    BY <1>1, <1>2

LEMMA SeqWider ==
    ASSUME NEW G, NEW H, G \subseteq H, NEW messages \in Seq(G) PROVE messages \in Seq(H)
  OBVIOUS

-----------------------------------------------------------------------------
(* The log grows at its end.                                                *)

Grown(l, g) == Len(l) <= Len(g) /\ \A i \in 1..Len(l) : g[i] = l[i]

LEMMA EntriesStay ==
    ASSUME NEW l, NEW g, l \in Seq(Entries), g \in Seq(Entries), Grown(l, g)
    PROVE  /\ Len(l) \in Nat /\ Len(g) \in Nat /\ Len(l) <= Len(g)
           /\ \A i \in 1..Len(l) : Kind(g, i) = Kind(l, i) /\ Id(g, i) = Id(l, i)
  BY DEF Grown, Kind, Id

LEMMA OwnerGrows ==
    ASSUME NEW l, NEW g, l \in Seq(Entries), g \in Seq(Entries), Grown(l, g), NEW i \in 0..Len(l)
    PROVE  OwnerIn(g, i) = OwnerIn(l, i) /\ (InTurn(g, i) <=> InTurn(l, i))
  <1>1. /\ Len(l) \in Nat /\ Len(g) \in Nat /\ Len(l) <= Len(g) /\ i \in Nat
        /\ \A j \in 1..Len(l) : Kind(g, j) = Kind(l, j) /\ Id(g, j) = Id(l, j)
    BY EntriesStay
  <1>2. \A j \in 1..i : Kind(g, j) = Kind(l, j) /\ Id(g, j) = Id(l, j)
    BY <1>1
  <1>3. InTurn(g, i) <=> InTurn(l, i)
    BY <1>1, <1>2 DEF InTurn
  <1>4. CASE OwnerIn(l, i) = Unnamed /\ \A j \in 1..i : Kind(l, j) # "start"
    <2>1. \A j \in 1..i : Kind(g, j) # "start"
      BY <1>2, <1>4
    <2>2. OwnerIn(g, i) = Unnamed
      BY <1>1, <2>1, OwnerCases
    <2>3. QED
      BY <1>3, <1>4, <2>2
  <1>5. CASE \E s \in 1..i : Kind(l, s) = "start" /\ Id(l, s) = OwnerIn(l, i)
                            /\ \A j \in (s + 1)..i : Kind(l, j) # "start"
    <2>1. PICK s \in 1..i : Kind(l, s) = "start" /\ Id(l, s) = OwnerIn(l, i)
                            /\ \A j \in (s + 1)..i : Kind(l, j) # "start"
      BY <1>5
    <2>2. Kind(g, s) = "start" /\ Id(g, s) = Id(l, s) /\ \A j \in (s + 1)..i : Kind(g, j) # "start"
      BY <1>1, <1>2, <2>1
    <2>3. OwnerIn(g, i) = Id(g, s)
      BY <1>1, <2>2, OwnerOf
    <2>4. QED
      BY <1>3, <2>1, <2>2, <2>3
  <1>6. QED
    BY <1>1, <1>4, <1>5, OwnerCases

LEMMA FollowerGrows ==
    ASSUME NEW l, NEW g, l \in Seq(Entries), g \in Seq(Entries), Grown(l, g), NEW i \in 1..Len(l)
    PROVE  FollowerIn(l, i) = Unnamed \/ FollowerIn(g, i) = FollowerIn(l, i)
  <1>1. /\ Len(l) \in Nat /\ Len(g) \in Nat /\ Len(l) <= Len(g) /\ i \in Nat /\ i > 0
        /\ \A j \in 1..Len(l) : Kind(g, j) = Kind(l, j) /\ Id(g, j) = Id(l, j)
    BY EntriesStay
  <1>2. SUFFICES ASSUME FollowerIn(l, i) # Unnamed PROVE FollowerIn(g, i) = FollowerIn(l, i)
    OBVIOUS
  <1>3. PICK s \in i..Len(l) : Kind(l, s) = "start" /\ Id(l, s) = FollowerIn(l, i)
                               /\ \A j \in i..(s - 1) : Kind(l, j) # "start"
    BY <1>1, <1>2, FollowerCases
  <1>4. s \in i..Len(g) /\ Kind(g, s) = "start" /\ Id(g, s) = Id(l, s) /\ \A j \in i..(s - 1) : Kind(g, j) # "start"
    BY <1>1, <1>3
  <1>5. FollowerIn(g, i) = Id(g, s)
    BY <1>1, <1>4, FollowerOf
  <1>6. QED
    BY <1>3, <1>4, <1>5

LEMMA LastGrows ==
    ASSUME NEW l, NEW g, l \in Seq(Entries), g \in Seq(Entries), Grown(l, g), NEW i \in 1..Len(l), NEW K
    PROVE  LastIn(g, 1, i, K) = LastIn(l, 1, i, K)
  <1>1. \A j \in 1..i : g[j] = l[j]
    BY DEF Grown
  <1> DEFINE S == {j \in 1..i : g[j].k \in K}
             T == {j \in 1..i : l[j].k \in K}
             Greatest(U) == IF U = {} THEN 0 ELSE CHOOSE j \in U : \A k \in U : k <= j
  <1>2. S = T
    BY <1>1
  <1>3. LastIn(g, 1, i, K) = Greatest(S) /\ LastIn(l, 1, i, K) = Greatest(T)
    BY DEF LastIn
  <1> HIDE DEF S, T, Greatest
  <1>4. QED
    BY <1>2, <1>3

LEMMA StrayGrows ==
    ASSUME NEW l, NEW g, LogOK(l), g \in Seq(Entries), Grown(l, g), NEW i \in 1..Len(l), StrayIn(l, i)
    PROVE  StrayIn(g, i)
  <1>1. /\ Len(l) \in Nat /\ Len(g) \in Nat /\ Len(l) <= Len(g) /\ i \in Nat /\ l \in Seq(Entries)
        /\ \A j \in 1..Len(l) : Kind(g, j) = Kind(l, j) /\ Id(g, j) = Id(l, j)
    BY EntriesStay, LogLen
  <1>2. Kind(l, i) = "gap" /\ Kind(l, LastIn(l, 1, i, {"start", "done"})) = "done"
    BY DEF StrayIn
  <1>3. PICK j \in 1..(i - 1) : Kind(l, j) = "done"
    BY <1>2, GapHasOwner
  <1>4. j > 1 /\ Kind(l, j - 1) = "finish"
    BY <1>1, <1>3, DoneHasOwner
  <1>5. LastIn(l, 1, i, {"start", "done"}) \in 1..i
    BY <1>1, <1>3, LastInIs
  <1>6. LastIn(l, 1, i, {"finish"}) \in 1..i
    BY <1>1, <1>3, <1>4, LastInIs
  <1>7. /\ LastIn(g, 1, i, {"start", "done"}) = LastIn(l, 1, i, {"start", "done"})
        /\ LastIn(g, 1, i, {"finish"}) = LastIn(l, 1, i, {"finish"})
    BY <1>1, LastGrows
  <1>8. Kind(g, i) = "gap" /\ Kind(g, LastIn(g, 1, i, {"start", "done"})) = "done"
    BY <1>1, <1>2, <1>5, <1>7
  <1>9. AfterStop(l, i) => AfterStop(g, i)
    BY <1>1, <1>6, <1>7 DEF AfterStop
  <1>10. NearPrompt(l, i) => NearPrompt(g, i)
    <2>1. SUFFICES ASSUME NearPrompt(l, i) PROVE NearPrompt(g, i)
      OBVIOUS
    <2>2. PICK p \in 1..Len(l) : Kind(l, p) = "prompt"
                /\ \A k \in (i..p) \cup (p..i) : Kind(l, k) \notin {"start", "done"}
      BY <2>1 DEF NearPrompt
    <2>3. \A k \in (i..p) \cup (p..i) : k \in 1..Len(l)
      BY <1>1
    <2>4. p \in 1..Len(g) /\ Kind(g, p) = "prompt"
          /\ \A k \in (i..p) \cup (p..i) : Kind(g, k) \notin {"start", "done"}
      BY <1>1, <2>2, <2>3
    <2>5. QED
      BY <2>4 DEF NearPrompt
  <1>11. QED
    BY <1>8, <1>9, <1>10 DEF StrayIn

LEMMA CalmGrows ==
    ASSUME NEW l, NEW g, l \in Seq(Entries), g \in Seq(Entries), Grown(l, g), NEW a \in Nat, NEW b \in 0..Len(l)
    PROVE  Calm(g, a, b) <=> Calm(l, a, b)
  <1>1. Len(l) \in Nat /\ \A j \in 1..Len(l) : Kind(g, j) = Kind(l, j)
    BY EntriesStay
  <1>2. \A j \in (a + 1)..b : j \in 1..Len(l)
    BY <1>1
  <1>3. QED
    BY <1>1, <1>2 DEF Calm

\* A message keeps its parts, whatever is logged and whatever else is split.
LEMMA OwnedGrows ==
    ASSUME NEW l, NEW g, LogOK(l), g \in Seq(Entries), Grown(l, g),
           NEW sp, NEW sq, sp \subseteq sq, sp \subseteq Named, NEW msg \in Messages, Owned(l, sp, msg)
    PROVE  Owned(g, sq, msg)
  <1>1. /\ Len(l) \in Nat /\ Len(g) \in Nat /\ Len(l) <= Len(g) /\ l \in Seq(Entries)
        /\ \A j \in 1..Len(l) : Kind(g, j) = Kind(l, j) /\ Id(g, j) = Id(l, j)
    BY EntriesStay, LogLen
  <1>2. ASSUME NEW i, OwnPart(l, sp, msg.m, i) PROVE OwnPart(g, sq, msg.m, i)
    <2>1. i \in 1..Len(l) /\ Kind(l, i) \in Parts /\ OwnedBy(l, sp, msg.m, i) /\ i \in 0..Len(l)
      BY <1>1, <1>2 DEF OwnPart
    <2>2. i \in 1..Len(g) /\ Kind(g, i) = Kind(l, i)
      BY <1>1, <2>1
    <2>3. OwnerIn(g, i) = OwnerIn(l, i)
      BY <1>1, <2>1, OwnerGrows
    <2>4. StrayIn(l, i) => StrayIn(g, i)
      BY <2>1, StrayGrows
    <2>5. FollowerIn(l, i) = Unnamed \/ FollowerIn(g, i) = FollowerIn(l, i)
      BY <1>1, <2>1, FollowerGrows
    <2>6. FollowerIn(l, i) \in sp => FollowerIn(g, i) \in sq
      BY <2>5, NamesAre
    <2>7. msg.m \in {Unnamed, FollowerIn(l, i)} => msg.m \in {Unnamed, FollowerIn(g, i)}
      BY <2>5
    <2>8. OwnedBy(g, sq, msg.m, i)
      BY <2>1, <2>2, <2>3, <2>4, <2>6, <2>7 DEF OwnedBy
    <2>9. QED
      BY <2>1, <2>2, <2>8 DEF OwnPart
  <1>3. QED
    BY <1>2 DEF Owned

\* The thread does not begin to wait for an answer, but where a turn just ended.
NoNewAnswer(l, g, h, k) ==
    Answering(k) => \/ Answering(h) /\ k.m = h.m
                    \/ \A x \in 1..Len(g) : ~LateGap(g, x)

LEMMA LateWas ==
    ASSUME NEW l, NEW g, LogOK(l), g \in Seq(Entries), Grown(l, g), NEW x \in 1..Len(l), LateGap(g, x)
    PROVE  LateGap(l, x)
  <1>1. /\ Len(l) \in Nat /\ Len(g) \in Nat /\ Len(l) <= Len(g) /\ l \in Seq(Entries) /\ x \in Nat
        /\ \A j \in 1..Len(l) : Kind(g, j) = Kind(l, j)
    BY EntriesStay, LogLen
  <1>2. Calm(g, x, Len(l))
    BY <1>1 DEF LateGap, Calm
  <1>3. QED
    BY <1>1, <1>2, CalmGrows DEF LateGap

LEMMA InOrderGrows ==
    ASSUME NEW l, NEW g, LogOK(l), g \in Seq(Entries), Grown(l, g), NEW h, NEW k, NoNewAnswer(l, g, h, k),
           NEW sp, NEW msg \in Messages, Owned(l, sp, msg), InOrder(l, h, msg)
    PROVE  InOrder(g, k, msg)
  <1>1. Len(l) \in Nat /\ Len(g) \in Nat /\ Len(l) <= Len(g) /\ l \in Seq(Entries)
    BY EntriesStay, LogLen
  <1>2. SUFFICES ASSUME Answering(k), msg.m = k.m, NEW x \in 1..Len(g), In(msg, x), NEW y \in 1..x, LateGap(g, y)
                 PROVE  In(msg, y)
    BY DEF InOrder
  <1>3. x \in 1..Len(l) /\ y \in 1..Len(l) /\ y \in 1..Len(g)
    BY <1>1, <1>2, InOwned DEF OwnPart
  <1>4. Answering(h) /\ msg.m = h.m
    BY <1>2, <1>3 DEF NoNewAnswer
  <1>5. LateGap(l, y)
    BY <1>2, <1>3, LateWas
  <1>6. QED
    BY <1>2, <1>3, <1>4, <1>5 DEF InOrder

LEMMA ShownGrows ==
    ASSUME NEW l, NEW g, LogOK(l), g \in Seq(Entries), Grown(l, g), NEW h, NEW k, NoNewAnswer(l, g, h, k),
           NEW sp, NEW sq, sp \subseteq sq, sp \subseteq Named
    PROVE  Shown(l, h, sp) \subseteq Shown(g, k, sq)
  BY OwnedGrows, InOrderGrows DEF Shown

-----------------------------------------------------------------------------
(* The snapshot.                                                            *)

\* What a snapshot up to b may hold.
Kept(b) == {msg \in Messages : Owned(log, {}, msg) /\ Behind(msg, b)}

\* The message that is built at i: its turn's, or parts a task reports after a prompt.
Pending(p, i) ==
    /\ Owned(log, {}, p) /\ Behind(p, i)
    /\ \/ p.m \in Named /\ p.m = OwnerIn(log, i)
       \/ /\ p.m = Unnamed
          /\ \E q \in 1..i : Kind(log, q) = "prompt" /\ Calm(log, q, i) /\ \A x \in 1..q : ~In(p, x)

SnapshotOK(b, r, i) ==
    /\ r.messages \in Seq(Kept(b))
    /\ \/ r.pending = <<>> /\ (i = 0 \/ Kind(log, i) = "prompt")
       \/ \E p \in Messages : r.pending = <<p>> /\ Pending(p, i)

LEMMA BehindLater ==
    ASSUME NEW msg \in Messages, NEW a \in Nat, NEW b \in Nat, a <= b, Behind(msg, a)
    PROVE  Behind(msg, b)
  <1>1. \A j \in 1..Len(msg.seen) : msg.seen[j] \in Nat
    BY MessageIs
  <1>2. QED
    BY <1>1 DEF Behind

LEMMA PendingIsKept ==
    ASSUME NEW b \in Nat, NEW i \in 0..b, NEW p \in Messages, Pending(p, i)
    PROVE  p \in Kept(b)
  BY BehindLater DEF Kept, Pending

\* A part after a prompt, with no turn since, belongs to no turn.
LEMMA AfterPrompt ==
    ASSUME LogOK(log), NEW i \in 1..Len(log), NEW q \in 1..(i - 1), Kind(log, q) = "prompt", Calm(log, q, i - 1),
           Kind(log, i) \notin {"start", "prompt"}
    PROVE  Kind(log, i) = "gap" /\ StrayIn(log, i) /\ Calm(log, q, i)
  <1>1. Len(log) \in Nat /\ i \in Nat /\ q \in Nat /\ q \in 0..Len(log) /\ i - 1 \in Nat /\ q <= i - 1
    BY LogLen
  <1>2. ~InTurn(log, q) /\ ~InTurn(log, i - 1)
    BY <1>1, RestIs, CalmStays DEF Rest
  <1>3. Kind(log, i) = "gap"
    BY <1>2, KindIs DEF EntryFollows
  <1>4. Calm(log, q, i)
    BY <1>1, <1>3 DEF Calm
  <1>5. ~InTurn(log, i)
    BY <1>1, <1>2, <1>4, CalmStays
  <1>6. NearPrompt(log, i)
    <2>1. \A j \in (i..q) \cup (q..i) : j = q \/ j \in (q + 1)..i
      BY <1>1
    <2>2. \A j \in (i..q) \cup (q..i) : Kind(log, j) \notin {"start", "done"}
      BY <1>4, <2>1 DEF Calm
    <2>3. q \in 1..Len(log)
      BY <1>1
    <2>4. QED
      BY <2>2, <2>3 DEF NearPrompt
  <1>7. QED
    BY <1>3, <1>4, <1>5, <1>6, StrayNearPrompt

LEMMA OwnerStep ==
    ASSUME NEW l, NEW i \in Nat, i > 0
    PROVE  OwnerIn(l, i) = IF Kind(l, i) = "start" THEN Id(l, i) ELSE OwnerIn(l, i - 1)
  <1>1. CASE Kind(l, i) = "start"
    <2>1. i \in 1..i /\ \A j \in (i + 1)..i : Kind(l, j) # "start"
      OBVIOUS
    <2>2. QED
      BY <1>1, <2>1, OwnerOf
  <1>2. CASE Kind(l, i) # "start"
    <2>1. CASE OwnerIn(l, i - 1) = Unnamed /\ \A j \in 1..(i - 1) : Kind(l, j) # "start"
      <3>1. \A j \in 1..i : Kind(l, j) # "start"
        BY <1>2, <2>1
      <3>2. QED
        BY <1>2, <2>1, <3>1, OwnerCases
    <2>2. CASE \E s \in 1..(i - 1) : Kind(l, s) = "start" /\ Id(l, s) = OwnerIn(l, i - 1)
                                    /\ \A j \in (s + 1)..(i - 1) : Kind(l, j) # "start"
      <3>1. PICK s \in 1..(i - 1) : Kind(l, s) = "start" /\ Id(l, s) = OwnerIn(l, i - 1)
                                    /\ \A j \in (s + 1)..(i - 1) : Kind(l, j) # "start"
        BY <2>2
      <3>2. s \in 1..i /\ \A j \in (s + 1)..i : Kind(l, j) # "start"
        BY <1>2, <3>1
      <3>3. QED
        BY <1>2, <3>1, <3>2, OwnerOf
    <2>3. i - 1 \in Nat
      OBVIOUS
    <2>4. QED
      BY <2>1, <2>2, <2>3, OwnerCases
  <1>3. QED
    BY <1>1, <1>2

\* What the snapshot makes of an entry that is no prompt: from nothing, ...
LEMMA FirstPiece ==
    ASSUME LogOK(log), NEW i \in 1..Len(log), Kind(log, i) # "prompt",
           Kind(log, i) = "start" \/ i = 1 \/ Kind(log, i - 1) = "prompt"
    PROVE  ReadChunk(Blank, i) \in Messages /\ Pending(ReadChunk(Blank, i), i)
  <1>1. Len(log) \in Nat /\ i \in Nat /\ i > 0 /\ log \in Seq(Entries)
    BY LogLen
  <1> DEFINE b == ReadChunk(Blank, i)
  <1>2. CASE Kind(log, i) = "start"
    <2>1. Blank.seen = <<>>
      BY DEF Blank
    <2>2. b = Empty(Id(log, i))
      BY <1>1, <1>2, <2>1, ReadChunkIs, BlankIs DEF Empty
    <2>3. Id(log, i) \in Named /\ OwnerIn(log, i) = Id(log, i)
      BY <1>1, <1>2, KindIs, OwnerStep
    <2> HIDE DEF b
    <2>4. QED
      BY <2>2, <2>3, EmptyIs, NamesAre DEF Pending, b
  <1>3. CASE Kind(log, i) # "start"
    <2>1. i # 1 /\ Kind(log, i - 1) = "prompt"
      <3>1. SUFFICES ASSUME i = 1 PROVE FALSE
        BY <1>3
      <3>2. ~InTurn(log, 0)
        BY DEF InTurn
      <3>3. QED
        BY <1>3, <3>1, <3>2, KindIs DEF EntryFollows
    <2>2. i - 1 \in 1..(i - 1) /\ Calm(log, i - 1, i - 1)
      BY <1>1, <2>1 DEF Calm
    <2>3. Kind(log, i) = "gap" /\ StrayIn(log, i) /\ Calm(log, i - 1, i)
      BY <1>3, <2>1, <2>2, AfterPrompt
    <2>4. OwnPart(log, {}, Unnamed, i)
      BY <2>3 DEF OwnPart, OwnedBy, Parts
    <2>5. Adds(log, {}, Blank, b, i)
      BY <1>1, <2>4, BlankIs, EmptyIs, NamesAre, PartAdds
    <2>6. b \in Messages /\ b.m = Unnamed /\ Owned(log, {}, b) /\ \A x : In(b, x) <=> x = i
      BY <2>5, BlankIs, EmptyIs, NamesAre DEF Adds
    <2> HIDE DEF b
    <2>7. Behind(b, i)
      BY <1>1, <2>6, BehindIn
    <2>8. i - 1 \in 1..i /\ \A x \in 1..(i - 1) : ~In(b, x)
      BY <1>1, <2>1, <2>6
    <2>9. Pending(b, i)
      BY <2>1, <2>3, <2>6, <2>7, <2>8 DEF Pending
    <2>10. QED
      BY <2>6, <2>9 DEF b
  <1>4. QED
    BY <1>2, <1>3

\* ... or from the message that is built.
LEMMA NextPiece ==
    ASSUME LogOK(log), NEW i \in 1..Len(log), Kind(log, i) # "prompt", NEW p \in Messages, Pending(p, i - 1),
           Kind(log, i) = "start" => p.m \in {Unnamed, Id(log, i)}
    PROVE  ReadChunk(p, i) \in Messages /\ Pending(ReadChunk(p, i), i)
  <1>1. Len(log) \in Nat /\ i \in Nat /\ i > 0 /\ i - 1 \in Nat /\ log \in Seq(Entries)
    BY LogLen
  <1>2. p.m \in Names /\ p.seen \in Seq(Nat) /\ p = [m |-> p.m, seen |-> p.seen]
    BY MessageIs
  <1>3. Owned(log, {}, p) /\ Behind(p, i - 1) /\ Behind(p, i)
    BY <1>1, BehindLater DEF Pending
  <1> DEFINE b == ReadChunk(p, i)
             x == Id(log, i)
  <1>4. CASE Kind(log, i) = "start"
    <2>1. x \in Named /\ x # Unnamed /\ x \in Names /\ OwnerIn(log, i) = x
      BY <1>1, <1>4, KindIs, OwnerStep, NamesAre
    <2>2. b = [m |-> x, seen |-> p.seen]
      BY <1>1, <1>4, ReadChunkIs
    <2> HIDE DEF b, x
    <2>3. b \in Messages /\ b.m = x /\ b.seen = p.seen
      BY <1>2, <2>1, <2>2 DEF Messages
    <2>4. Behind(b, i)
      BY <1>3, <2>3 DEF Behind
    <2>5. ASSUME NEW y, OwnPart(log, {}, p.m, y), In(p, y) PROVE OwnPart(log, {}, x, y)
      <3>1. CASE p.m = x
        BY <2>5, <3>1
      <3>2. CASE p.m = Unnamed
        <4>1. PICK q \in 1..(i - 1) : Kind(log, q) = "prompt" /\ Calm(log, q, i - 1) /\ \A z \in 1..q : ~In(p, z)
          BY <3>2, NamesAre DEF Pending
        <4>2. y \in 1..Len(log) /\ y <= i - 1 /\ y > q /\ y \in Nat
          BY <1>1, <1>3, <2>5, <4>1 DEF OwnPart, In, Behind
        <4>3. Kind(log, y) \in Parts /\ y \in (q + 1)..(i - 1) /\ y - 1 \in Nat
          BY <1>1, <2>5, <4>1, <4>2 DEF OwnPart
        <4>4. Kind(log, y) = "gap" /\ StrayIn(log, y)
          <5>1. q \in 1..(y - 1) /\ Calm(log, q, y - 1)
            BY <1>1, <4>1, <4>2, <4>3 DEF Calm
          <5>2. QED
            BY <4>1, <4>2, <4>3, <5>1, AfterPrompt DEF Parts
        <4>5. FollowerIn(log, y) = x
          <5>1. \A j \in y..(i - 1) : Kind(log, j) # "start"
            BY <1>1, <4>1, <4>2, <4>3 DEF Calm
          <5>2. i \in y..Len(log) /\ y > 0
            BY <1>1, <4>2
          <5>3. QED
            BY <1>1, <1>4, <4>2, <5>1, <5>2, FollowerOf DEF x
        <4>6. QED
          BY <4>2, <4>3, <4>4, <4>5 DEF OwnPart, OwnedBy
      <3>3. QED
        BY <1>4, <3>1, <3>2 DEF x
    <2>6. Owned(log, {}, b)
      <3>1. \A j \in 1..Len(p.seen) : OwnPart(log, {}, p.m, p.seen[j]) /\ In(p, p.seen[j])
        BY <1>3 DEF Owned, In
      <3>2. \A j \in 1..Len(p.seen) : OwnPart(log, {}, x, p.seen[j])
        BY <2>5, <3>1
      <3>3. QED
        BY <1>3, <2>3, <3>2 DEF Owned
    <2>7. Pending(b, i)
      BY <2>1, <2>3, <2>4, <2>6 DEF Pending
    <2>8. QED
      BY <2>3, <2>7 DEF b
  <1>5. CASE Kind(log, i) # "start"
    <2>1. OwnerIn(log, i) = OwnerIn(log, i - 1)
      BY <1>1, <1>5, OwnerStep
    <2>2. CASE p.m \in Named /\ p.m = OwnerIn(log, i - 1)
      <3>1. CASE Kind(log, i) \in Parts
        <4>1. OwnPart(log, {}, p.m, i)
          BY <2>1, <2>2, <3>1 DEF OwnPart, OwnedBy
        <4>2. Adds(log, {}, p, b, i)
          BY <1>1, <1>3, <4>1, PartAdds
        <4>3. b \in Messages /\ b.m = p.m /\ Owned(log, {}, b) /\ \A y : In(b, y) <=> (In(p, y) \/ y = i)
          BY <4>2 DEF Adds
        <4> HIDE DEF b
        <4>4. Behind(b, i)
          BY <1>1, <1>3, <4>3, BehindIn
        <4>5. Pending(b, i)
          BY <2>1, <2>2, <4>3, <4>4 DEF Pending
        <4>6. QED
          BY <4>3, <4>5 DEF b
      <3>2. CASE Kind(log, i) \notin Parts
        <4>1. Kind(log, i) \in {"prompt", "finish", "done"}
          BY <1>5, <3>2, KindIs DEF Parts
        <4>2. b = p
          BY <1>1, <4>1, ReadChunkIs
        <4> HIDE DEF b
        <4>3. QED
          BY <1>3, <2>1, <2>2, <4>2 DEF Pending, b
      <3>3. QED
        BY <3>1, <3>2
    <2>3. CASE p.m = Unnamed
      <3>1. PICK q \in 1..(i - 1) : Kind(log, q) = "prompt" /\ Calm(log, q, i - 1) /\ \A z \in 1..q : ~In(p, z)
        BY <2>3, NamesAre DEF Pending
      <3>2. Kind(log, i) = "gap" /\ StrayIn(log, i) /\ Calm(log, q, i)
        BY <1>5, <3>1, AfterPrompt
      <3>3. OwnPart(log, {}, p.m, i)
        BY <2>3, <3>2 DEF OwnPart, OwnedBy, Parts
      <3>4. Adds(log, {}, p, b, i)
        BY <1>1, <1>3, <3>3, PartAdds
      <3>5. b \in Messages /\ b.m = p.m /\ Owned(log, {}, b) /\ \A y : In(b, y) <=> (In(p, y) \/ y = i)
        BY <3>4 DEF Adds
      <3> HIDE DEF b
      <3>6. Behind(b, i)
        BY <1>1, <1>3, <3>5, BehindIn
      <3>7. q \in 1..i /\ \A z \in 1..q : ~In(b, z)
        BY <1>1, <3>1, <3>5
      <3>8. Pending(b, i)
        BY <2>3, <3>1, <3>2, <3>5, <3>6, <3>7 DEF Pending
      <3>9. QED
        BY <3>5, <3>8 DEF b
    <2>4. QED
      BY <2>2, <2>3 DEF Pending
  <1>6. QED
    BY <1>4, <1>5

SnapshotStates == [messages : Seq(Messages), pending : Seq(Messages)]

LEMMA SnapshotStep ==
    ASSUME LogOK(log), NEW b \in 0..Len(log), NEW i \in 1..b, NEW r, SnapshotOK(b, r, i - 1)
    PROVE  SnapshotOK(b, PlaceEntry(r, i), i)
  <1>1. Len(log) \in Nat /\ b \in Nat /\ i \in 1..Len(log) /\ i - 1 \in 0..b
    BY LogLen
  <1> DEFINE starts == log[i].k = "start" /\ r.pending # <<>> /\ r.pending[1].m \notin {Unnamed, log[i].x}
             p == IF starts \/ r.pending = <<>> THEN Blank ELSE r.pending[1]
             pushed == Push(r.messages, r.pending)
             e == PlaceEntry(r, i)
  <1>2. pushed \in Seq(Kept(b)) /\ r.messages \in Seq(Kept(b))
    <2>1. r.pending = <<>> \/ \E q \in Kept(b) : r.pending = <<q>>
      BY <1>1, PendingIsKept DEF SnapshotOK
    <2>2. QED
      BY <2>1, PushIs DEF SnapshotOK
  <1>3. CASE Kind(log, i) = "prompt"
    <2> DEFINE u == [m |-> log[i].x, seen |-> <<>>]
    <2>1. e = [messages |-> Push(pushed, <<u>>), pending |-> <<>>]
      BY <1>3 DEF PlaceEntry, Kind
    <2>2. Id(log, i) \in Names
      BY <1>1, <1>3, KindIs, NamesAre
    <2>3. u = Empty(Id(log, i))
      BY DEF Empty, Id
    <2>4. u \in Kept(b)
      BY <2>2, <2>3, EmptyIs DEF Kept
    <2> HIDE DEF u, pushed, e
    <2>5. Push(pushed, <<u>>) \in Seq(Kept(b))
      BY <1>2, <2>4, PushIs
    <2>6. e.messages \in Seq(Kept(b)) /\ e.pending = <<>>
      BY <2>1, <2>5
    <2>7. QED
      BY <1>3, <2>6 DEF SnapshotOK, e
  <1>4. CASE Kind(log, i) # "prompt"
    <2>1. e = [messages |-> IF starts THEN pushed ELSE r.messages, pending |-> <<ReadChunk(p, i)>>]
      BY <1>4 DEF PlaceEntry, Kind
    <2>2. e.messages \in Seq(Kept(b)) /\ e.pending = <<ReadChunk(p, i)>>
      <3> HIDE DEF starts, pushed, p, e
      <3>1. QED
        BY <1>2, <2>1
    <2>3. ReadChunk(p, i) \in Messages /\ Pending(ReadChunk(p, i), i)
      <3>1. CASE r.pending = <<>>
        <4>1. p = Blank /\ (i = 1 \/ Kind(log, i - 1) = "prompt")
          BY <1>1, <3>1 DEF SnapshotOK
        <4>2. QED
          BY <1>1, <1>4, <4>1, FirstPiece
      <3>2. CASE \E q \in Messages : r.pending = <<q>> /\ Pending(q, i - 1)
        <4>1. PICK q \in Messages : r.pending = <<q>> /\ Pending(q, i - 1)
          BY <3>2
        <4>2. r.pending[1] = q /\ r.pending # <<>>
          BY <4>1
        <4>3. CASE starts
          <5>1. p = Blank /\ Kind(log, i) = "start"
            BY <4>3 DEF Kind
          <5>2. QED
            BY <1>1, <1>4, <5>1, FirstPiece
        <4>4. CASE ~starts
          <5>1. p = q
            BY <4>2, <4>4
          <5>2. Kind(log, i) = "start" => q.m \in {Unnamed, Id(log, i)}
            BY <4>2, <4>4 DEF Kind, Id
          <5>3. QED
            BY <1>1, <1>4, <4>1, <5>1, <5>2, NextPiece
        <4>5. QED
          BY <4>3, <4>4
      <3>3. QED
        BY <3>1, <3>2 DEF SnapshotOK
    <2> HIDE DEF e, p
    <2>4. QED
      BY <2>2, <2>3 DEF SnapshotOK, e
  <1>5. QED
    BY <1>3, <1>4

LEMMA PlaceTypes ==
    ASSUME LogOK(log), NEW r \in SnapshotStates, NEW i \in 1..Len(log)
    PROVE  PlaceEntry(r, i) \in SnapshotStates
  <1> DEFINE starts == log[i].k = "start" /\ r.pending # <<>> /\ r.pending[1].m \notin {Unnamed, log[i].x}
             p == IF starts \/ r.pending = <<>> THEN Blank ELSE r.pending[1]
             u == [m |-> log[i].x, seen |-> <<>>]
  <1>1. r.messages \in Seq(Messages) /\ r.pending \in Seq(Messages) /\ i \in Nat /\ log \in Seq(Entries)
    BY LogLen DEF SnapshotStates
  <1>2. r.pending # <<>> => r.pending[1] \in Messages
    BY <1>1
  <1>3. p \in Messages
    BY <1>2, BlankIs
  <1>4. ASSUME NEW messages \in Seq(Messages) PROVE Push(messages, r.pending) \in Seq(Messages)
    BY <1>2 DEF Push
  <1>5. CASE Kind(log, i) = "prompt"
    <2>1. u = Empty(Id(log, i)) /\ Id(log, i) \in Names
      BY <1>5, KindIs, NamesAre DEF Empty, Id
    <2>2. u \in Messages
      BY <2>1, EmptyIs
    <2> DEFINE w == Push(Push(r.messages, r.pending), <<u>>)
    <2>3. PlaceEntry(r, i) = [messages |-> w, pending |-> <<>>]
      BY <1>5 DEF PlaceEntry, Kind
    <2> HIDE DEF u
    <2>4. w \in Seq(Messages)
      BY <1>1, <1>4, <2>2, PushIs
    <2> HIDE DEF w
    <2>5. QED
      BY <2>3, <2>4 DEF SnapshotStates
  <1>6. CASE Kind(log, i) # "prompt"
    <2> DEFINE w == IF starts THEN Push(r.messages, r.pending) ELSE r.messages
               q == <<ReadChunk(p, i)>>
    <2>1. PlaceEntry(r, i) = [messages |-> w, pending |-> q]
      BY <1>6 DEF PlaceEntry, Kind
    <2>2. w \in Seq(Messages)
      BY <1>1, <1>4
    <2>3. q \in Seq(Messages)
      <3>1. ReadChunk(p, i) \in Messages
        <4> HIDE DEF p
        <4>1. p.m \in Names /\ p.seen \in Seq(Nat) /\ Append(p.seen, i) \in Seq(Nat)
          BY <1>1, <1>3, MessageIs
        <4>2. Kind(log, i) = "start" => Id(log, i) \in Names
          BY KindIs, NamesAre
        <4>3. Kind(log, i) \in {"prompt", "finish", "done"} \/ Kind(log, i) = "start" \/ Kind(log, i) \in Parts
          BY KindIs DEF Parts
        <4>4. CASE Kind(log, i) \in {"prompt", "finish", "done"}
          BY <1>1, <1>3, <4>4, ReadChunkIs
        <4>5. CASE Kind(log, i) = "start"
          <5>1. ReadChunk(p, i) = [m |-> Id(log, i), seen |-> p.seen]
            BY <1>1, <1>3, <4>5, ReadChunkIs
          <5>2. QED
            BY <4>1, <4>2, <4>5, <5>1 DEF Messages
        <4>6. CASE Kind(log, i) \in Parts
          <5>1. ReadChunk(p, i) = p \/ ReadChunk(p, i) = [m |-> p.m, seen |-> Append(p.seen, i)]
            BY <1>1, <1>3, <4>6, ReadChunkIs
          <5> DEFINE t == Append(p.seen, i)
          <5>2. t \in Seq(Nat) /\ (ReadChunk(p, i) = p \/ ReadChunk(p, i) = [m |-> p.m, seen |-> t])
            BY <4>1, <5>1
          <5> HIDE DEF t
          <5>3. [m |-> p.m, seen |-> t] \in Messages
            BY <4>1, <5>2 DEF Messages
          <5>4. QED
            BY <1>3, <5>2, <5>3
        <4>7. QED
          BY <4>3, <4>4, <4>5, <4>6
      <3>2. QED
        BY <3>1
    <2> HIDE DEF w, q
    <2>4. QED
      BY <2>1, <2>2, <2>3 DEF SnapshotStates
  <1>7. QED
    BY <1>5, <1>6

LEMMA SnapshotIs ==
    ASSUME LogOK(log), NEW b \in 0..Len(log)
    PROVE  ReduceSnapshot(b) \in Seq(Kept(b))
  <1> DEFINE D == SnapshotStates
             first == [messages |-> <<>>, pending |-> <<>>]
             F == [p \in D \X (1..b) |-> PlaceEntry(p[1], p[2])]
  <1>1. b \in Nat /\ Len(log) \in Nat /\ \A i \in 1..b : i \in 1..Len(log)
    BY LogLen
  <1>2. first \in D
    BY DEF SnapshotStates
  <1>3. \A r \in D : \A i \in 1..b : PlaceEntry(r, i) \in D
    BY <1>1, PlaceTypes
  <1>4. \E g \in [0..b -> D] : g = [i \in 0..b |-> IF i = 0 THEN first ELSE PlaceEntry(g[i - 1], i)]
    <2> HIDE DEF D, first
    <2>1. \A d \in D : \A i \in 1..b : F[<<d, i>>] = PlaceEntry(d, i)
      OBVIOUS
    <2>2. KeepsIn(F, D, b)
      BY <1>3, <2>1 DEF KeepsIn
    <2> HIDE DEF F
    <2>3. PICK g \in [0..b -> D] : Recurs(g, first, F, b)
      BY <1>1, <1>2, <2>2, RecursionExists
    <2>4. \A i \in 1..b : g[i] = PlaceEntry(g[i - 1], i)
      <3>1. \A i \in 1..b : i - 1 \in 0..b
        BY <1>1
      <3>2. \A i \in 1..b : g[i - 1] \in D
        BY <2>3, <3>1
      <3>3. QED
        BY <2>1, <2>3, <3>2 DEF Recurs
    <2>5. g[0] = first
      BY <2>3 DEF Recurs
    <2>6. g = [i \in 0..b |-> IF i = 0 THEN first ELSE PlaceEntry(g[i - 1], i)]
      BY <1>1, <2>3, <2>4, <2>5
    <2>7. QED
      BY <2>3, <2>6
  <1> DEFINE built == CHOOSE g : g = [i \in 0..b |-> IF i = 0 THEN first ELSE PlaceEntry(g[i - 1], i)]
  <1>5. ReduceSnapshot(b) = Push(built[b].messages, built[b].pending)
    BY DEF ReduceSnapshot
  <1>6. built = [i \in 0..b |-> IF i = 0 THEN first ELSE PlaceEntry(built[i - 1], i)]
    BY <1>4
  <1>7. SnapshotOK(b, first, 0)
    BY DEF SnapshotOK
  <1> HIDE DEF built, first, D
  <1>8. \A i \in 0..b : SnapshotOK(b, built[i], i)
    <2> DEFINE S == {k \in 0..b : SnapshotOK(b, built[k], k)}
    <2>1. built[0] = first /\ \A i \in 1..b : built[i] = PlaceEntry(built[i - 1], i)
      BY <1>1, <1>6
    <2>2. 0 \in S
      BY <1>1, <1>7, <2>1
    <2>3. \A i \in 1..b : i - 1 \in S => i \in S
      BY <1>1, <2>1, SnapshotStep
    <2> HIDE DEF S
    <2>4. \A i \in 0..b : i \in S
      BY <1>1, <2>2, <2>3, UpTo
    <2>5. QED
      BY <2>4 DEF S
  <1> DEFINE r == built[b]
  <1>9. SnapshotOK(b, r, b)
    BY <1>1, <1>8
  <1> HIDE DEF r
  <1>10. r.pending = <<>> \/ \E q \in Kept(b) : r.pending = <<q>>
    <2>1. b \in 0..b
      BY <1>1
    <2>2. QED
      BY <1>1, <1>9, <2>1, PendingIsKept DEF SnapshotOK
  <1>11. Push(r.messages, r.pending) \in Seq(Kept(b))
    BY <1>9, <1>10, PushIs DEF SnapshotOK
  <1>12. QED
    BY <1>5, <1>11 DEF r

-----------------------------------------------------------------------------
(* Where the host's answers begin and end.                                  *)

LEMMA TurnBoundaryIs ==
    ASSUME LogOK(log)
    PROVE  /\ LatestTurnBoundary \in 0..Len(log)
           /\ LatestTurnBoundary = 0 \/ Kind(log, LatestTurnBoundary) = "done"
           /\ \A i \in 1..Len(log) : Kind(log, i) = "done" => i <= LatestTurnBoundary
  <1> DEFINE d == LastIn(log, 1, Len(log), {"done"})
  <1>1. Len(log) \in Nat
    BY LogLen
  <1>2. LatestTurnBoundary = d
    BY DEF LatestTurnBoundary, LastOf, LastIn
  <1>3. /\ d \in Nat /\ (d = 0 \/ (d \in 1..Len(log) /\ Kind(log, d) \in {"done"}))
        /\ \A i \in 1..Len(log) : Kind(log, i) \in {"done"} => i <= d
    BY <1>1, LastInIs
  <1> HIDE DEF d
  <1>4. QED
    BY <1>1, <1>2, <1>3

LEMMA SnapshotBoundaryIs ==
    ASSUME LogOK(log)
    PROVE  /\ LatestSnapshotBoundary \in 0..Len(log) /\ Rest(log, LatestSnapshotBoundary)
           /\ \A i \in 1..Len(log) : Kind(log, i) = "done" => i <= LatestSnapshotBoundary
           /\ Kind(log, LatestSnapshotBoundary) # "prompt" =>
                 \A i \in 1..Len(log) : Kind(log, i) = "prompt" => i <= LatestSnapshotBoundary
  <1> DEFINE d == LatestTurnBoundary
             p == FirstIn(log, d + 1, Len(log), {"prompt"})
             b == LatestSnapshotBoundary
  <1>1. /\ Len(log) \in Nat /\ d \in 0..Len(log) /\ (d = 0 \/ Kind(log, d) = "done")
        /\ \A i \in 1..Len(log) : Kind(log, i) = "done" => i <= d
    BY TurnBoundaryIs, LogLen
  <1>2. b = IF p # 0 THEN p ELSE d
    BY DEF LatestSnapshotBoundary, FirstOf, FirstIn
  <1> HIDE DEF d
  <1>3. /\ p \in Nat /\ (p = 0 \/ (p \in (d + 1)..Len(log) /\ Kind(log, p) \in {"prompt"}))
        /\ \A i \in (d + 1)..Len(log) : Kind(log, i) \in {"prompt"} => p \in (d + 1)..Len(log)
    BY <1>1, FirstInIs
  <1> HIDE DEF p, b
  <1>4. b \in 0..Len(log) /\ Rest(log, b) /\ d <= b
    BY <1>1, <1>2, <1>3 DEF Rest
  <1>5. \A i \in 1..Len(log) : Kind(log, i) = "done" => i <= b
    BY <1>1, <1>4
  <1>6. ASSUME Kind(log, b) # "prompt", NEW i \in 1..Len(log), Kind(log, i) = "prompt" PROVE i <= b
    <2>1. p = 0
      BY <1>2, <1>3, <1>6
    <2>2. ~(i \in (d + 1)..Len(log))
      BY <1>1, <1>3, <1>6, <2>1
    <2>3. QED
      BY <1>1, <1>2, <2>1, <2>2
  <1>7. QED
    BY <1>4, <1>5, <1>6 DEF b

\* A cursor at which the message that was read is closed, or was split.
Settled(l, sp, c) ==
    c = 0 \/ Kind(l, c) = "prompt" \/ (Kind(l, c) = "done" /\ StopAt(l, c - 1)) \/ FollowerIn(l, c) \in sp

\* The next turn after a starts message m.
StartsAt(l, a, m) == \E s \in (a + 1)..Len(l) : Kind(l, s) = "start" /\ Id(l, s) = m /\ Calm(l, a, s - 1)

\* From after a to c the log has turns of m only, and none that closes it.
OpenSince(l, a, c, m) ==
    /\ a \in 0..c /\ StartsAt(l, a, m)
    /\ \A j \in (a + 1)..c : (Kind(l, j) = "start" => Id(l, j) = m) /\ ~StopAt(l, j)

\* OpenMessageOf, at a done or a prompt.
LEMMA OpenIs ==
    ASSUME LogOK(log), NEW b \in 0..Len(log), Rest(log, b)
    PROVE  /\ OpenMessageOf(b).m \in Named \cup {None} /\ OpenMessageOf(b).after \in Nat
           /\ OpenMessageOf(b) = [m |-> OpenMessageOf(b).m, after |-> OpenMessageOf(b).after]
           /\ OpenMessageOf(b).m = None => Settled(log, {}, b)
           /\ OpenMessageOf(b).m # None => OpenSince(log, OpenMessageOf(b).after, b, OpenMessageOf(b).m)
  <1> DEFINE s == LastIn(log, 1, b, {"start"})
             m == Id(log, s)
             Closes(i) == log[i].k = "finish" /\ log[i].x # "other"
             Ends(i) == Closes(i) \/ (log[i].k = "start" /\ log[i].x # log[s].x)
             since == {i \in 1..s : log[i].k = "start" /\ \A j \in i..s : ~Ends(j)}
             a == CHOOSE i \in since : \A j \in since : i <= j
             o == OpenMessageOf(b)
  <1>1. Len(log) \in Nat /\ b \in Nat /\ b <= Len(log)
    BY LogLen
  <1>2. /\ s \in Nat /\ (s = 0 \/ (s \in 1..b /\ Kind(log, s) \in {"start"}))
        /\ \A i \in 1..b : Kind(log, i) \in {"start"} => i <= s /\ s \in 1..b
    BY <1>1, LastInIs
  <1>3. o = IF s = 0 \/ \E i \in s..b : Closes(i) THEN [m |-> None, after |-> 0] ELSE [m |-> log[s].x, after |-> a - 1]
    BY DEF OpenMessageOf, LastOf, LastIn
  <1>4. ASSUME NEW i \in 1..Len(log) PROVE Closes(i) <=> StopAt(log, i)
    BY KindIs DEF StopAt, Kind, Id
  <1>5. \A i : Ends(i) <=> (Closes(i) \/ (Kind(log, i) = "start" /\ Id(log, i) # m))
    BY DEF Kind, Id
  <1>6. \A i : i \in since <=> (i \in 1..s /\ Kind(log, i) = "start" /\ \A j \in i..s : ~Ends(j))
    BY DEF Kind
  <1>7. [m |-> None, after |-> 0].m = None /\ [m |-> None, after |-> 0].after = 0
    OBVIOUS
  <1> HIDE DEF s, m, o, a, Closes, Ends, since
  <1>8. CASE s = 0
    <2>1. o = [m |-> None, after |-> 0]
      BY <1>3, <1>8
    <2>2. b = 0 \/ Kind(log, b) = "prompt"
      <3>1. SUFFICES ASSUME b # 0, Kind(log, b) = "done" PROVE FALSE
        BY DEF Rest
      <3>2. InTurn(log, b - 1)
        BY <1>1, <3>1, KindIs DEF EntryFollows
      <3>3. PICK j \in 1..(b - 1) : Kind(log, j) = "start"
        BY <3>2 DEF InTurn
      <3>4. QED
        BY <1>1, <1>2, <1>8, <3>3
    <2>3. QED
      BY <1>7, <2>1, <2>2 DEF o, Settled
  <1>9. CASE s # 0 /\ \E i \in s..b : Closes(i)
    <2>1. o = [m |-> None, after |-> 0]
      BY <1>3, <1>9
    <2>2. PICK f \in s..b : Closes(f)
      BY <1>9
    <2>3. s \in 1..b /\ f \in 1..Len(log) /\ StopAt(log, f)
      BY <1>1, <1>2, <1>4, <1>9, <2>2
    <2>4. f < Len(log) /\ Kind(log, f + 1) = "done" /\ Kind(log, f) = "finish"
      BY <2>3, KindIs DEF EntryFollows, StopAt
    <2>5. ASSUME Kind(log, b) = "done" PROVE f = b - 1
      <3>1. b \in 1..Len(log) /\ b > 1 /\ InTurn(log, b - 1)
        BY <1>1, <2>3, <2>5, KindIs DEF EntryFollows
      <3>2. PICK t \in 1..(b - 1) : Kind(log, t) = "start" /\ \A j \in t..(b - 1) : Kind(log, j) # "done"
        BY <3>1 DEF InTurn
      <3>3. t <= s
        BY <1>1, <1>2, <3>2
      <3>4. ~(f + 1 \in t..(b - 1))
        BY <2>4, <3>2
      <3>5. f # b
        BY <2>4, <2>5
      <3>6. QED
        BY <1>1, <2>2, <2>3, <3>1, <3>3, <3>4, <3>5
    <2>6. Settled(log, {}, b)
      BY <2>3, <2>5 DEF Settled, Rest
    <2>7. QED
      BY <1>7, <2>1, <2>6 DEF o
  <1>10. CASE s # 0 /\ ~ \E i \in s..b : Closes(i)
    <2>1. o = [m |-> m, after |-> a - 1]
      BY <1>3, <1>10 DEF m, Id
    <2>2. s \in 1..b /\ Kind(log, s) = "start" /\ s \in 1..Len(log)
      BY <1>1, <1>2, <1>10
    <2>3. m \in Named
      BY <2>2, KindIs DEF m
    <2>4. s \in since
      <3>1. ~Closes(s)
        BY <1>4, <2>2 DEF StopAt
      <3>2. ~Ends(s)
        BY <1>5, <3>1 DEF m
      <3>3. \A j \in s..s : j = s
        BY <2>2
      <3>4. QED
        BY <1>6, <2>2, <3>2, <3>3
    <2>5. a \in since
      <3>1. since \in SUBSET Nat /\ since # {}
        BY <1>2, <1>6, <2>4
      <3>2. \E i \in since : \A j \in since : i <= j
        BY <3>1, LeastNat
      <3>3. QED
        BY <3>2 DEF a
    <2>6. a \in 1..s /\ Kind(log, a) = "start" /\ \A j \in a..s : ~Ends(j)
      BY <1>6, <2>5
    <2>7. Id(log, a) = m
      <3>1. a \in a..s
        BY <2>2, <2>6
      <3>2. QED
        BY <1>5, <2>6, <3>1
    <2>8. ASSUME NEW j \in ((a - 1) + 1)..b PROVE (Kind(log, j) = "start" => Id(log, j) = m) /\ ~StopAt(log, j)
      <3>1. j \in 1..Len(log) /\ j \in a..b
        BY <1>1, <2>2, <2>6
      <3>2. CASE j \in a..s
        BY <1>4, <1>5, <2>6, <3>1, <3>2
      <3>3. CASE j \notin a..s
        <4>1. j \in s..b /\ j # s
          BY <1>1, <2>2, <2>6, <3>1, <3>3
        <4>2. Kind(log, j) # "start"
          BY <1>1, <1>2, <2>2, <3>1, <4>1
        <4>3. ~Closes(j)
          BY <1>10, <4>1
        <4>4. QED
          BY <1>4, <3>1, <4>2, <4>3
      <3>4. QED
        BY <3>2, <3>3
    <2>9. a - 1 \in 0..b /\ a \in ((a - 1) + 1)..Len(log) /\ Calm(log, a - 1, a - 1)
      BY <1>1, <2>2, <2>6 DEF Calm
    <2>10. OpenSince(log, a - 1, b, m)
      BY <2>6, <2>7, <2>8, <2>9 DEF OpenSince, StartsAt
    <2>11. o.m = m /\ o.after = a - 1 /\ o = [m |-> o.m, after |-> o.after]
      BY <2>1
    <2>12. a - 1 \in Nat
      BY <2>2, <2>6
    <2>13. QED
      BY <2>3, <2>10, <2>11, <2>12, NamesAre DEF o
  <1>11. QED
    BY <1>8, <1>9, <1>10

-----------------------------------------------------------------------------
(* The invariant.                                                           *)

\* What the log tells of the host.
HostOK(l, h) ==
    /\ h.open <=> InTurn(l, Len(l))
    /\ h.open => h.waits = "nothing" /\ h.m \in Named /\ OwnerIn(l, Len(l)) = h.m
    /\ h.task => \E j \in 1..Len(l) : Kind(l, j) = "done"
    /\ h.waits = "answer" => h.m \in Named /\ OwnerIn(l, Len(l)) = h.m
    /\ Answering(h) => \A j \in 1..Len(l) : Kind(l, j) = "prompt" => ~Calm(l, j, Len(l))

\* The cursor stands where no turn runs.  Without an open message the last one is
\* closed, or the stream that is read has passed its finish and not its done.
StoreOK(l, sp, st, tl, rd) ==
    /\ st.cursor \in 0..Len(l) /\ Rest(l, st.cursor)
    /\ st.open.m = None => \/ Settled(l, sp, st.cursor)
                           \/ rd.by # "nobody" /\ tl.at > st.cursor /\ StopAt(l, tl.at)
    /\ st.open.m # None => OpenSince(l, st.open.after, st.cursor, st.open.m)

\* Parts beyond the tail: those a task reported since the last turn, and all of them.
Ahead(l, at, msg) ==
    \A x \in (at + 1)..Len(l) :
        In(msg, x) => Kind(l, x) = "gap" /\ Calm(l, at, x) /\ \A g \in (at + 1)..x : Kind(l, g) = "gap" => In(msg, g)

\* A resumed stream that waits for the start of the message it was opened for.
Awaits(l, st, tl, rd) ==
    /\ rd.by = "resume" /\ rd.msg = Blank /\ rd.current = rd.awaiting /\ st.open.m = rd.awaiting
    /\ ~tl.ended /\ tl.at >= st.open.after /\ StartsAt(l, tl.at, rd.awaiting)

\* A stream without a name yet, from the cursor on.
Bare(l, st, tl, rd) ==
    /\ rd.msg.m = Unnamed /\ ~tl.ended /\ tl.at >= st.cursor /\ Calm(l, st.cursor, tl.at)
    /\ Behind(rd.msg, tl.at) /\ \A x \in 1..st.cursor : ~In(rd.msg, x)
    /\ \/ rd.by = "resume" /\ rd.current = None /\ st.open.m = None
       \/ rd.by = "post" /\ \E p \in (st.cursor + 1)..Len(l) : Kind(l, p) = "prompt" /\ Calm(l, st.cursor, p)

\* The stream of an answer, before the start that continues the message.
Answers(l, st, tl, rd) ==
    /\ rd.by = "post" /\ ~tl.ended /\ tl.at >= st.cursor /\ Calm(l, st.cursor, tl.at)
    /\ rd.msg.m \in Named /\ OwnerIn(l, tl.at) = rd.msg.m /\ StartsAt(l, tl.at, rd.msg.m)
    /\ Ahead(l, tl.at, rd.msg)

\* A stream that builds the message whose turn is read.
Builds(l, h, st, tl, rd) ==
    /\ tl.at > 0 /\ rd.msg.m \in Named /\ rd.msg.m = OwnerIn(l, tl.at)
    /\ rd.by = "resume" => rd.current = rd.msg.m
    /\ rd.by = "post" => tl.ended \/ InTurn(l, tl.at)
    /\ st.open.m # None => st.open.m = rd.msg.m /\ tl.at >= st.open.after /\ ~StopAt(l, tl.at)
    /\ st.open.m = None => tl.ended \/ StopAt(l, tl.at)
    /\ Behind(rd.msg, tl.at)
    /\ Answering(h) /\ rd.msg.m = h.m => \A g \in 1..tl.at : LateGap(l, g) => In(rd.msg, g)

ReadForm(l, h, st, tl, rd) ==
    IF rd.awaiting # None THEN Awaits(l, st, tl, rd)
    ELSE Bare(l, st, tl, rd) \/ Answers(l, st, tl, rd) \/ Builds(l, h, st, tl, rd)

ReadOK(l, h, sp, st, tl, rd) ==
    rd.by # "nobody" =>
        /\ tl.at \in 0..Len(l)
        /\ tl.ended => tl.at > 0 /\ Kind(l, tl.at) = "done"
        /\ \A j \in (st.cursor + 1)..tl.at : Kind(l, j) # "done"
        /\ Owned(l, sp, rd.msg)
        /\ ReadForm(l, h, st, tl, rd)

ClientOK(l, h, sp, st, ch, tl, rd) ==
    ch \in Seq(Shown(l, h, sp)) /\ StoreOK(l, sp, st, tl, rd) /\ ReadOK(l, h, sp, st, tl, rd)

Inv == /\ TypeOK /\ LogOK(log) /\ HostOK(log, host)
       /\ ClientOK(log, host, split, store, chat, tail, read)

HostTyped(h) ==
    h \in [open : BOOLEAN, m : Named \cup {None}, n : Nat, texts : Nat, prompted : BOOLEAN,
           task : BOOLEAN, waits : {"nothing", "task", "answer"}]
StoreTyped(st) == st \in [cursor : Nat, open : [m : Named \cup {None}, after : Nat]]
TailTyped(tl) == tl \in [up : BOOLEAN, at : Nat, from : Nat, ended : BOOLEAN]
ReadTyped(rd) ==
    rd \in [by : {"nobody", "post", "resume"}, awaiting : Named \cup {None},
            current : Named \cup {None}, through : Nat, buffering : BOOLEAN, reached : Nat,
            msg : Messages]
ClientTyped(st, tl, rd) == StoreTyped(st) /\ TailTyped(tl) /\ ReadTyped(rd)

LEMMA HostIs ==
    ASSUME NEW h, HostTyped(h)
    PROVE  /\ h.open \in BOOLEAN /\ h.m \in Named \cup {None} /\ h.n \in Nat /\ h.texts \in Nat
           /\ h.prompted \in BOOLEAN /\ h.task \in BOOLEAN /\ h.waits \in {"nothing", "task", "answer"}
  BY DEF HostTyped

LEMMA StoreIs ==
    ASSUME NEW st, StoreTyped(st)
    PROVE  /\ st.cursor \in Nat /\ st.open.m \in Named \cup {None} /\ st.open.after \in Nat
           /\ st.open.m # None => st.open.m \in Named
  BY DEF StoreTyped

LEMMA TailIs ==
    ASSUME NEW tl, TailTyped(tl)
    PROVE  tl.up \in BOOLEAN /\ tl.at \in Nat /\ tl.from \in Nat /\ tl.ended \in BOOLEAN
  BY DEF TailTyped

LEMMA ReadIs ==
    ASSUME NEW rd, ReadTyped(rd)
    PROVE  /\ rd.by \in {"nobody", "post", "resume"} /\ rd.awaiting \in Named \cup {None}
           /\ rd.current \in Named \cup {None} /\ rd.through \in Nat /\ rd.buffering \in BOOLEAN
           /\ rd.reached \in Nat /\ rd.msg \in Messages
           /\ rd.awaiting # None => rd.awaiting \in Named
  BY DEF ReadTyped

LEMMA TypeIs ==
    TypeOK <=> /\ log \in Seq(Entries) /\ HostTyped(host) /\ faults \in 0..MaxFaults
               /\ split \subseteq Named /\ chat \in Seq(Messages) /\ ClientTyped(store, tail, read)
  BY DEF TypeOK, HostTyped, ClientTyped, StoreTyped, TailTyped, ReadTyped

LEMMA TypeNext ==
    TypeOK' <=> /\ log' \in Seq(Entries) /\ HostTyped(host') /\ faults' \in 0..MaxFaults
                /\ split' \subseteq Named /\ chat' \in Seq(Messages) /\ ClientTyped(store', tail', read')
  BY DEF TypeOK, HostTyped, ClientTyped, StoreTyped, TailTyped, ReadTyped

LEMMA ShownTyped ==
    ASSUME NEW l, NEW h, NEW sp, NEW ch \in Seq(Shown(l, h, sp)) PROVE ch \in Seq(Messages)
  <1>1. Shown(l, h, sp) \subseteq Messages
    BY DEF Shown
  <1>2. QED
    BY <1>1, SeqWider

-----------------------------------------------------------------------------
(* What the client holds stays right while the log grows.                   *)

LEMMA StartsAtGrows ==
    ASSUME NEW l, NEW g, l \in Seq(Entries), g \in Seq(Entries), Grown(l, g), NEW a \in Nat, NEW m, StartsAt(l, a, m)
    PROVE  StartsAt(g, a, m)
  <1>1. /\ Len(l) \in Nat /\ Len(g) \in Nat /\ Len(l) <= Len(g)
        /\ \A j \in 1..Len(l) : Kind(g, j) = Kind(l, j) /\ Id(g, j) = Id(l, j)
    BY EntriesStay
  <1>2. PICK s \in (a + 1)..Len(l) : Kind(l, s) = "start" /\ Id(l, s) = m /\ Calm(l, a, s - 1)
    BY DEF StartsAt
  <1>3. s \in 1..Len(l) /\ s \in (a + 1)..Len(g) /\ s - 1 \in 0..Len(l)
    BY <1>1
  <1>4. Calm(g, a, s - 1)
    BY <1>2, <1>3, CalmGrows
  <1>5. QED
    BY <1>1, <1>2, <1>3, <1>4 DEF StartsAt

LEMMA OpenSinceGrows ==
    ASSUME NEW l, NEW g, l \in Seq(Entries), g \in Seq(Entries), Grown(l, g),
           NEW a \in Nat, NEW c \in 0..Len(l), NEW m, OpenSince(l, a, c, m)
    PROVE  OpenSince(g, a, c, m)
  <1>1. /\ Len(l) \in Nat
        /\ \A j \in 1..Len(l) : Kind(g, j) = Kind(l, j) /\ Id(g, j) = Id(l, j)
    BY EntriesStay
  <1>2. \A j \in (a + 1)..c : j \in 1..Len(l)
    BY <1>1
  <1>3. StartsAt(g, a, m)
    BY StartsAtGrows DEF OpenSince
  <1>4. \A j \in (a + 1)..c : (Kind(g, j) = "start" => Id(g, j) = m) /\ ~StopAt(g, j)
    BY <1>1, <1>2 DEF OpenSince, StopAt
  <1>5. QED
    BY <1>3, <1>4 DEF OpenSince

LEMMA SettledGrows ==
    ASSUME NEW l, NEW g, LogOK(l), g \in Seq(Entries), Grown(l, g), NEW c \in 0..Len(l),
           NEW sp, NEW sq, sp \subseteq sq, sp \subseteq Named, Settled(l, sp, c)
    PROVE  Settled(g, sq, c)
  <1>1. /\ Len(l) \in Nat /\ l \in Seq(Entries)
        /\ \A j \in 1..Len(l) : Kind(g, j) = Kind(l, j) /\ Id(g, j) = Id(l, j)
    BY EntriesStay, LogLen
  <1>2. CASE c = 0
    BY <1>2 DEF Settled
  <1>3. CASE c # 0
    <2>1. c \in 1..Len(l)
      BY <1>1, <1>3
    <2>2. Kind(l, c) = "done" => c - 1 \in 1..Len(l)
      BY <1>1, <2>1, DoneHasOwner
    <2>3. FollowerIn(l, c) = Unnamed \/ FollowerIn(g, c) = FollowerIn(l, c)
      BY <1>1, <2>1, FollowerGrows
    <2>4. FollowerIn(l, c) \in sp => FollowerIn(g, c) \in sq
      BY <2>3, NamesAre
    <2>5. Kind(l, c) = "done" /\ StopAt(l, c - 1) => Kind(g, c) = "done" /\ StopAt(g, c - 1)
      BY <1>1, <2>1, <2>2 DEF StopAt
    <2>6. Kind(g, c) = Kind(l, c)
      BY <1>1, <2>1
    <2>7. QED
      BY <1>3, <2>4, <2>5, <2>6 DEF Settled
  <1>4. QED
    BY <1>2, <1>3

LEMMA StoreGrows ==
    ASSUME NEW l, NEW g, LogOK(l), g \in Seq(Entries), Grown(l, g), NEW sp, sp \subseteq Named,
           NEW st, NEW tl, NEW rd, ClientTyped(st, tl, rd), rd.by # "nobody" => tl.at \in 0..Len(l),
           StoreOK(l, sp, st, tl, rd)
    PROVE  StoreOK(g, sp, st, tl, rd)
  <1>1. /\ Len(l) \in Nat /\ Len(g) \in Nat /\ Len(l) <= Len(g) /\ l \in Seq(Entries)
        /\ \A j \in 1..Len(l) : Kind(g, j) = Kind(l, j) /\ Id(g, j) = Id(l, j)
    BY EntriesStay, LogLen
  <1>2. st.cursor \in Nat /\ tl.at \in Nat /\ st.open.after \in Nat
    BY StoreIs, TailIs DEF ClientTyped
  <1> DEFINE c == st.cursor
             at == tl.at
  <1>3. c \in 0..Len(l) /\ Rest(l, c)
    BY DEF StoreOK
  <1>4. c \in 0..Len(g) /\ Rest(g, c)
    BY <1>1, <1>3 DEF Rest
  <1>5. Settled(l, sp, c) => Settled(g, sp, c)
    BY <1>3, SettledGrows
  <1>6. rd.by # "nobody" /\ at > c /\ StopAt(l, at) => StopAt(g, at)
    BY <1>1, <1>2 DEF StopAt
  <1>7. st.open.m # None => OpenSince(g, st.open.after, c, st.open.m)
    BY <1>1, <1>2, <1>3, OpenSinceGrows DEF StoreOK
  <1>8. st.open.m = None => Settled(g, sp, c) \/ (rd.by # "nobody" /\ at > c /\ StopAt(g, at))
    BY <1>5, <1>6 DEF StoreOK
  <1>9. QED
    BY <1>4, <1>7, <1>8 DEF StoreOK

LEMMA BuildsGrows ==
    ASSUME NEW l, NEW g, LogOK(l), g \in Seq(Entries), Grown(l, g), NEW h, NEW k, NoNewAnswer(l, g, h, k),
           NEW st, NEW tl, NEW rd, ClientTyped(st, tl, rd), tl.at \in 0..Len(l), Builds(l, h, st, tl, rd)
    PROVE  Builds(g, k, st, tl, rd)
  <1>1. /\ Len(l) \in Nat /\ Len(g) \in Nat /\ Len(l) <= Len(g) /\ l \in Seq(Entries)
        /\ \A j \in 1..Len(l) : Kind(g, j) = Kind(l, j) /\ Id(g, j) = Id(l, j)
    BY EntriesStay, LogLen
  <1>2. tl.at \in 1..Len(l)
    BY <1>1 DEF Builds
  <1>3. OwnerIn(g, tl.at) = OwnerIn(l, tl.at) /\ (InTurn(g, tl.at) <=> InTurn(l, tl.at))
    BY <1>1, OwnerGrows
  <1>4. StopAt(g, tl.at) <=> StopAt(l, tl.at)
    BY <1>1, <1>2 DEF StopAt
  <1>5. ASSUME Answering(k), rd.msg.m = k.m, NEW x \in 1..tl.at, LateGap(g, x) PROVE In(rd.msg, x)
    <2>1. x \in 1..Len(l) /\ x \in 1..Len(g)
      BY <1>1, <1>2
    <2>2. Answering(h) /\ rd.msg.m = h.m
      BY <1>5, <2>1 DEF NoNewAnswer
    <2>3. LateGap(l, x)
      BY <1>5, <2>1, LateWas
    <2>4. QED
      BY <2>2, <2>3 DEF Builds
  <1>6. QED
    BY <1>3, <1>4, <1>5 DEF Builds

LEMMA ReadGrows ==
    ASSUME NEW l, NEW g, LogOK(l), g \in Seq(Entries), Grown(l, g), NEW h, NEW k, NoNewAnswer(l, g, h, k),
           NEW sp, sp \subseteq Named,
           NEW st, NEW tl, NEW rd, ClientTyped(st, tl, rd), st.cursor \in 0..Len(l), ReadOK(l, h, sp, st, tl, rd)
    PROVE  ReadOK(g, k, sp, st, tl, rd)
  <1>1. /\ Len(l) \in Nat /\ Len(g) \in Nat /\ Len(l) <= Len(g) /\ l \in Seq(Entries)
        /\ \A j \in 1..Len(l) : Kind(g, j) = Kind(l, j) /\ Id(g, j) = Id(l, j)
    BY EntriesStay, LogLen
  <1>2. /\ st.cursor \in Nat /\ tl.at \in Nat /\ st.open.after \in Nat /\ rd.msg \in Messages
        /\ tl.ended \in BOOLEAN
    BY StoreIs, TailIs, ReadIs DEF ClientTyped
  <1>3. SUFFICES ASSUME rd.by # "nobody"
                 PROVE  /\ tl.at \in 0..Len(g) /\ (tl.ended => tl.at > 0 /\ Kind(g, tl.at) = "done")
                        /\ \A j \in (st.cursor + 1)..tl.at : Kind(g, j) # "done"
                        /\ Owned(g, sp, rd.msg) /\ ReadForm(g, k, st, tl, rd)
    BY DEF ReadOK
  <1>4. /\ tl.at \in 0..Len(l) /\ (tl.ended => tl.at > 0 /\ Kind(l, tl.at) = "done")
        /\ \A j \in (st.cursor + 1)..tl.at : Kind(l, j) # "done"
        /\ Owned(l, sp, rd.msg) /\ ReadForm(l, h, st, tl, rd)
    BY <1>3 DEF ReadOK
  <1>5. tl.at \in 0..Len(g) /\ (tl.ended => tl.at > 0 /\ Kind(g, tl.at) = "done")
    BY <1>1, <1>4
  <1>6. ASSUME NEW j \in (st.cursor + 1)..tl.at PROVE Kind(g, j) # "done"
    <2>1. j \in 1..Len(l)
      BY <1>1, <1>2, <1>4
    <2>2. QED
      BY <1>1, <1>4, <2>1
  <1>7. Owned(g, sp, rd.msg)
    BY <1>2, <1>4, OwnedGrows
  <1>8. Awaits(l, st, tl, rd) => Awaits(g, st, tl, rd)
    BY <1>1, <1>2, StartsAtGrows DEF Awaits
  <1>9. Calm(l, st.cursor, tl.at) => Calm(g, st.cursor, tl.at)
    BY <1>1, <1>2, <1>4, CalmGrows
  <1>10. Bare(l, st, tl, rd) => Bare(g, st, tl, rd)
    <2>1. ASSUME NEW p \in (st.cursor + 1)..Len(l), Kind(l, p) = "prompt", Calm(l, st.cursor, p)
          PROVE  p \in (st.cursor + 1)..Len(g) /\ Kind(g, p) = "prompt" /\ Calm(g, st.cursor, p)
      <3>1. p \in 1..Len(l) /\ p \in 0..Len(l) /\ p \in (st.cursor + 1)..Len(g)
        BY <1>1, <1>2
      <3>2. QED
        BY <1>1, <1>2, <2>1, <3>1, CalmGrows
    <2>2. QED
      BY <1>9, <2>1 DEF Bare
  <1>11. Answers(l, st, tl, rd) => Answers(g, st, tl, rd)
    <2>1. OwnerIn(g, tl.at) = OwnerIn(l, tl.at)
      BY <1>1, <1>4, OwnerGrows
    <2>2. StartsAt(l, tl.at, rd.msg.m) => StartsAt(g, tl.at, rd.msg.m)
      BY <1>1, <1>2, StartsAtGrows
    <2>3. ASSUME Ahead(l, tl.at, rd.msg) PROVE Ahead(g, tl.at, rd.msg)
      <3>1. SUFFICES ASSUME NEW x \in (tl.at + 1)..Len(g), In(rd.msg, x)
                     PROVE  /\ Kind(g, x) = "gap" /\ Calm(g, tl.at, x)
                            /\ \A y \in (tl.at + 1)..x : Kind(g, y) = "gap" => In(rd.msg, y)
        BY DEF Ahead
      <3>2. x \in 1..Len(l) /\ x \in (tl.at + 1)..Len(l) /\ x \in 0..Len(l)
        BY <1>1, <1>2, <1>4, <3>1, InOwned DEF OwnPart
      <3>3. /\ Kind(l, x) = "gap" /\ Calm(l, tl.at, x)
            /\ \A y \in (tl.at + 1)..x : Kind(l, y) = "gap" => In(rd.msg, y)
        BY <2>3, <3>1, <3>2 DEF Ahead
      <3>4. \A y \in (tl.at + 1)..x : Kind(g, y) = Kind(l, y)
        BY <1>1, <1>2, <3>2
      <3>5. Calm(g, tl.at, x)
        BY <1>1, <1>2, <3>2, <3>3, CalmGrows
      <3>6. QED
        BY <1>1, <3>2, <3>3, <3>4, <3>5
    <2>4. QED
      BY <1>9, <2>1, <2>2, <2>3 DEF Answers
  <1>12. Builds(l, h, st, tl, rd) => Builds(g, k, st, tl, rd)
    BY <1>4, BuildsGrows
  <1>13. ReadForm(g, k, st, tl, rd)
    BY <1>4, <1>8, <1>10, <1>11, <1>12 DEF ReadForm
  <1>14. QED
    BY <1>5, <1>6, <1>7, <1>13

-----------------------------------------------------------------------------
(* The steps of the host.                                                   *)

\* What every write of the host keeps.
Wrote == /\ LogOK(log') /\ Grown(log, log') /\ HostTyped(host') /\ HostOK(log', host')
         /\ NoNewAnswer(log, log', host, host')

LEMMA HostStep ==
    ASSUME Inv, Wrote
    PROVE  /\ ClientOK(log', host', split, store, chat, tail, read)
           /\ UNCHANGED client => Inv'
  <1>1. /\ log \in Seq(Entries) /\ log' \in Seq(Entries) /\ split \subseteq Named /\ faults \in 0..MaxFaults
        /\ ClientTyped(store, tail, read)
    BY TypeIs, LogLen DEF Inv, Wrote
  <1>2. Shown(log, host, split) \subseteq Shown(log', host', split)
    BY <1>1, ShownGrows DEF Inv, Wrote
  <1>3. chat \in Seq(Shown(log', host', split))
    BY <1>2, SeqWider DEF Inv, ClientOK
  <1>4. StoreOK(log', split, store, tail, read)
    BY <1>1, StoreGrows DEF Inv, ClientOK, ReadOK, Wrote
  <1>5. ReadOK(log', host', split, store, tail, read)
    BY <1>1, ReadGrows DEF Inv, ClientOK, StoreOK, Wrote
  <1>6. ClientOK(log', host', split, store, chat, tail, read)
    BY <1>3, <1>4, <1>5 DEF ClientOK
  <1>7. ASSUME UNCHANGED client PROVE Inv'
    <2>1. store' = store /\ chat' = chat /\ tail' = tail /\ read' = read /\ faults' = faults /\ split' = split
      BY <1>7 DEF client
    <2>2. chat \in Seq(Messages)
      BY <1>3, ShownTyped
    <2>3. TypeOK'
      BY <1>1, <2>1, <2>2, TypeNext DEF Wrote
    <2>4. QED
      BY <1>6, <2>1, <2>3 DEF Inv, Wrote
  <1>8. QED
    BY <1>6, <1>7

LEMMA LogStays ==
    ASSUME NEW l, NEW g, LogOK(l), g \in Seq(Entries), Grown(l, g),
           \A i \in (Len(l) + 1)..Len(g) : EntryFollows(g, i)
    PROVE  LogOK(g)
  <1>1. /\ Len(l) \in Nat /\ Len(g) \in Nat /\ Len(l) <= Len(g) /\ l \in Seq(Entries)
        /\ \A j \in 1..Len(l) : Kind(g, j) = Kind(l, j)
    BY EntriesStay, LogLen
  <1>2. ASSUME NEW i \in 1..Len(l) PROVE EntryFollows(g, i)
    <2>1. EntryFollows(l, i) /\ Kind(g, i) = Kind(l, i)
      BY <1>1 DEF LogOK
    <2>2. InTurn(g, i - 1) <=> InTurn(l, i - 1)
      <3>1. i - 1 \in 0..Len(l)
        BY <1>1
      <3>2. QED
        BY <1>1, <3>1, OwnerGrows
    <2>3. \A j \in 1..(i - 1) : Kind(g, j) = Kind(l, j)
      BY <1>1
    <2>4. Kind(l, i) = "done" => i > 1 /\ Kind(g, i - 1) = "finish"
      BY <1>1, <2>1 DEF EntryFollows
    <2>5. Kind(l, i) = "finish" => i < Len(g) /\ Kind(g, i + 1) = "done"
      BY <1>1, <2>1 DEF EntryFollows
    <2>6. QED
      BY <2>1, <2>2, <2>3, <2>4, <2>5 DEF EntryFollows
  <1>3. QED
    BY <1>1, <1>2 DEF LogOK

LEMMA WriteOne ==
    ASSUME LogOK(log), NEW e \in Entries, Write(<<e>>)
    PROVE  /\ log' \in Seq(Entries) /\ Grown(log, log') /\ Len(log) \in Nat
           /\ Len(log') = Len(log) + 1
           /\ Kind(log', Len(log) + 1) = e.k /\ Id(log', Len(log) + 1) = e.x
           /\ EntryFollows(log', Len(log) + 1) => LogOK(log')
           /\ InTurn(log', Len(log)) <=> InTurn(log, Len(log))
           /\ OwnerIn(log', Len(log)) = OwnerIn(log, Len(log))
           /\ \A j \in 1..Len(log) : Kind(log', j) = Kind(log, j)
  <1>0. log \in Seq(Entries) /\ Len(log) \in Nat
    BY LogLen
  <1>1. log' = log \o <<e>> /\ <<e>> \in Seq(Entries) /\ Len(<<e>>) = 1
    BY DEF Write
  <1>2. log' \in Seq(Entries) /\ Len(log') = Len(log) + 1 /\ log'[Len(log) + 1] = e
        /\ \A i \in 1..Len(log) : log'[i] = log[i]
    BY <1>0, <1>1
  <1>3. Grown(log, log') /\ Kind(log', Len(log) + 1) = e.k /\ Id(log', Len(log) + 1) = e.x
    BY <1>0, <1>2 DEF Grown, Kind, Id
  <1>4. EntryFollows(log', Len(log) + 1) => LogOK(log')
    <2>1. \A i \in (Len(log) + 1)..Len(log') : i = Len(log) + 1
      BY <1>0, <1>2
    <2>2. QED
      BY <1>2, <1>3, <2>1, LogStays
  <1>5. Len(log) \in 0..Len(log)
    BY <1>0
  <1>6. (InTurn(log', Len(log)) <=> InTurn(log, Len(log))) /\ OwnerIn(log', Len(log)) = OwnerIn(log, Len(log))
    BY <1>0, <1>2, <1>3, <1>5, OwnerGrows
  <1>7. QED
    BY <1>0, <1>2, <1>3, <1>4, <1>6, EntriesStay

LEMMA WriteTwo ==
    ASSUME LogOK(log), NEW e \in Entries, NEW f \in Entries, Write(<<e, f>>), e.k = "finish", f.k = "done",
           InTurn(log, Len(log))
    PROVE  /\ LogOK(log') /\ Grown(log, log') /\ Len(log) \in Nat
           /\ Len(log') = Len(log) + 2 /\ Kind(log', Len(log) + 2) = "done"
           /\ OwnerIn(log', Len(log) + 2) = OwnerIn(log, Len(log))
           /\ ~InTurn(log', Len(log) + 2)
  <1>0. log \in Seq(Entries) /\ Len(log) \in Nat
    BY LogLen
  <1> DEFINE n == Len(log)
  <1>1. log' = log \o <<e, f>> /\ <<e, f>> \in Seq(Entries) /\ Len(<<e, f>>) = 2
    BY DEF Write
  <1>2. log' \in Seq(Entries) /\ Len(log') = n + 2 /\ log'[n + 1] = e
        /\ log'[n + 2] = f /\ \A i \in 1..n : log'[i] = log[i]
    BY <1>0, <1>1
  <1>3. Grown(log, log') /\ Kind(log', n + 1) = "finish" /\ Kind(log', n + 2) = "done"
    BY <1>0, <1>2 DEF Grown, Kind
  <1> HIDE DEF n
  <1>4. n \in 0..Len(log) /\ n \in Nat
    BY <1>0 DEF n
  <1>5. InTurn(log', n) /\ OwnerIn(log', n) = OwnerIn(log, n)
    BY <1>0, <1>2, <1>3, <1>4, OwnerGrows DEF n
  <1>6. InTurn(log', n + 1) /\ ~InTurn(log', n + 2) /\ OwnerIn(log', n + 2) = OwnerIn(log, n)
    <2>1. (n + 1) - 1 = n /\ (n + 2) - 1 = n + 1 /\ n + 1 \in Nat /\ n + 2 \in Nat /\ n + 1 > 0 /\ n + 2 > 0
      BY <1>4
    <2>2. InTurn(log', n + 1) /\ ~InTurn(log', n + 2)
      BY <1>3, <1>5, <2>1, TurnStep
    <2>3. OwnerIn(log', n + 1) = OwnerIn(log', n) /\ OwnerIn(log', n + 2) = OwnerIn(log', n + 1)
      BY <1>3, <2>1, OwnerStep
    <2>4. QED
      BY <1>5, <2>2, <2>3
  <1>7. \A i \in (n + 1)..Len(log') : EntryFollows(log', i)
    <2>1. EntryFollows(log', n + 1)
      <3>1. (n + 1) - 1 = n /\ (n + 1) + 1 = n + 2 /\ n + 1 < Len(log')
        BY <1>2, <1>4
      <3>2. QED
        BY <1>3, <1>5, <3>1 DEF EntryFollows
    <2>2. EntryFollows(log', n + 2)
      <3>1. (n + 2) - 1 = n + 1 /\ n + 2 > 1
        BY <1>4
      <3>2. QED
        BY <1>3, <1>6, <3>1 DEF EntryFollows
    <2>3. \A i \in (n + 1)..Len(log') : i = n + 1 \/ i = n + 2
      BY <1>2, <1>4
    <2>4. QED
      BY <2>1, <2>2, <2>3
  <1>8. QED
    BY <1>0, <1>2, <1>3, <1>6, <1>7, LogStays DEF n

EntryFits(k, x) == Entry(k, x) \in Entries /\ Entry(k, x).k = k /\ Entry(k, x).x = x

LEMMA EntriesFit ==
    /\ \A n \in Nat : EntryFits("prompt", User(n)) /\ EntryFits("start", Assistant(n))
    /\ \A m \in Named : EntryFits("start", m)
    /\ EntryFits("text", None) /\ EntryFits("gap", None) /\ EntryFits("done", None)
    /\ EntryFits("finish", "stop") /\ EntryFits("finish", "other")
  <1>1. \A n \in Nat : EntryFits("prompt", User(n))
    BY NamesAre DEF EntryFits, Entry, Entries, UserNames
  <1>2. \A m \in Named : EntryFits("start", m)
    BY DEF EntryFits, Entry, Entries
  <1>3. \A n \in Nat : EntryFits("start", Assistant(n))
    BY <1>2, NamesAre
  <1>4. EntryFits("text", None) /\ EntryFits("gap", None) /\ EntryFits("done", None)
    BY DEF EntryFits, Entry, Entries
  <1>5. EntryFits("finish", "stop") /\ EntryFits("finish", "other")
    BY DEF EntryFits, Entry, Entries
  <1>6. QED
    BY <1>1, <1>2, <1>3, <1>4, <1>5

LEMMA InvIs ==
    ASSUME Inv
    PROVE  /\ LogOK(log) /\ log \in Seq(Entries) /\ Len(log) \in Nat /\ HostTyped(host) /\ HostOK(log, host)
           /\ ClientTyped(store, tail, read) /\ faults \in 0..MaxFaults /\ split \subseteq Named
           /\ ClientOK(log, host, split, store, chat, tail, read)
  BY TypeIs, LogLen DEF Inv

\* A turn starts.
LEMMA StartWrites ==
    ASSUME Inv, ~host.open, NEW m \in Named, Write(<<Entry("start", m)>>), HostTyped(host'),
           host'.open, host'.m = m, host'.waits = "nothing", host'.task => host.task
    PROVE  /\ Wrote
           /\ Len(log') = Len(log) + 1 /\ Kind(log', Len(log) + 1) = "start" /\ Id(log', Len(log) + 1) = m
  <1> DEFINE n == Len(log)
             e == Entry("start", m)
  <1>1. e \in Entries /\ e.k = "start" /\ e.x = m
    BY EntriesFit DEF EntryFits
  <1>2. LogOK(log) /\ HostOK(log, host) /\ ~InTurn(log, n) /\ HostTyped(host)
    BY InvIs DEF HostOK
  <1> HIDE DEF e
  <1>3. /\ Grown(log, log') /\ n \in Nat /\ Len(log') = n + 1
        /\ Kind(log', n + 1) = "start" /\ Id(log', n + 1) = m
        /\ (EntryFollows(log', n + 1) => LogOK(log')) /\ ~InTurn(log', n)
        /\ \A j \in 1..n : Kind(log', j) = Kind(log, j)
    BY <1>1, <1>2, WriteOne DEF e
  <1> HIDE DEF n
  <1>4. (n + 1) - 1 = n /\ n + 1 \in Nat /\ n + 1 > 0
    BY <1>3
  <1>5. LogOK(log')
    BY <1>3, <1>4 DEF EntryFollows
  <1>6. InTurn(log', n + 1) /\ OwnerIn(log', n + 1) = m
    BY <1>3, <1>4, TurnStep, OwnerStep
  <1>7. HostOK(log', host')
    <2>1. host'.task => \E j \in 1..Len(log') : Kind(log', j) = "done"
      BY <1>2, <1>3 DEF HostOK, n
    <2>2. QED
      BY <1>3, <1>6, <2>1 DEF HostOK, Answering
  <1>8. NoNewAnswer(log, log', host, host')
    BY DEF NoNewAnswer, Answering
  <1>9. QED
    BY <1>3, <1>5, <1>7, <1>8 DEF Wrote, n

LEMMA PromptWrites ==
    ASSUME Inv, Prompt
    PROVE  /\ Wrote
           /\ Len(log') = Len(log) + 1 /\ Kind(log', Len(log) + 1) = "prompt"
  <1> DEFINE n == Len(log)
             e == Entry("prompt", User(host.n + 1))
  <1>1. LogOK(log) /\ HostOK(log, host) /\ HostTyped(host)
    BY InvIs
  <1>2. host.n + 1 \in Nat
    BY <1>1, HostIs
  <1>3. e \in Entries /\ e.k = "prompt"
    BY <1>2, EntriesFit DEF EntryFits
  <1>4. ~host.open /\ Write(<<e>>) /\ host' = [host EXCEPT !.prompted = TRUE]
    BY DEF Prompt
  <1>5. /\ HostTyped(host') /\ host'.open = host.open /\ host'.m = host.m /\ host'.task = host.task
        /\ host'.waits = host.waits /\ host'.prompted
    BY <1>1, <1>4 DEF HostTyped
  <1> HIDE DEF e
  <1>6. /\ Grown(log, log') /\ n \in Nat /\ Len(log') = n + 1 /\ Kind(log', n + 1) = "prompt"
        /\ (EntryFollows(log', n + 1) => LogOK(log')) /\ (InTurn(log', n) <=> InTurn(log, n))
        /\ OwnerIn(log', n) = OwnerIn(log, n)
        /\ \A j \in 1..n : Kind(log', j) = Kind(log, j)
    BY <1>1, <1>3, <1>4, WriteOne
  <1>7. ~InTurn(log, n)
    BY <1>1, <1>4 DEF HostOK
  <1> HIDE DEF n
  <1>8. (n + 1) - 1 = n /\ n + 1 \in Nat /\ n + 1 > 0
    BY <1>6
  <1>9. LogOK(log')
    BY <1>6, <1>7, <1>8 DEF EntryFollows
  <1>10. ~InTurn(log', n + 1) /\ OwnerIn(log', n + 1) = OwnerIn(log, n)
    BY <1>6, <1>7, <1>8, TurnStep, OwnerStep
  <1>11. HostOK(log', host')
    <2>1. host'.task => \E j \in 1..Len(log') : Kind(log', j) = "done"
      BY <1>1, <1>5, <1>6 DEF HostOK, n
    <2>2. host'.waits = "answer" => host'.m \in Named /\ OwnerIn(log', n + 1) = host'.m
      BY <1>1, <1>5, <1>10 DEF HostOK, n
    <2>3. QED
      BY <1>4, <1>5, <1>6, <1>10, <2>1, <2>2 DEF HostOK, Answering
  <1>12. NoNewAnswer(log, log', host, host')
    BY <1>5 DEF NoNewAnswer, Answering
  <1>13. QED
    BY <1>5, <1>6, <1>9, <1>11, <1>12 DEF Wrote, n

LEMMA ContinueWrites ==
    ASSUME Inv, ContinueTurn
    PROVE  /\ Wrote /\ ~InTurn(log, Len(log)) /\ host.m \in Named /\ OwnerIn(log, Len(log)) = host.m
           /\ Answering(host)
           /\ host'.open /\ host'.waits = "nothing"
           /\ Len(log') = Len(log) + 1 /\ Kind(log', Len(log) + 1) = "start" /\ Id(log', Len(log) + 1) = host.m
  <1>1. HostTyped(host) /\ HostOK(log, host)
    BY InvIs
  <1>2. /\ host.waits = "answer" /\ ~host.prompted /\ Write(<<Entry("start", host.m)>>)
        /\ host' = [host EXCEPT !.open = TRUE, !.texts = 0, !.waits = "nothing"]
    BY DEF ContinueTurn
  <1>3. ~host.open /\ host.m \in Named /\ OwnerIn(log, Len(log)) = host.m /\ ~InTurn(log, Len(log))
    BY <1>1, <1>2 DEF HostOK
  <1>4. HostTyped(host') /\ host'.open /\ host'.m = host.m /\ host'.waits = "nothing" /\ host'.task = host.task
    BY <1>1, <1>2 DEF HostTyped
  <1>5. Wrote /\ Len(log') = Len(log) + 1 /\ Kind(log', Len(log) + 1) = "start" /\ Id(log', Len(log) + 1) = host.m
    BY <1>2, <1>3, <1>4, StartWrites
  <1>6. QED
    BY <1>2, <1>3, <1>4, <1>5 DEF Answering

LEMMA StartTurnWrites ==
    ASSUME Inv, StartTurn PROVE Wrote
  <1>1. HostTyped(host)
    BY InvIs
  <1>2. host.n + 1 \in Nat /\ Assistant(host.n + 1) \in Named
    BY <1>1, HostIs, NamesAre
  <1> DEFINE m == Assistant(host.n + 1)
  <1>3. /\ ~host.open /\ Write(<<Entry("start", m)>>)
        /\ host' = [host EXCEPT !.open = TRUE, !.m = m, !.n = host.n + 1, !.texts = 0,
                                !.prompted = FALSE, !.waits = "nothing"]
    BY DEF StartTurn
  <1>4. m \in Named
    BY <1>2
  <1> HIDE DEF m
  <1>5. HostTyped(host') /\ host'.open /\ host'.m = m /\ host'.waits = "nothing" /\ host'.task = host.task
    BY <1>1, <1>2, <1>3, <1>4 DEF HostTyped
  <1>6. QED
    BY <1>3, <1>4, <1>5, StartWrites

LEMMA TaskCompletesWrites ==
    ASSUME Inv, TaskCompletes PROVE Wrote
  <1>1. HostTyped(host) /\ HostOK(log, host) /\ LogOK(log) /\ Len(log) \in Nat
    BY InvIs
  <1>2. host.n + 1 \in Nat /\ Assistant(host.n + 1) \in Named
    BY <1>1, HostIs, NamesAre
  <1> DEFINE m == Assistant(host.n + 1)
  <1>3. CASE host.waits = "task"
    <2>1. /\ ~host.open /\ Write(<<Entry("start", m)>>)
          /\ host' = [host EXCEPT !.open = TRUE, !.m = m, !.n = host.n + 1,
                                  !.texts = 0, !.waits = "nothing", !.task = FALSE]
      BY <1>3 DEF TaskCompletes
    <2>2. m \in Named
      BY <1>2
    <2> HIDE DEF m
    <2>3. HostTyped(host') /\ host'.open /\ host'.m = m /\ host'.waits = "nothing" /\ ~host'.task
      BY <1>1, <1>2, <2>1, <2>2 DEF HostTyped
    <2>4. QED
      BY <2>1, <2>2, <2>3, StartWrites
  <1>4. CASE host.waits # "task"
    <2>1. log' = log /\ host' = [host EXCEPT !.task = FALSE]
      BY <1>4 DEF TaskCompletes
    <2>2. /\ HostTyped(host') /\ ~host'.task /\ host'.open = host.open /\ host'.m = host.m
          /\ host'.waits = host.waits /\ host'.prompted = host.prompted
      BY <1>1, <2>1 DEF HostTyped
    <2>3. HostOK(log', host')
      BY <1>1, <2>1, <2>2 DEF HostOK, Answering
    <2>4. Grown(log, log') /\ NoNewAnswer(log, log', host, host')
      BY <1>1, <2>1, <2>2 DEF Grown, NoNewAnswer, Answering
    <2>5. QED
      BY <1>1, <2>1, <2>2, <2>3, <2>4 DEF Wrote
  <1>5. QED
    BY <1>3, <1>4

LEMMA WriteTextWrites ==
    ASSUME Inv, WriteText PROVE Wrote
  <1> DEFINE n == Len(log)
             e == Entry("text", None)
  <1>1. LogOK(log) /\ HostOK(log, host) /\ HostTyped(host)
    BY InvIs
  <1>2. e \in Entries /\ e.k = "text"
    BY EntriesFit DEF EntryFits
  <1> DEFINE t == host.texts + 1
  <1>3. host.open /\ Write(<<e>>) /\ host' = [host EXCEPT !.texts = t] /\ t \in Nat
    BY <1>1, HostIs DEF WriteText
  <1> HIDE DEF t
  <1>4. /\ HostTyped(host') /\ host'.open = host.open /\ host'.m = host.m /\ host'.task = host.task
        /\ host'.waits = host.waits
    BY <1>1, <1>3 DEF HostTyped
  <1> HIDE DEF e
  <1>5. /\ Grown(log, log') /\ n \in Nat /\ Len(log') = n + 1 /\ Kind(log', n + 1) = "text"
        /\ (EntryFollows(log', n + 1) => LogOK(log')) /\ (InTurn(log', n) <=> InTurn(log, n))
        /\ OwnerIn(log', n) = OwnerIn(log, n)
        /\ \A j \in 1..n : Kind(log', j) = Kind(log, j)
    BY <1>1, <1>2, <1>3, WriteOne
  <1>6. InTurn(log, n) /\ host.waits = "nothing" /\ host.m \in Named /\ OwnerIn(log, n) = host.m
    BY <1>1, <1>3 DEF HostOK
  <1> HIDE DEF n
  <1>7. (n + 1) - 1 = n /\ n + 1 \in Nat /\ n + 1 > 0
    BY <1>5
  <1>8. LogOK(log')
    BY <1>5, <1>6, <1>7 DEF EntryFollows
  <1>9. InTurn(log', n + 1) /\ OwnerIn(log', n + 1) = OwnerIn(log, n)
    BY <1>5, <1>6, <1>7, TurnStep, OwnerStep
  <1>10. HostOK(log', host')
    <2>1. host'.task => \E j \in 1..Len(log') : Kind(log', j) = "done"
      BY <1>1, <1>4, <1>5 DEF HostOK, n
    <2>2. QED
      BY <1>3, <1>4, <1>5, <1>6, <1>9, <2>1 DEF HostOK, Answering
  <1>11. NoNewAnswer(log, log', host, host')
    BY <1>4, <1>6 DEF NoNewAnswer, Answering
  <1>12. QED
    BY <1>4, <1>5, <1>8, <1>10, <1>11 DEF Wrote

LEMMA ProgressWrites ==
    ASSUME Inv, Progress PROVE Wrote
  <1> DEFINE n == Len(log)
             e == Entry("gap", None)
  <1>1. LogOK(log) /\ HostOK(log, host) /\ HostTyped(host)
    BY InvIs
  <1>2. e \in Entries /\ e.k = "gap"
    BY EntriesFit DEF EntryFits
  <1> DEFINE t == host.texts + 1
  <1>3. host.task /\ Write(<<e>>) /\ host' = [host EXCEPT !.texts = t] /\ t \in Nat
    BY <1>1, HostIs DEF Progress
  <1> HIDE DEF t
  <1>4. /\ HostTyped(host') /\ host'.open = host.open /\ host'.m = host.m /\ host'.task = host.task
        /\ host'.waits = host.waits /\ host'.prompted = host.prompted
    BY <1>1, <1>3 DEF HostTyped
  <1> HIDE DEF e
  <1>5. /\ Grown(log, log') /\ n \in Nat /\ Len(log') = n + 1 /\ Kind(log', n + 1) = "gap"
        /\ (EntryFollows(log', n + 1) => LogOK(log')) /\ (InTurn(log', n) <=> InTurn(log, n))
        /\ OwnerIn(log', n) = OwnerIn(log, n)
        /\ \A j \in 1..n : Kind(log', j) = Kind(log, j)
    BY <1>1, <1>2, <1>3, WriteOne
  <1>6. \E j \in 1..n : Kind(log, j) = "done"
    BY <1>1, <1>3 DEF HostOK
  <1> HIDE DEF n
  <1>7. (n + 1) - 1 = n /\ n + 1 \in Nat /\ n + 1 > 0
    BY <1>5
  <1>8. LogOK(log')
    BY <1>5, <1>6, <1>7 DEF EntryFollows
  <1>9. (InTurn(log', n + 1) <=> InTurn(log, n)) /\ OwnerIn(log', n + 1) = OwnerIn(log, n)
    BY <1>5, <1>7, TurnStep, OwnerStep
  <1>10. HostOK(log', host')
    <2>1. \E j \in 1..Len(log') : Kind(log', j) = "done"
      BY <1>5, <1>6
    <2>2. ASSUME Answering(host'), NEW j \in 1..(n + 1), Kind(log', j) = "prompt" PROVE ~Calm(log', j, n + 1)
      <3>1. Answering(host)
        BY <1>4, <2>2 DEF Answering
      <3>2. j # n + 1
        BY <1>5, <2>2
      <3>3. j \in 1..n /\ Kind(log, j) = "prompt"
        BY <1>5, <2>2, <3>2
      <3>4. ~Calm(log, j, n)
        BY <1>1, <3>1, <3>3 DEF HostOK, n
      <3>5. \A i \in (j + 1)..n : i \in 1..n /\ i \in (j + 1)..(n + 1)
        BY <1>5, <3>3
      <3>6. QED
        BY <1>5, <3>4, <3>5 DEF Calm
    <2>3. (host'.open <=> InTurn(log', Len(log'))) /\ OwnerIn(log', Len(log')) = OwnerIn(log, n)
      BY <1>1, <1>4, <1>5, <1>9 DEF HostOK, n
    <2>4. host'.open => host'.waits = "nothing" /\ host'.m \in Named /\ OwnerIn(log', Len(log')) = host'.m
      BY <1>1, <1>4, <2>3 DEF HostOK, n
    <2>5. host'.waits = "answer" => host'.m \in Named /\ OwnerIn(log', Len(log')) = host'.m
      BY <1>1, <1>4, <2>3 DEF HostOK, n
    <2>6. QED
      BY <1>5, <2>1, <2>2, <2>3, <2>4, <2>5 DEF HostOK
  <1>11. NoNewAnswer(log, log', host, host')
    BY <1>4 DEF NoNewAnswer, Answering
  <1>12. QED
    BY <1>4, <1>5, <1>8, <1>10, <1>11 DEF Wrote

LEMMA CloseTurnWrites ==
    ASSUME Inv, NEW waits \in {"nothing", "task", "answer"}, CloseTurn(waits) PROVE Wrote
  <1> DEFINE n == Len(log)
             e == Entry("finish", IF waits = "nothing" THEN "stop" ELSE "other")
             f == Entry("done", None)
  <1>1. LogOK(log) /\ HostOK(log, host) /\ HostTyped(host)
    BY InvIs
  <1>2. e \in Entries /\ e.k = "finish" /\ f \in Entries /\ f.k = "done"
    BY EntriesFit DEF EntryFits
  <1>3. /\ host.open /\ Write(<<e, f>>)
        /\ host' = [host EXCEPT !.open = FALSE, !.waits = waits, !.texts = 0, !.task = host.task \/ waits = "task"]
    BY DEF CloseTurn
  <1>4. HostTyped(host') /\ ~host'.open /\ host'.m = host.m /\ host'.waits = waits
    BY <1>1, <1>3 DEF HostTyped
  <1> HIDE DEF e, f
  <1>5. InTurn(log, n) /\ host.m \in Named /\ OwnerIn(log, n) = host.m
    BY <1>1, <1>3 DEF HostOK
  <1>6. /\ LogOK(log') /\ Grown(log, log') /\ n \in Nat /\ Len(log') = n + 2 /\ Kind(log', n + 2) = "done"
        /\ OwnerIn(log', n + 2) = host.m /\ ~InTurn(log', n + 2)
    BY <1>1, <1>2, <1>3, <1>5, WriteTwo
  <1> HIDE DEF n
  <1>7. \A j \in 1..(n + 2) : Kind(log', j) # "done" => ~Calm(log', j, n + 2)
    <2>1. \A j \in 1..(n + 2) : j # n + 2 => n + 2 \in (j + 1)..(n + 2)
      BY <1>6
    <2>2. QED
      BY <1>6, <2>1 DEF Calm
  <1>8. HostOK(log', host')
    <2>1. n + 2 \in 1..Len(log')
      BY <1>6
    <2>2. \E j \in 1..Len(log') : Kind(log', j) = "done"
      BY <1>6, <2>1
    <2>3. \A j \in 1..Len(log') : Kind(log', j) = "prompt" => ~Calm(log', j, Len(log'))
      BY <1>6, <1>7
    <2>4. QED
      BY <1>4, <1>5, <1>6, <2>2, <2>3 DEF HostOK
  <1>9. NoNewAnswer(log, log', host, host')
    BY <1>6, <1>7 DEF NoNewAnswer, LateGap
  <1>10. QED
    BY <1>4, <1>6, <1>8, <1>9 DEF Wrote


-----------------------------------------------------------------------------
(* The steps that start and end a stream.                                   *)

\* i is the first entry after c that is no prompt.
NextAfter(l, c, i) == i \in (c + 1)..Len(l) /\ Kind(l, i) # "prompt" /\ \A j \in (c + 1)..(i - 1) : Kind(l, j) = "prompt"

LEMMA ReaderIs ==
    ASSUME NEW by \in {"post", "resume"}, NEW m \in Named \cup {None}, NEW n \in Nat, NEW msg \in Messages
    PROVE  /\ ReadTyped(Reader(by, m, n, msg))
           /\ Reader(by, m, n, msg).by = by /\ Reader(by, m, n, msg).awaiting = m
           /\ Reader(by, m, n, msg).current = m /\ Reader(by, m, n, msg).through = n
           /\ Reader(by, m, n, msg).msg = msg
  <1> DEFINE b == n > 0
  <1>1. b \in BOOLEAN
    OBVIOUS
  <1>2. Reader(by, m, n, msg) = [by |-> by, awaiting |-> m, current |-> m, through |-> n,
                                 buffering |-> b, reached |-> 0, msg |-> msg]
    BY DEF Reader
  <1> HIDE DEF b
  <1>3. QED
    BY <1>1, <1>2 DEF ReadTyped

LEMMA TailFromIs ==
    ASSUME NEW i \in Nat
    PROVE  /\ TailTyped(TailFrom(i)) /\ TailFrom(i).at = i /\ TailFrom(i).from = i /\ ~TailFrom(i).ended
  BY DEF TailFrom, TailTyped

LEMMA NoneIs ==
    TailTyped(NoTail) /\ ReadTyped(NoRead) /\ NoRead.by = "nobody"
  BY BlankIs DEF NoTail, NoRead, TailTyped, ReadTyped

LEMMA OneMoreFault ==
    ASSUME NEW n \in 0..MaxFaults, n < MaxFaults PROVE n + 1 \in 0..MaxFaults
  <1>1. MaxFaults \in Nat
    BY ResumeBounds
  <1>2. QED
    BY <1>1

LEMMA ByClientStep ==
    ASSUME Inv, UNCHANGED <<log, host>>, faults' \in 0..MaxFaults, split' \subseteq Named,
           ClientTyped(store', tail', read'), ClientOK(log, host, split', store', chat', tail', read')
    PROVE  Inv'
  <1>1. LogOK(log) /\ HostOK(log, host) /\ log' = log /\ host' = host /\ HostTyped(host) /\ log \in Seq(Entries)
    BY InvIs
  <1>2. chat' \in Seq(Messages)
    BY ShownTyped DEF ClientOK
  <1>3. TypeOK'
    BY <1>1, <1>2, TypeNext
  <1>4. QED
    BY <1>1, <1>3 DEF Inv

LEMMA InvInit ==
    ASSUME Init PROVE Inv
  <1>1. /\ log = <<>> /\ chat = <<>> /\ tail = NoTail /\ read = NoRead /\ faults = 0 /\ split = {}
        /\ store.cursor = 0 /\ store.open.m = None
        /\ ~host.open /\ ~host.prompted /\ ~host.task /\ host.waits = "nothing"
    BY DEF Init
  <1>2. TypeOK
    <2>1. HostTyped(host) /\ StoreTyped(store)
      BY DEF Init, HostTyped, StoreTyped
    <2>2. MaxFaults \in Nat
      BY ResumeBounds
    <2>3. log \in Seq(Entries) /\ chat \in Seq(Messages) /\ faults \in 0..MaxFaults /\ split \subseteq Named
      BY <1>1, <2>2
    <2>4. QED
      BY <1>1, <2>1, <2>3, NoneIs, TypeIs DEF ClientTyped
  <1>3. LogOK(log) /\ Len(log) = 0
    BY <1>1 DEF LogOK
  <1>4. HostOK(log, host)
    BY <1>1, <1>3 DEF HostOK, InTurn, Answering
  <1>5. StoreOK(log, split, store, tail, read)
    BY <1>1, <1>3 DEF StoreOK, Rest, Settled
  <1>6. chat \in Seq(Shown(log, host, split))
    BY <1>1
  <1>7. ReadOK(log, host, split, store, tail, read)
    BY <1>1, NoneIs DEF ReadOK
  <1>8. QED
    BY <1>2, <1>3, <1>4, <1>5, <1>6, <1>7 DEF Inv, ClientOK

\* Since the last done the log is calm while no turn runs.
LEMMA CalmSinceDone ==
    ASSUME LogOK(log), ~InTurn(log, Len(log))
    PROVE  Calm(log, LatestTurnBoundary, Len(log))
  <1>1. Len(log) \in Nat
    BY LogLen
  <1>2. /\ LatestTurnBoundary \in 0..Len(log)
        /\ \A i \in 1..Len(log) : Kind(log, i) = "done" => i <= LatestTurnBoundary
    BY TurnBoundaryIs
  <1>3. ASSUME NEW j \in (LatestTurnBoundary + 1)..Len(log) PROVE Kind(log, j) \notin {"start", "done"}
    <2>1. j \in 1..Len(log) /\ Len(log) \in j..Len(log) /\ ~(j <= LatestTurnBoundary)
      BY <1>1, <1>2
    <2>2. \A k \in j..Len(log) : k \in 1..Len(log) /\ ~(k <= LatestTurnBoundary)
      BY <1>1, <1>2, <2>1
    <2>3. \A k \in j..Len(log) : Kind(log, k) # "done"
      BY <1>2, <2>2
    <2>4. Kind(log, j) # "start"
      BY <2>1, <2>3, OneStart
    <2>5. QED
      BY <1>2, <2>1, <2>4
  <1>4. QED
    BY <1>3 DEF Calm

LEMMA SendMessageKeeps ==
    ASSUME Inv, SendMessage PROVE Inv'
  <1> DEFINE c == store.cursor
             u == User(host.n + 1)
             n == Len(log)
  <1>1. /\ LogOK(log) /\ HostTyped(host) /\ HostOK(log, host) /\ ClientTyped(store, tail, read) /\ n \in Nat
        /\ faults \in 0..MaxFaults /\ split \subseteq Named /\ log \in Seq(Entries)
    BY InvIs
  <1>2. /\ read.by = "nobody" /\ c = LatestTurnBoundary /\ Prompt /\ ~host.open
        /\ chat' = Append(chat, Empty(u)) /\ read' = Reader("post", None, 0, Blank)
        /\ tail' = TailFrom(c) /\ store' = store /\ faults' = faults /\ split' = split
    BY DEF SendMessage, Prompt, Reading, UpToDate, Empty
  <1>3. Wrote /\ Len(log') = n + 1 /\ Kind(log', n + 1) = "prompt"
    BY <1>2, PromptWrites
  <1>4. ClientOK(log', host', split, store, chat, tail, read)
    BY <1>3, HostStep
  <1>5. c \in 0..n /\ c \in Nat
    BY <1>1, <1>2, TurnBoundaryIs
  <1>6. /\ ReadTyped(read') /\ read'.by = "post" /\ read'.awaiting = None /\ read'.msg = Blank
        /\ TailTyped(tail') /\ tail'.at = c /\ ~tail'.ended
    <2>1. 0 \in Nat /\ Blank \in Messages
      BY BlankIs
    <2>2. QED
      BY <1>2, <1>5, <2>1, ReaderIs, TailFromIs
  <1>7. u \in Names
    <2>1. host.n + 1 \in Nat
      BY <1>1, HostIs
    <2>2. QED
      BY <2>1, NamesAre
  <1>8. chat' \in Seq(Shown(log', host', split))
    <2>1. Empty(u) \in Shown(log', host', split)
      BY <1>7, EmptyIs
    <2> DEFINE G == Shown(log', host', split)
    <2>2. chat \in Seq(G) /\ Empty(u) \in G
      BY <1>4, <2>1 DEF ClientOK
    <2> HIDE DEF G
    <2>3. Append(chat, Empty(u)) \in Seq(G)
      BY <2>2
    <2>4. QED
      BY <1>2, <2>3 DEF G
  <1>9. StoreOK(log', split, store, tail', read')
    BY <1>2, <1>4 DEF ClientOK, StoreOK
  <1>10. Calm(log', c, n + 1)
    <2>1. Calm(log, c, n)
      BY <1>1, <1>2, CalmSinceDone DEF HostOK
    <2>2. n \in 0..Len(log) /\ log' \in Seq(Entries) /\ Grown(log, log')
      BY <1>1, <1>3, LogLen DEF Wrote
    <2>3. Calm(log', c, n)
      BY <1>1, <1>5, <2>1, <2>2, CalmGrows
    <2>4. \A j \in (c + 1)..(n + 1) : j \in (c + 1)..n \/ j = n + 1
      BY <1>1, <1>5
    <2>5. QED
      BY <1>3, <2>3, <2>4 DEF Calm
  <1>11. ReadOK(log', host', split, store, tail', read')
    <2>1. \A j \in (c + 1)..c : FALSE
      BY <1>5
    <2>2. Owned(log', split, Blank) /\ Behind(Blank, c) /\ \A x : ~In(Blank, x)
      BY BlankIs, EmptyIs, NamesAre
    <2>3. n + 1 \in (c + 1)..Len(log') /\ c \in 0..Len(log')
      BY <1>1, <1>3, <1>5
    <2>4. Bare(log', store, tail', read')
      BY <1>3, <1>5, <1>6, <1>10, <2>1, <2>2, <2>3, BlankIs DEF Bare, Calm
    <2>5. QED
      BY <1>6, <2>1, <2>2, <2>3, <2>4 DEF ReadOK, ReadForm
  <1>12. ClientOK(log', host', split', store', chat', tail', read') /\ ClientTyped(store', tail', read')
    BY <1>1, <1>2, <1>6, <1>8, <1>9, <1>11 DEF ClientOK, ClientTyped
  <1>13. chat' \in Seq(Messages)
    BY <1>8, ShownTyped
  <1>14. TypeOK'
    BY <1>1, <1>2, <1>3, <1>12, <1>13, LogLen, TypeNext DEF Wrote
  <1>15. QED
    BY <1>3, <1>12, <1>14 DEF Inv, Wrote

LEMMA SendAnswerKeeps ==
    ASSUME Inv, SendAnswer PROVE Inv'
  <1> DEFINE c == store.cursor
             n == Len(log)
             msg == Last(chat)
             m == host.m
  <1>1. /\ LogOK(log) /\ HostTyped(host) /\ HostOK(log, host) /\ ClientTyped(store, tail, read) /\ n \in Nat
        /\ faults \in 0..MaxFaults /\ split \subseteq Named /\ log \in Seq(Entries)
        /\ chat \in Seq(Shown(log, host, split))
    BY InvIs DEF ClientOK
  <1>2. /\ read.by = "nobody" /\ c = LatestTurnBoundary /\ ContinueTurn
        /\ chat # <<>> /\ msg.m = m /\ read' = Reader("post", None, 0, msg)
        /\ tail' = TailFrom(c) /\ store' = store /\ faults' = faults /\ split' = split /\ chat' = chat
    BY DEF SendAnswer, Reading, UpToDate
  <1>3. /\ Wrote /\ ~InTurn(log, n) /\ m \in Named /\ Answering(host)
        /\ Len(log') = n + 1 /\ Kind(log', n + 1) = "start" /\ Id(log', n + 1) = m
        /\ OwnerIn(log, n) = m
    BY <1>2, ContinueWrites
  <1>4. /\ ClientOK(log', host', split, store, chat, tail, read)
        /\ log' \in Seq(Entries) /\ Grown(log, log') /\ LogOK(log')
    BY <1>3, HostStep, LogLen DEF Wrote
  <1>5. c \in 0..n /\ c \in Nat /\ n \in 0..n
    BY <1>1, <1>2, TurnBoundaryIs
  <1>6. msg \in Shown(log, host, split) /\ msg \in Messages /\ Owned(log, split, msg) /\ InOrder(log, host, msg)
    <2> DEFINE G == Shown(log, host, split)
    <2>1. chat \in Seq(G) /\ chat # <<>>
      BY <1>1, <1>2
    <2> HIDE DEF G
    <2>2. chat[Len(chat)] \in G
      BY <2>1
    <2>3. msg \in G
      BY <2>2 DEF Last
    <2>4. QED
      BY <2>3 DEF G, Shown
  <1> HIDE DEF msg, c, n, m
  <1>7. /\ ReadTyped(read') /\ read'.by = "post" /\ read'.awaiting = None /\ read'.msg = msg
        /\ TailTyped(tail') /\ tail'.at = c /\ ~tail'.ended
    <2>1. 0 \in Nat
      OBVIOUS
    <2>2. QED
      BY <1>2, <1>5, <1>6, <2>1, ReaderIs, TailFromIs
  <1>8. Calm(log, c, n) /\ OwnerIn(log, c) = m /\ ~InTurn(log, c)
    <2>1. Calm(log, c, n)
      BY <1>1, <1>2, <1>3, CalmSinceDone DEF n
    <2>2. QED
      BY <1>1, <1>3, <1>5, <2>1, CalmStays
  <1>9. OwnerIn(log', c) = m
    BY <1>1, <1>4, <1>5, <1>8, OwnerGrows DEF n
  <1>10. StartsAt(log', c, m)
    <2>1. Calm(log', c, n)
      BY <1>1, <1>4, <1>5, <1>8, CalmGrows DEF n
    <2>2. n + 1 \in (c + 1)..Len(log') /\ (n + 1) - 1 = n
      BY <1>1, <1>3, <1>5
    <2>3. QED
      BY <1>3, <2>1, <2>2 DEF StartsAt
  <1>11. Ahead(log', c, msg)
    <2>1. SUFFICES ASSUME NEW x \in (c + 1)..Len(log'), In(msg, x)
                   PROVE  /\ Kind(log', x) = "gap" /\ Calm(log', c, x)
                          /\ \A g \in (c + 1)..x : Kind(log', g) = "gap" => In(msg, g)
      BY DEF Ahead
    <2>2. x \in 1..n /\ Kind(log, x) \in Parts
      BY <1>6, <2>1, InOwned DEF OwnPart, n
    <2>3. x \in Nat /\ x \in 0..n /\ x - 1 \in Nat /\ c <= x - 1
      BY <1>1, <1>5, <2>1, <2>2
    <2>4. Calm(log, c, x) /\ Calm(log, c, x - 1)
      BY <1>1, <1>5, <1>8, <2>2 DEF Calm
    <2>5. ~InTurn(log, x - 1)
      BY <1>5, <1>8, <2>3, <2>4, CalmStays
    <2>6. Kind(log, x) = "gap"
      BY <1>1, <2>2, <2>5, KindIs DEF Parts, EntryFollows, n
    <2>7. /\ \A j \in 1..n : Kind(log', j) = Kind(log, j)
          /\ Calm(log', c, x)
      BY <1>1, <1>4, <1>5, <2>3, <2>4, EntriesStay, CalmGrows DEF n
    <2>8. ASSUME NEW g \in (c + 1)..x, Kind(log', g) = "gap" PROVE In(msg, g)
      <3>1. g \in 1..n /\ g \in 1..x
        BY <1>1, <1>5, <2>2
      <3>2. Kind(log, g) = "gap"
        BY <2>7, <2>8, <3>1
      <3>3. Calm(log, g, n)
        BY <1>1, <1>5, <1>8, <3>1 DEF Calm
      <3>4. LateGap(log, g)
        BY <3>2, <3>3 DEF LateGap, n
      <3>5. QED
        BY <1>2, <1>3, <1>6, <2>1, <2>2, <3>1, <3>4 DEF InOrder, n, m, msg
    <2>9. QED
      BY <2>2, <2>6, <2>7, <2>8
  <1>12. Owned(log', split, msg)
    BY <1>1, <1>4, <1>6, OwnedGrows
  <1>13. StoreOK(log', split, store, tail', read')
    BY <1>2, <1>4 DEF ClientOK, StoreOK
  <1>14. ReadOK(log', host', split, store, tail', read')
    <2>1. \A j \in (c + 1)..c : FALSE
      BY <1>5
    <2>2. c \in 0..Len(log')
      BY <1>1, <1>3, <1>5
    <2>3. msg.m = m
      BY <1>2
    <2>4. Answers(log', store, tail', read')
      BY <1>3, <1>5, <1>7, <1>9, <1>10, <1>11, <2>1, <2>3 DEF Answers, Calm, c
    <2>5. QED
      BY <1>7, <1>12, <2>1, <2>2, <2>4 DEF ReadOK, ReadForm, c
  <1>15. ClientOK(log', host', split', store', chat', tail', read') /\ ClientTyped(store', tail', read')
    BY <1>1, <1>2, <1>4, <1>7, <1>13, <1>14 DEF ClientOK, ClientTyped
  <1>16. chat' \in Seq(Messages)
    BY <1>15, ShownTyped DEF ClientOK
  <1>17. TypeOK'
    BY <1>1, <1>2, <1>3, <1>4, <1>15, <1>16, TypeNext DEF Wrote
  <1>18. QED
    BY <1>3, <1>15, <1>17 DEF Inv, Wrote

LEMMA ReconnectKeeps ==
    ASSUME Inv, ReconnectToStream PROVE Inv'
  <1> DEFINE c == store.cursor
             m == store.open.m
             a == store.open.after
  <1>1. /\ LogOK(log) /\ ClientTyped(store, tail, read) /\ Len(log) \in Nat
        /\ faults \in 0..MaxFaults /\ split \subseteq Named
        /\ ClientOK(log, host, split, store, chat, tail, read)
    BY InvIs
  <1>2. /\ read.by = "nobody" /\ tail' = TailFrom(IF m # None THEN a ELSE c)
        /\ read' = Reader("resume", m, IF m = None THEN 0 ELSE c, Blank)
        /\ UNCHANGED <<log, host>> /\ store' = store /\ faults' = faults /\ split' = split /\ chat' = chat
    BY DEF ReconnectToStream, Reading
  <1>3. c \in 0..Len(log) /\ c \in Nat /\ a \in Nat /\ m \in Named \cup {None} /\ None \notin Named
    BY <1>1, StoreIs, NamesAre DEF ClientOK, StoreOK, ClientTyped
  <1>4. m # None => OpenSince(log, a, c, m)
    BY <1>1 DEF ClientOK, StoreOK
  <1>5. m # None => a <= c
    BY <1>3, <1>4 DEF OpenSince
  <1> DEFINE t == IF m # None THEN a ELSE c
             k == IF m = None THEN 0 ELSE c
  <1>6. t \in Nat /\ k \in Nat /\ t <= c
    BY <1>3, <1>5
  <1> HIDE DEF k
  <1>7. /\ ReadTyped(read') /\ read'.by = "resume" /\ read'.awaiting = m /\ read'.current = m
        /\ read'.msg = Blank /\ TailTyped(tail') /\ tail'.at = t /\ ~tail'.ended
    BY <1>2, <1>3, <1>6, ReaderIs, TailFromIs, BlankIs DEF k
  <1>8. \A x \in (c + 1)..t : FALSE
    BY <1>3, <1>6
  <1>9. Owned(log, split, Blank) /\ Behind(Blank, t) /\ \A x : ~In(Blank, x)
    BY BlankIs, EmptyIs, NamesAre
  <1>10. ASSUME m = None PROVE Bare(log, store, tail', read')
    BY <1>3, <1>7, <1>8, <1>9, <1>10, BlankIs DEF Bare, Calm
  <1>11. ASSUME m # None PROVE Awaits(log, store, tail', read')
    BY <1>4, <1>7, <1>3, <1>11 DEF Awaits, OpenSince
  <1>12. ReadOK(log, host, split, store, tail', read')
    <2>1. t \in 0..Len(log)
      BY <1>3, <1>6
    <2>2. ReadForm(log, host, store, tail', read')
      BY <1>7, <1>10, <1>11 DEF ReadForm
    <2>3. QED
      BY <1>7, <1>8, <1>9, <2>1, <2>2 DEF ReadOK
  <1>13. StoreOK(log, split, store, tail', read')
    BY <1>1, <1>2 DEF ClientOK, StoreOK
  <1>14. ClientOK(log, host, split', store', chat', tail', read') /\ ClientTyped(store', tail', read')
    BY <1>1, <1>2, <1>7, <1>12, <1>13 DEF ClientOK, ClientTyped
  <1>15. QED
    BY <1>1, <1>2, <1>14, ByClientStep

LEMMA LoadKeeps ==
    ASSUME Inv, LoadSnapshot PROVE Inv'
  <1> DEFINE n == Len(log)
             b == LatestSnapshotBoundary
             d == store.cursor
             c == IF b > d THEN b ELSE d
             o == OpenMessageOf(b)
  <1>1. /\ LogOK(log) /\ HostOK(log, host) /\ ClientTyped(store, tail, read) /\ n \in Nat
        /\ faults \in 0..MaxFaults /\ split \subseteq Named /\ log \in Seq(Entries)
        /\ ClientOK(log, host, split, store, chat, tail, read)
    BY InvIs
  <1>2. /\ faults < MaxFaults /\ faults' = faults + 1 /\ chat' = ReduceSnapshot(b)
        /\ store' = [cursor |-> c, open |-> o] /\ tail' = NoTail /\ read' = NoRead /\ split' = {}
        /\ UNCHANGED <<log, host>>
    BY DEF LoadSnapshot
  <1>3. /\ b \in 0..n /\ Rest(log, b)
        /\ \A i \in 1..n : Kind(log, i) = "done" => i <= b
        /\ Kind(log, b) # "prompt" => \A i \in 1..n : Kind(log, i) = "prompt" => i <= b
    BY <1>1, SnapshotBoundaryIs
  <1>4. d \in 0..n /\ Rest(log, d)
    BY <1>1 DEF ClientOK, StoreOK
  <1>5. /\ o.m \in Named \cup {None} /\ o.after \in Nat /\ o = [m |-> o.m, after |-> o.after]
        /\ o.m = None => Settled(log, {}, b)
        /\ o.m # None => OpenSince(log, o.after, b, o.m)
    BY <1>1, <1>3, OpenIs
  <1>6. ReduceSnapshot(b) \in Seq(Kept(b))
    BY <1>1, <1>3, SnapshotIs
  <1> HIDE DEF b, o, d
  <1>7. Kept(b) \subseteq Shown(log, host, {})
    <2>1. SUFFICES ASSUME NEW msg \in Kept(b), Answering(host), NEW x \in 1..n, In(msg, x), NEW g \in 1..x, LateGap(log, g)
                   PROVE  FALSE
      BY DEF Kept, Shown, InOrder, n
    <2>2. x <= b /\ b \in 1..n /\ b \in Nat
      <3>1. msg \in Messages /\ Behind(msg, b)
        BY <2>1 DEF Kept
      <3>2. x \in Nat
        BY <2>1
      <3>3. x <= b
        BY <2>1, <3>1, <3>2, BehindIn
      <3>4. QED
        BY <1>1, <1>3, <3>2, <3>3
    <2>3. Kind(log, b) = "done"
      <3>1. SUFFICES ASSUME Kind(log, b) = "prompt" PROVE FALSE
        BY <1>3, <2>2 DEF Rest
      <3>2. PICK j \in (b + 1)..n : Kind(log, j) \in {"start", "done"}
        BY <1>1, <2>1, <2>2, <3>1 DEF HostOK, Calm, n
      <3>3. j \in 1..n /\ ~(j <= b) /\ n \in j..n
        BY <1>1, <2>2, <3>2
      <3>4. \A k \in j..n : k \in 1..n /\ ~(k <= b)
        BY <1>1, <2>2, <3>3
      <3>5. Kind(log, j) = "start" /\ \A k \in j..n : Kind(log, k) # "done"
        BY <1>3, <3>2, <3>3, <3>4
      <3>6. InTurn(log, n)
        BY <1>1, <3>3, <3>5, OneStart
      <3>7. QED
        BY <1>1, <2>1, <3>6 DEF HostOK, Answering
    <2>4. Kind(log, g) = "gap" /\ Calm(log, g, n)
      BY <2>1 DEF LateGap, n
    <2>5. g # b /\ g \in Nat /\ g <= b
      BY <2>1, <2>2, <2>3, <2>4
    <2>6. b \in (g + 1)..n
      BY <2>2, <2>5
    <2>7. QED
      BY <2>3, <2>4, <2>6 DEF Calm
  <1>8. chat' \in Seq(Shown(log, host, {}))
    BY <1>2, <1>6, <1>7, SeqWider
  <1>9. c \in 0..n /\ c \in Nat /\ b <= c /\ Rest(log, c)
    BY <1>1, <1>3, <1>4
  <1>10. store'.cursor = c /\ store'.open = o
    BY <1>2
  <1>11. ASSUME c # b PROVE Kind(log, c) = "prompt" /\ \A j \in (b + 1)..c : Kind(log, j) # "start" /\ ~StopAt(log, j)
    <2>1. c \in 1..n /\ b < c /\ b \in Nat
      BY <1>1, <1>3, <1>9, <1>11
    <2>2. Kind(log, c) = "prompt"
      BY <1>3, <1>9, <2>1 DEF Rest
    <2>3. ASSUME NEW j \in (b + 1)..c PROVE Kind(log, j) # "start" /\ ~StopAt(log, j)
      <3>1. j \in 1..n /\ ~(j <= b) /\ c \in j..n /\ \A k \in j..c : k \in 1..n /\ ~(k <= b)
        BY <1>1, <1>9, <2>1
      <3>2. \A k \in j..c : Kind(log, k) # "done"
        BY <1>3, <3>1
      <3>3. ~InTurn(log, c)
        BY <1>1, <1>9, RestIs
      <3>4. Kind(log, j) # "start"
        BY <1>1, <3>1, <3>2, <3>3, OneStart
      <3>5. ASSUME StopAt(log, j) PROVE FALSE
        <4>1. j < n /\ Kind(log, j + 1) = "done"
          BY <1>1, <3>1, <3>5, KindIs DEF EntryFollows, StopAt
        <4>2. j + 1 \in 1..n /\ ~(j + 1 <= b)
          BY <1>1, <2>1, <3>1, <4>1
        <4>3. QED
          BY <1>3, <4>1, <4>2
      <3>6. QED
        BY <3>4, <3>5
    <2>4. QED
      BY <2>2, <2>3
  <1> HIDE DEF c, n
  <1>12. o.m = None => Settled(log, {}, c)
    BY <1>5, <1>11 DEF Settled
  <1>13. ASSUME o.m # None PROVE OpenSince(log, o.after, c, o.m)
    <2>1. CASE c = b
      BY <1>5, <1>13, <2>1
    <2>2. CASE c # b
      <3>1. OpenSince(log, o.after, b, o.m)
        BY <1>5, <1>13
      <3>2. o.after \in 0..b /\ o.after \in 0..c /\ b \in Nat
        BY <1>3, <1>9, <3>1 DEF OpenSince
      <3>3. \A j \in (o.after + 1)..c : j \in (o.after + 1)..b \/ j \in (b + 1)..c
        BY <1>9, <3>2
      <3>4. QED
        BY <1>11, <2>2, <3>1, <3>2, <3>3 DEF OpenSince
    <2>3. QED
      BY <2>1, <2>2
  <1>14. StoreOK(log, {}, store', NoTail, NoRead)
    BY <1>9, <1>10, <1>12, <1>13 DEF StoreOK, n
  <1>15. ReadOK(log, host, {}, store', NoTail, NoRead)
    BY NoneIs DEF ReadOK
  <1>16. StoreTyped(store')
    <2> DEFINE m == o.m
               a == o.after
    <2>1. m \in Named \cup {None} /\ a \in Nat /\ o = [m |-> m, after |-> a]
      BY <1>5
    <2> HIDE DEF m, a
    <2>2. store' = [cursor |-> c, open |-> [m |-> m, after |-> a]]
      BY <1>2, <2>1
    <2>3. QED
      BY <1>9, <2>1, <2>2 DEF StoreTyped
  <1>17. ClientOK(log, host, split', store', chat', tail', read') /\ ClientTyped(store', tail', read')
    BY <1>2, <1>8, <1>14, <1>15, <1>16, NoneIs DEF ClientOK, ClientTyped
  <1>18. faults' \in 0..MaxFaults /\ split' \subseteq Named
    BY <1>1, <1>2, OneMoreFault
  <1>19. QED
    BY <1>2, <1>17, <1>18, ByClientStep

LEMMA ChainKeeps ==
    ASSUME Inv, ChainTail PROVE Inv'
  <1> DEFINE at == tail.at
  <1>1. /\ LogOK(log) /\ ClientTyped(store, tail, read) /\ Len(log) \in Nat
        /\ faults \in 0..MaxFaults /\ split \subseteq Named
        /\ ClientOK(log, host, split, store, chat, tail, read)
    BY InvIs
  <1>2. /\ read.by = "resume" /\ tail.ended /\ store.open.m # None /\ tail' = TailFrom(at)
        /\ UNCHANGED <<log, host>> /\ store' = store /\ chat' = chat /\ read' = read
        /\ faults' = faults /\ split' = split
    BY DEF ChainTail, Chains
  <1>3. at \in Nat
    BY <1>1, TailIs DEF ClientTyped
  <1>4. TailTyped(tail') /\ tail'.at = at /\ ~tail'.ended
    BY <1>2, <1>3, TailFromIs
  <1>5. ReadOK(log, host, split, store, tail, read)
    BY <1>1 DEF ClientOK
  <1>6. Builds(log, host, store, tail, read) /\ read.awaiting = None
    BY <1>2, <1>5 DEF ReadOK, ReadForm, Awaits, Bare, Answers
  <1>7. Builds(log, host, store, tail', read)
    BY <1>2, <1>4, <1>6 DEF Builds
  <1>8. ReadOK(log, host, split, store, tail', read)
    BY <1>2, <1>4, <1>5, <1>6, <1>7 DEF ReadOK, ReadForm
  <1>9. StoreOK(log, split, store, tail', read)
    BY <1>1, <1>2 DEF ClientOK, StoreOK
  <1>10. ClientOK(log, host, split', store', chat', tail', read') /\ ClientTyped(store', tail', read')
    BY <1>1, <1>2, <1>4, <1>8, <1>9 DEF ClientOK, ClientTyped
  <1>11. QED
    BY <1>1, <1>2, <1>10, ByClientStep

-----------------------------------------------------------------------------
(* What is read may be shown.                                               *)

LEMMA ReadIsShown ==
    ASSUME LogOK(log), HostOK(log, host), NEW st, NEW tl, NEW rd, ClientTyped(st, tl, rd),
           ReadOK(log, host, split, st, tl, rd), rd.by # "nobody"
    PROVE  rd.msg \in Shown(log, host, split)
  <1> DEFINE at == tl.at
             msg == rd.msg
             n == Len(log)
  <1>1. n \in Nat
    BY LogLen
  <1>2. /\ at \in 0..n /\ Owned(log, split, msg) /\ ReadForm(log, host, st, tl, rd)
        /\ at \in Nat /\ msg \in Messages
    BY <1>1, TailIs, ReadIs DEF ReadOK, ClientTyped
  <1>3. SUFFICES ASSUME Answering(host), msg.m = host.m, NEW x \in 1..n, In(msg, x), NEW g \in 1..x, LateGap(log, g)
                 PROVE  In(msg, g)
    BY <1>2 DEF Shown, InOrder, n
  <1>4. msg.m \in Named /\ msg.m # Unnamed
    BY <1>1, <1>3, NamesAre DEF HostOK, Answering
  <1> HIDE DEF at, msg
  <1>5. ~Awaits(log, st, tl, rd) /\ ~Bare(log, st, tl, rd)
    BY <1>4, BlankIs DEF Awaits, Bare, msg
  <1>6. ASSUME Answers(log, st, tl, rd) PROVE FALSE
    <2>1. StartsAt(log, at, msg.m) /\ Ahead(log, at, msg)
      BY <1>6 DEF Answers, at, msg
    <2>2. PICK s \in (at + 1)..n : Kind(log, s) = "start"
      BY <2>1 DEF StartsAt, n
    <2>3. Calm(log, g, n) /\ g \in Nat /\ x \in Nat
      BY <1>3 DEF LateGap, n
    <2>4. ~(s \in (g + 1)..n)
      BY <2>2, <2>3 DEF Calm
    <2>5. s <= g
      BY <1>1, <1>2, <2>2, <2>3, <2>4
    <2>6. x \in (at + 1)..n /\ s \in (at + 1)..x
      BY <1>1, <1>2, <1>3, <2>2, <2>3, <2>5
    <2>7. Calm(log, at, x)
      BY <1>3, <2>1, <2>6 DEF Ahead, n
    <2>8. QED
      BY <2>2, <2>6, <2>7 DEF Calm
  <1>7. Builds(log, host, st, tl, rd)
    BY <1>2, <1>5, <1>6 DEF ReadForm
  <1>8. x <= at /\ x \in Nat
    BY <1>2, <1>3, <1>7, BehindIn DEF Builds, at, msg
  <1>9. g \in 1..at
    BY <1>2, <1>3, <1>8
  <1>10. QED
    BY <1>3, <1>7, <1>9 DEF Builds, at, msg

LEMMA FlushIs ==
    ASSUME NEW G, NEW r, r.msg \in G, NEW messages \in Seq(G)
    PROVE  /\ Flush(r, messages).chat \in Seq(G)
           /\ FlushReplayed(r, messages).chat \in Seq(G)
           /\ ~r.buffering => Flush(r, messages).r = r
           /\ r.buffering => Flush(r, messages).r = [r EXCEPT !.buffering = FALSE]
  <1>1. Enqueue(messages, Blank, r.msg) \in Seq(G)
    BY EnqueueIs
  <1>2. QED
    BY <1>1 DEF Flush, FlushReplayed

-----------------------------------------------------------------------------
(* A stream ends.                                                           *)

LEMMA OwnerIs == \A i : Owner(i) = OwnerIn(log, i)
  BY DEF Owner, OwnerIn, LastOf, LastIn

LEMMA HalfIs ==
    ASSUME Inv, Reading
    PROVE  /\ HalfClosed \subseteq Named
           /\ StopAt(log, tail.at) /\ tail.at > store.cursor => FollowerIn(log, store.cursor) \in HalfClosed \/ store.cursor = 0
  <1> DEFINE at == tail.at
             c == store.cursor
             n == Len(log)
  <1>1. /\ LogOK(log) /\ ClientTyped(store, tail, read) /\ n \in Nat
        /\ ClientOK(log, host, split, store, chat, tail, read)
    BY InvIs
  <1>2. /\ at \in 0..n /\ at \in Nat /\ c \in 0..n /\ c \in Nat /\ Rest(log, c)
        /\ \A j \in (c + 1)..at : Kind(log, j) # "done"
    BY <1>1, TailIs, StoreIs DEF ClientOK, ReadOK, StoreOK, Reading, ClientTyped
  <1>3. HalfClosed = IF at > 0 /\ log[at] = Entry("finish", "stop") THEN {OwnerIn(log, at)} ELSE {}
    BY OwnerIs DEF HalfClosed
  <1> HIDE DEF at, c, n
  <1>4. ASSUME at > 0, Kind(log, at) = "finish" PROVE InTurn(log, at) /\ OwnerIn(log, at) \in Named
    <2>1. at \in 1..n
      BY <1>1, <1>2, <1>4
    <2>2. InTurn(log, at - 1)
      BY <1>1, <1>4, <2>1, KindIs DEF EntryFollows, n
    <2>3. InTurn(log, at)
      BY <1>2, <1>4, <2>2, TurnStep
    <2>4. PICK s \in 1..at : Kind(log, s) = "start"
      BY <2>3 DEF InTurn
    <2>5. PICK t \in 1..at : Kind(log, t) = "start" /\ Id(log, t) = OwnerIn(log, at)
      BY <1>2, <2>4, OwnerCases
    <2>6. t \in 1..n
      BY <1>1, <1>2, <2>5
    <2>7. QED
      BY <1>1, <2>3, <2>5, <2>6, KindIs DEF n
  <1>5. log[at] = Entry("finish", "stop") => Kind(log, at) = "finish"
    BY DEF Kind, Entry
  <1>6. HalfClosed \subseteq Named
    BY <1>3, <1>4, <1>5
  <1>7. ASSUME StopAt(log, at), at > c, c # 0 PROVE FollowerIn(log, c) \in HalfClosed
    <2>1. at \in 1..n /\ at > 0 /\ at \in c..n /\ c > 0
      BY <1>1, <1>2, <1>7
    <2>2. log[at] = Entry("finish", "stop") /\ Kind(log, at) = "finish"
      BY <1>1, <1>7, <2>1, KindIs DEF StopAt, n
    <2>3. HalfClosed = {OwnerIn(log, at)} /\ InTurn(log, at)
      BY <1>3, <1>4, <2>1, <2>2
    <2>4. ~InTurn(log, c)
      BY <1>1, <1>2, RestIs DEF n
    <2>5. PICK s \in (c + 1)..at : Kind(log, s) = "start" /\ OwnerIn(log, at) = Id(log, s) /\ Calm(log, c, s - 1)
      BY <1>1, <1>2, <2>1, <2>3, <2>4, StartedSince DEF n
    <2>6. Kind(log, c) # "start"
      BY <1>2, <1>7 DEF Rest
    <2>7. s \in c..n /\ \A j \in c..(s - 1) : j = c \/ j \in (c + 1)..(s - 1)
      BY <1>1, <1>2, <2>1, <2>5
    <2>8. \A j \in c..(s - 1) : Kind(log, j) # "start"
      BY <2>5, <2>6, <2>7 DEF Calm
    <2>9. FollowerIn(log, c) = Id(log, s)
      BY <1>1, <1>2, <2>1, <2>5, <2>7, <2>8, FollowerOf DEF n
    <2>10. QED
      BY <2>3, <2>5, <2>9
  <1>8. QED
    BY <1>6, <1>7 DEF at, c

LEMMA EndKeeps ==
    ASSUME Inv, Reading, NEW messages \in Seq(Shown(log, host, split)), EndRead(messages),
           split \subseteq split', split' \subseteq Named, faults' \in 0..MaxFaults,
           Settled(log, split, store.cursor) \/ store.open.m # None \/ Settled(log, split', store.cursor)
    PROVE  Inv'
  <1>1. /\ LogOK(log) /\ ClientTyped(store, tail, read) /\ split \subseteq Named /\ log \in Seq(Entries)
        /\ ClientOK(log, host, split, store, chat, tail, read)
    BY InvIs
  <1>2. /\ chat' \in {messages, OneEntryPerId(messages)} /\ read' = NoRead /\ tail' = NoTail
        /\ UNCHANGED <<log, host>> /\ store' = store
    BY DEF EndRead
  <1>3. /\ Grown(log, log) /\ NoNewAnswer(log, log, host, host)
    BY <1>1 DEF Grown, NoNewAnswer
  <1>4. Shown(log, host, split) \subseteq Shown(log, host, split')
    BY <1>1, <1>3, ShownGrows
  <1>5. chat' \in Seq(Shown(log, host, split'))
    <2>1. messages \in Seq(Shown(log, host, split'))
      BY <1>4, SeqWider
    <2>2. OneEntryPerId(messages) \in Seq(Shown(log, host, split'))
      BY <2>1, OneEntryIs
    <2>3. QED
      BY <1>2, <2>1, <2>2
  <1>6. store.cursor \in 0..Len(log)
    BY <1>1 DEF ClientOK, StoreOK
  <1>7. store.open.m = None => Settled(log, split', store.cursor)
    BY <1>1, <1>3, <1>6, SettledGrows
  <1>8. StoreOK(log, split', store, NoTail, NoRead)
    BY <1>1, <1>7 DEF ClientOK, StoreOK
  <1>9. ReadOK(log, host, split', store, NoTail, NoRead)
    BY NoneIs DEF ReadOK
  <1>10. ClientOK(log, host, split', store', chat', tail', read') /\ ClientTyped(store', tail', read')
    BY <1>1, <1>2, <1>5, <1>8, <1>9, NoneIs DEF ClientOK, ClientTyped
  <1>11. QED
    BY <1>2, <1>10, ByClientStep

LEMMA EndTailKeeps ==
    ASSUME Inv, EndTail PROVE Inv'
  <1>1. /\ LogOK(log) /\ split \subseteq Named /\ faults \in 0..MaxFaults
        /\ ClientOK(log, host, split, store, chat, tail, read)
    BY InvIs
  <1>2. /\ Reading /\ tail.ended /\ EndRead(FlushReplayed(read, chat).chat) /\ faults' = faults /\ split' = split
    BY DEF EndTail
  <1>3. read.msg \in Shown(log, host, split)
    BY <1>2, InvIs, ReadIsShown DEF ClientOK, Reading
  <1>4. FlushReplayed(read, chat).chat \in Seq(Shown(log, host, split))
    BY <1>1, <1>3, FlushIs DEF ClientOK
  <1>5. Kind(log, tail.at) = "done"
    BY <1>1, <1>2 DEF ClientOK, ReadOK, Reading
  <1>6. Settled(log, split, store.cursor) \/ store.open.m # None
    BY <1>1, <1>5 DEF ClientOK, StoreOK, StopAt
  <1>7. QED
    BY <1>1, <1>2, <1>4, <1>6, EndKeeps

LEMMA BreakKeeps ==
    ASSUME Inv, BreaksOff, NEW messages \in Seq(Shown(log, host, split)), EndRead(messages) PROVE Inv'
  <1>1. /\ LogOK(log) /\ split \subseteq Named /\ faults \in 0..MaxFaults
        /\ ClientOK(log, host, split, store, chat, tail, read)
    BY InvIs
  <1>2. /\ Reading /\ faults < MaxFaults /\ faults' = faults + 1 /\ split' = split \cup HalfClosed
    BY DEF BreaksOff
  <1>3. faults' \in 0..MaxFaults
    BY <1>1, <1>2, OneMoreFault
  <1>4. split \subseteq split' /\ split' \subseteq Named
    BY <1>1, <1>2, HalfIs
  <1>5. Settled(log, split, store.cursor) \/ store.open.m # None \/ Settled(log, split', store.cursor)
    BY <1>1, <1>2, HalfIs DEF ClientOK, StoreOK, Settled
  <1>6. QED
    BY <1>2, <1>3, <1>4, <1>5, EndKeeps

LEMMA CutKeeps ==
    ASSUME Inv, CutTail PROVE Inv'
  <1>1. BreaksOff /\ EndRead(FlushReplayed(read, chat).chat) /\ Reading
    BY DEF CutTail, BreaksOff
  <1>2. chat \in Seq(Shown(log, host, split)) /\ read.msg \in Shown(log, host, split)
    BY <1>1, InvIs, ReadIsShown DEF ClientOK, Reading
  <1>3. FlushReplayed(read, chat).chat \in Seq(Shown(log, host, split))
    BY <1>2, FlushIs
  <1>4. QED
    BY <1>1, <1>3, BreakKeeps

LEMMA StopKeeps ==
    ASSUME Inv, StopReading PROVE Inv'
  <1>1. BreaksOff /\ EndRead(chat) /\ chat \in Seq(Shown(log, host, split))
    BY InvIs DEF StopReading, ClientOK
  <1>2. QED
    BY <1>1, BreakKeeps

-----------------------------------------------------------------------------
(* The next frame of the tail.                                              *)

LEMMA NextFrameIs ==
    ASSUME LogOK(log), tail.at \in 0..Len(log), NextFrame # 0
    PROVE  NextAfter(log, tail.at, NextFrame)
  <1> DEFINE Ks == {"start", "text", "gap", "finish", "done"}
             n == FirstIn(log, tail.at + 1, Len(log), Ks)
  <1>1. Len(log) \in Nat /\ tail.at + 1 \in Nat
    BY LogLen
  <1>2. /\ n \in Nat /\ (n = 0 \/ (n \in (tail.at + 1)..Len(log) /\ Kind(log, n) \in Ks))
        /\ \A i \in (tail.at + 1)..Len(log) : Kind(log, i) \in Ks => n <= i
    BY <1>1, FirstInIs
  <1>3. n = NextFrame
    BY DEF NextFrame, FirstOf, FirstIn
  <1> HIDE DEF n
  <1>4. n \in (tail.at + 1)..Len(log) /\ Kind(log, n) # "prompt"
    BY <1>2, <1>3
  <1>5. ASSUME NEW j \in (tail.at + 1)..(n - 1) PROVE Kind(log, j) = "prompt"
    <2>1. j \in 1..Len(log) /\ j \in (tail.at + 1)..Len(log) /\ ~(n <= j)
      BY <1>1, <1>4
    <2>2. Kind(log, j) \notin Ks
      BY <1>2, <2>1
    <2>3. QED
      BY <2>1, <2>2, KindIs
  <1>6. QED
    BY <1>3, <1>4, <1>5 DEF NextAfter

\* The tail stands before entry i.
Before(i) == Inv /\ Reading /\ ~tail.ended /\ NextAfter(log, tail.at, i)

LEMMA BeforeIs ==
    ASSUME NEW i, Before(i)
    PROVE  /\ LogOK(log) /\ ClientTyped(store, tail, read) /\ Len(log) \in Nat /\ split \subseteq Named
           /\ StoreOK(log, split, store, tail, read) /\ ReadOK(log, host, split, store, tail, read)
           /\ ReadForm(log, host, store, tail, read) /\ Owned(log, split, read.msg) /\ read.msg \in Messages
           /\ tail.at \in 0..Len(log) /\ tail.at \in Nat /\ store.cursor \in 0..Len(log) /\ store.cursor \in Nat
           /\ i \in 1..Len(log) /\ i \in Nat /\ tail.at < i /\ log \in Seq(Entries)
           /\ Kind(log, i) \in {"start", "text", "gap", "finish", "done"}
           /\ Rest(log, store.cursor) /\ ~InTurn(log, store.cursor)
           /\ read.by \in {"post", "resume"} /\ store.open.after \in Nat
  <1>1. /\ LogOK(log) /\ ClientTyped(store, tail, read) /\ Len(log) \in Nat /\ split \subseteq Named
        /\ log \in Seq(Entries) /\ ClientOK(log, host, split, store, chat, tail, read)
    BY InvIs DEF Before
  <1>2. /\ StoreOK(log, split, store, tail, read) /\ ReadOK(log, host, split, store, tail, read)
        /\ read.by # "nobody"
    BY <1>1 DEF ClientOK, Before, Reading
  <1>3. /\ tail.at \in Nat /\ store.cursor \in Nat /\ store.open.after \in Nat
        /\ read.by \in {"nobody", "post", "resume"} /\ read.msg \in Messages
    BY <1>1, TailIs, StoreIs, ReadIs DEF ClientTyped
  <1>4. /\ tail.at \in 0..Len(log) /\ ReadForm(log, host, store, tail, read) /\ Owned(log, split, read.msg)
        /\ store.cursor \in 0..Len(log) /\ Rest(log, store.cursor)
    BY <1>2 DEF ReadOK, StoreOK
  <1>5. i \in (tail.at + 1)..Len(log) /\ Kind(log, i) # "prompt"
    BY DEF Before, NextAfter
  <1>6. i \in 1..Len(log) /\ i \in Nat /\ tail.at < i
    BY <1>1, <1>3, <1>5
  <1>7. Kind(log, i) \in {"start", "text", "gap", "finish", "done"}
    BY <1>1, <1>5, <1>6, KindIs
  <1>8. ~InTurn(log, store.cursor)
    BY <1>1, <1>4, RestIs
  <1>9. QED
    BY <1>1, <1>2, <1>3, <1>4, <1>6, <1>7, <1>8

\* What stands between the tail and its next frame.
LEMMA NextIs ==
    ASSUME NEW i, Before(i)
    PROVE  /\ Calm(log, tail.at, i - 1) /\ OwnerIn(log, i - 1) = OwnerIn(log, tail.at)
           /\ InTurn(log, i - 1) <=> InTurn(log, tail.at)
           /\ \A j \in (store.cursor + 1)..(i - 1) : Kind(log, j) # "done"
           /\ \A g \in 1..i : Kind(log, g) = "gap" => g \in 1..tail.at \/ g = i
           /\ tail.at > 0 /\ StopAt(log, tail.at) => Kind(log, i) = "done"
           /\ Kind(log, i) = "done" => tail.at = i - 1
           /\ Kind(log, i) = "start" => ~InTurn(log, tail.at)
           /\ Kind(log, i) \in {"text", "finish", "done"} => InTurn(log, tail.at)
           /\ i > store.cursor /\ Kind(log, i) = "start" => Calm(log, store.cursor, i - 1)
  <1> DEFINE at == tail.at
             c == store.cursor
             n == Len(log)
  <1>1. /\ LogOK(log) /\ n \in Nat /\ at \in 0..n /\ at \in Nat /\ c \in 0..n /\ c \in Nat
        /\ i \in 1..n /\ i \in Nat /\ at < i /\ ReadOK(log, host, split, store, tail, read) /\ read.by # "nobody"
    BY BeforeIs
  <1>2. \A j \in (at + 1)..(i - 1) : Kind(log, j) = "prompt"
    BY DEF Before, NextAfter
  <1>3. \A j \in (c + 1)..at : Kind(log, j) # "done"
    BY <1>1 DEF ReadOK
  <1> HIDE DEF at, c, n
  <1>4. Calm(log, at, i - 1) /\ i - 1 \in Nat /\ at <= i - 1
    BY <1>1, <1>2 DEF Calm
  <1>5. OwnerIn(log, i - 1) = OwnerIn(log, at) /\ (InTurn(log, i - 1) <=> InTurn(log, at))
    BY <1>1, <1>4, CalmStays
  <1>6. ASSUME NEW j \in (c + 1)..(i - 1) PROVE Kind(log, j) # "done"
    <2>1. j \in (c + 1)..at \/ j \in (at + 1)..(i - 1)
      BY <1>1
    <2>2. QED
      BY <1>2, <1>3, <2>1
  <1>7. ASSUME NEW g \in 1..i, Kind(log, g) = "gap" PROVE g \in 1..at \/ g = i
    <2>1. g \in 1..at \/ g \in (at + 1)..(i - 1) \/ g = i
      BY <1>1
    <2>2. QED
      BY <1>2, <1>7, <2>1
  <1>8. EntryFollows(log, i)
    BY <1>1, KindIs DEF n
  <1>9. ASSUME at > 0, StopAt(log, at) PROVE Kind(log, i) = "done"
    <2>1. at \in 1..n
      BY <1>1, <1>9
    <2>2. Kind(log, at + 1) = "done"
      BY <1>1, <1>9, <2>1, KindIs DEF EntryFollows, StopAt, n
    <2>3. ~(at + 1 \in (at + 1)..(i - 1))
      BY <1>2, <2>2
    <2>4. i = at + 1
      BY <1>1, <2>3
    <2>5. QED
      BY <2>2, <2>4
  <1>10. ASSUME Kind(log, i) = "done" PROVE at = i - 1
    <2>1. Kind(log, i - 1) = "finish"
      BY <1>8, <1>10 DEF EntryFollows
    <2>2. ~(i - 1 \in (at + 1)..(i - 1))
      BY <1>2, <2>1
    <2>3. QED
      BY <1>1, <2>2
  <1>11. ASSUME i > c, Kind(log, i) = "start" PROVE Calm(log, c, i - 1)
    <2>1. i \in (c + 1)..n
      BY <1>1, <1>11
    <2>2. QED
      BY <1>1, <1>6, <1>11, <2>1, Between DEF n
  <1>12. QED
    BY <1>4, <1>5, <1>6, <1>7, <1>8, <1>9, <1>10, <1>11 DEF EntryFollows, at, c

\* A stream that is read from the cursor on, before the next turn.
LEMMA CalmIs ==
    ASSUME NEW i, Before(i), tail.at >= store.cursor, Calm(log, store.cursor, tail.at)
    PROVE  /\ Kind(log, i) \in {"start", "gap"} /\ i > store.cursor
           /\ Calm(log, store.cursor, i - 1)
           /\ Kind(log, i) = "gap" => Calm(log, store.cursor, i) /\ ~InTurn(log, i)
           /\ store.open.m = None => Settled(log, split, store.cursor)
           /\ \A x \in (store.cursor + 1)..tail.at : Kind(log, x) \notin {"text"}
  <1> DEFINE at == tail.at
             c == store.cursor
             n == Len(log)
  <1>1. /\ LogOK(log) /\ n \in Nat /\ at \in 0..n /\ at \in Nat /\ c \in 0..n /\ c \in Nat
        /\ i \in 1..n /\ i \in Nat /\ at < i /\ ~InTurn(log, c) /\ StoreOK(log, split, store, tail, read)
        /\ Kind(log, i) \in {"start", "text", "gap", "finish", "done"}
    BY BeforeIs
  <1>2. /\ Calm(log, at, i - 1)
        /\ Kind(log, i) \in {"text", "finish", "done"} => InTurn(log, at)
        /\ InTurn(log, i - 1) <=> InTurn(log, at)
    BY NextIs
  <1>3. c <= at /\ Calm(log, c, at)
    BY <1>1
  <1> HIDE DEF at, c, n
  <1>4. ~InTurn(log, at)
    BY <1>1, <1>3, CalmStays
  <1>5. Kind(log, i) \in {"start", "gap"} /\ i > c
    BY <1>1, <1>2, <1>3, <1>4
  <1>6. \A j \in (c + 1)..(i - 1) : j \in (c + 1)..at \/ j \in (at + 1)..(i - 1)
    BY <1>1, <1>3
  <1>7. Calm(log, c, i - 1)
    BY <1>2, <1>3, <1>6 DEF Calm
  <1>8. ASSUME Kind(log, i) = "gap" PROVE Calm(log, c, i) /\ ~InTurn(log, i)
    <2>1. \A j \in (c + 1)..i : j \in (c + 1)..(i - 1) \/ j = i
      BY <1>1
    <2>2. Calm(log, c, i)
      BY <1>7, <1>8, <2>1 DEF Calm
    <2>3. QED
      BY <1>1, <1>5, <2>2, CalmStays
  <1>9. ASSUME NEW x \in (c + 1)..at, Kind(log, x) \in {"text", "finish"} PROVE FALSE
    <2>1. x \in 1..n /\ x - 1 \in Nat /\ c <= x - 1
      BY <1>1
    <2>2. Calm(log, c, x - 1)
      BY <1>1, <1>3 DEF Calm
    <2>3. ~InTurn(log, x - 1)
      BY <1>1, <2>1, <2>2, CalmStays
    <2>4. QED
      BY <1>1, <1>9, <2>1, <2>3, KindIs DEF EntryFollows, n
  <1>10. ASSUME at > c, StopAt(log, at) PROVE FALSE
    <2>1. at \in (c + 1)..at
      BY <1>1, <1>10
    <2>2. QED
      BY <1>9, <1>10, <2>1 DEF StopAt
  <1>11. store.open.m = None => Settled(log, split, c)
    BY <1>1, <1>10 DEF StoreOK, at, c
  <1>12. QED
    BY <1>5, <1>7, <1>8, <1>9, <1>11 DEF at, c

-----------------------------------------------------------------------------
(* The frame that is skipped, before the message the stream awaits.         *)

Advanced(i) == TailTyped(tail') /\ tail'.at = i /\ (tail'.ended <=> Kind(log, i) = "done")

\* What a step of the reader establishes.
Reads == /\ StoreOK(log, split, store', tail', read') /\ ReadOK(log, host, split, store', tail', read')
         /\ read'.msg \in Messages

LEMMA SkipReads ==
    ASSUME NEW i, Before(i), Advanced(i), store' = store, read.awaiting # None,
           ~(Kind(log, i) = "start" /\ Id(log, i) = read.awaiting),
           read'.by = read.by, read'.awaiting = read.awaiting, read'.current = read.current, read'.msg = read.msg
    PROVE  Reads
  <1> DEFINE at == tail.at
             c == store.cursor
             n == Len(log)
             m == read.awaiting
  <1>1. /\ LogOK(log) /\ n \in Nat /\ at \in 0..n /\ at \in Nat /\ c \in 0..n /\ c \in Nat
        /\ i \in 1..n /\ i \in Nat /\ at < i /\ ReadForm(log, host, store, tail, read)
        /\ StoreOK(log, split, store, tail, read) /\ Owned(log, split, read.msg) /\ read.msg \in Messages
        /\ store.open.after \in Nat
    BY BeforeIs
  <1>2. Awaits(log, store, tail, read)
    BY <1>1 DEF ReadForm
  <1>3. PICK s \in (at + 1)..n : Kind(log, s) = "start" /\ Id(log, s) = m /\ Calm(log, at, s - 1)
    BY <1>2 DEF Awaits, StartsAt
  <1>4. Calm(log, at, i - 1) /\ \A j \in (c + 1)..(i - 1) : Kind(log, j) # "done"
    BY NextIs
  <1> HIDE DEF at, c, n, m
  <1>5. i < s
    <2>1. i # s
      BY <1>3 DEF m
    <2>2. ~(s \in (at + 1)..(i - 1))
      BY <1>3, <1>4 DEF Calm
    <2>3. QED
      BY <1>1, <1>3, <2>1, <2>2
  <1>6. i \in (at + 1)..(s - 1)
    BY <1>1, <1>3, <1>5
  <1>7. Kind(log, i) \notin {"start", "done"}
    BY <1>3, <1>6 DEF Calm
  <1>8. StartsAt(log, i, m)
    <2>1. s \in (i + 1)..n /\ \A j \in (i + 1)..(s - 1) : j \in (at + 1)..(s - 1)
      BY <1>1, <1>3, <1>5
    <2>2. Calm(log, i, s - 1)
      BY <1>3, <2>1 DEF Calm
    <2>3. QED
      BY <1>3, <2>1, <2>2 DEF StartsAt, n
  <1>9. tail'.at = i /\ ~tail'.ended
    BY <1>7 DEF Advanced
  <1>10. tail'.at >= store.open.after
    BY <1>1, <1>2, <1>9 DEF Awaits, at
  <1>11. Awaits(log, store', tail', read')
    BY <1>2, <1>8, <1>9, <1>10 DEF Awaits, m
  <1>12. \A j \in (c + 1)..i : Kind(log, j) # "done"
    <2>1. \A j \in (c + 1)..i : j \in (c + 1)..(i - 1) \/ j = i
      BY <1>1
    <2>2. QED
      BY <1>4, <1>7, <2>1
  <1>13. ReadOK(log, host, split, store', tail', read')
    <2>1. i \in 0..n
      BY <1>1
    <2>2. ReadForm(log, host, store', tail', read')
      BY <1>11 DEF ReadForm
    <2>3. QED
      BY <1>1, <1>9, <1>12, <2>1, <2>2 DEF ReadOK, c, n
  <1>14. store.open.m # None
    BY <1>2 DEF Awaits
  <1>15. StoreOK(log, split, store', tail', read')
    BY <1>1, <1>14 DEF StoreOK
  <1>16. QED
    BY <1>1, <1>13, <1>15 DEF Reads

-----------------------------------------------------------------------------
(* A start, taken or held.                                                  *)

\* The store opens the message of the start: from the cursor, or where it is open.
LEMMA StartOpens ==
    ASSUME NEW i, Before(i), Kind(log, i) = "start", store' = OpenMessage(store, Id(log, i)),
           i > store.cursor \/ (store.open.m = Id(log, i) /\ tail.at >= store.open.after)
    PROVE  /\ StoreTyped(store') /\ store'.cursor = store.cursor /\ store'.open.m = Id(log, i)
           /\ Id(log, i) \in Named /\ Id(log, i) # None
           /\ store'.open.after <= i - 1 /\ StoreOK(log, split, store', tail', read')
  <1> DEFINE at == tail.at
             c == store.cursor
             n == Len(log)
             m == Id(log, i)
             a == store.open.after
  <1>1. /\ LogOK(log) /\ n \in Nat /\ at \in 0..n /\ at \in Nat /\ c \in 0..n /\ c \in Nat
        /\ i \in 1..n /\ i \in Nat /\ at < i /\ StoreOK(log, split, store, tail, read)
        /\ ClientTyped(store, tail, read) /\ Rest(log, c) /\ a \in Nat
    BY BeforeIs
  <1>2. m \in Named /\ m # None
    BY <1>1, KindIs, NamesAre
  <1>3. CASE store.open.m = m
    <2>1. store' = store
      BY <1>3 DEF OpenMessage
    <2>2. OpenSince(log, a, c, m)
      BY <1>1, <1>2, <1>3 DEF StoreOK
    <2>3. a <= c
      BY <1>1, <2>2 DEF OpenSince
    <2>4. a <= i - 1
      BY <1>1, <2>3
    <2>5. StoreOK(log, split, store', tail', read')
      BY <1>1, <1>2, <1>3, <2>1 DEF StoreOK
    <2>6. QED
      BY <1>1, <1>2, <1>3, <2>1, <2>4, <2>5 DEF ClientTyped
  <1>4. CASE store.open.m # m
    <2>1. store' = [store EXCEPT !.open = [m |-> m, after |-> c]]
      BY <1>4 DEF OpenMessage
    <2>2. StoreTyped(store)
      BY <1>1 DEF ClientTyped
    <2> HIDE DEF m, c
    <2>3. StoreTyped(store') /\ store'.cursor = store.cursor /\ store'.open.m = m /\ store'.open.after = c
      BY <1>1, <1>2, <2>1, <2>2 DEF StoreTyped
    <2>4. i > c
      BY <1>4 DEF c, m
    <2>5. Calm(log, c, i - 1)
      BY <2>4, NextIs DEF c
    <2>6. StartsAt(log, c, m)
      <3>1. i \in (c + 1)..n
        BY <1>1, <2>4
      <3>2. QED
        BY <2>5, <3>1 DEF StartsAt, m
    <2>7. c \in 0..c /\ \A j \in (c + 1)..c : FALSE
      BY <1>1
    <2>8. OpenSince(log, c, c, m)
      BY <2>6, <2>7 DEF OpenSince
    <2>9. StoreOK(log, split, store', tail', read')
      BY <1>1, <1>2, <2>3, <2>8 DEF StoreOK, c
    <2>10. c <= i - 1
      BY <1>1, <2>4
    <2>11. QED
      BY <1>2, <2>3, <2>9, <2>10 DEF m, c
  <1>5. QED
    BY <1>3, <1>4

Taken(i) == /\ Advanced(i) /\ read'.by = read.by /\ read'.awaiting = None
            /\ read'.msg = ReadChunk(read.msg, i)
            /\ read'.current = IF Kind(log, i) = "start" THEN Id(log, i) ELSE read.current

\* What is taken of a message starts to build it.
LEMMA StartBuilds ==
    ASSUME NEW i, Before(i), Kind(log, i) = "start", store' = OpenMessage(store, Id(log, i)),
           i > store.cursor \/ (store.open.m = Id(log, i) /\ tail.at >= store.open.after),
           Taken(i), Behind(read.msg, i), Owned(log, split, [m |-> Id(log, i), seen |-> read.msg.seen])
    PROVE  Reads
  <1> DEFINE c == store.cursor
             n == Len(log)
             x == Id(log, i)
             b == [m |-> x, seen |-> read.msg.seen]
  <1>1. /\ LogOK(log) /\ n \in Nat /\ c \in Nat /\ i \in 1..n /\ i \in Nat /\ read.msg \in Messages
        /\ read.by \in {"post", "resume"}
    BY BeforeIs
  <1>2. /\ store'.cursor = c /\ store'.open.m = x /\ x \in Named /\ x # None
        /\ store'.open.after <= i - 1 /\ StoreOK(log, split, store', tail', read') /\ StoreTyped(store')
    BY StartOpens
  <1>3. read'.msg = b /\ b.m = x /\ b.seen = read.msg.seen
    BY <1>1, ReadChunkIs DEF Taken
  <1>4. b \in Messages
    <2>1. read.msg.seen \in Seq(Nat) /\ x \in Names
      BY <1>1, <1>2, MessageIs, NamesAre
    <2>2. QED
      BY <2>1 DEF Messages
  <1>5. tail'.at = i /\ ~tail'.ended /\ read'.by = read.by /\ read'.awaiting = None /\ read'.current = x
    BY DEF Taken, Advanced
  <1> HIDE DEF c, n, x, b
  <1>6. OwnerIn(log, i) = x /\ InTurn(log, i)
    BY <1>1, OwnerStep, TurnStep DEF x
  <1>7. Behind(b, i)
    BY <1>3 DEF Behind
  <1>8. \A g \in 1..i : ~LateGap(log, g)
    <2>1. SUFFICES ASSUME NEW g \in 1..i, LateGap(log, g) PROVE FALSE
      OBVIOUS
    <2>2. Kind(log, g) = "gap" /\ Calm(log, g, n)
      BY <2>1 DEF LateGap, n
    <2>3. g # i
      BY <2>2
    <2>4. i \in (g + 1)..n
      BY <1>1, <2>1, <2>3
    <2>5. QED
      BY <2>2, <2>4 DEF Calm
  <1>9. store'.open.after <= i /\ ~StopAt(log, i) /\ i > 0
    <2>1. store'.open.after \in Nat
      BY <1>2, StoreIs
    <2>2. QED
      BY <1>1, <1>2, <2>1 DEF StopAt
  <1>10. Builds(log, host, store', tail', read')
    <2>1. tail'.at > 0 /\ read'.msg.m \in Named /\ read'.msg.m = OwnerIn(log, tail'.at)
      BY <1>2, <1>3, <1>5, <1>6, <1>9
    <2>2. read'.current = read'.msg.m /\ InTurn(log, tail'.at)
      BY <1>3, <1>5, <1>6
    <2>3. store'.open.m = read'.msg.m /\ tail'.at >= store'.open.after /\ ~StopAt(log, tail'.at) /\ store'.open.m # None
      BY <1>1, <1>2, <1>3, <1>5, <1>9
    <2>4. Behind(read'.msg, tail'.at)
      BY <1>3, <1>5, <1>7
    <2>5. \A g \in 1..tail'.at : ~LateGap(log, g)
      BY <1>5, <1>8
    <2>6. QED
      BY <2>1, <2>2, <2>3, <2>4, <2>5 DEF Builds
  <1>11. \A j \in (c + 1)..i : Kind(log, j) # "done"
    <2>1. \A j \in (c + 1)..i : j \in (c + 1)..(i - 1) \/ j = i
      BY <1>1
    <2>2. QED
      BY <2>1, NextIs DEF c
  <1>12. ReadOK(log, host, split, store', tail', read')
    <2>1. i \in 0..n
      BY <1>1
    <2>2. ReadForm(log, host, store', tail', read')
      BY <1>5, <1>10 DEF ReadForm
    <2>3. Owned(log, split, read'.msg)
      BY <1>3 DEF b, x
    <2>4. QED
      BY <1>2, <1>5, <1>11, <2>1, <2>2, <2>3 DEF ReadOK, n
  <1>13. QED
    BY <1>2, <1>3, <1>4, <1>12 DEF Reads

\* A stream without a name takes the name of the start; what it holds becomes its message's.
LEMMA BareStarts ==
    ASSUME NEW i, Before(i), Kind(log, i) = "start", store' = OpenMessage(store, Id(log, i)),
           Taken(i), Bare(log, store, tail, read)
    PROVE  Reads
  <1> DEFINE at == tail.at
             c == store.cursor
             n == Len(log)
             m == Id(log, i)
             msg == read.msg
             b == [m |-> m, seen |-> msg.seen]
  <1>1. /\ LogOK(log) /\ n \in Nat /\ at \in 0..n /\ at \in Nat /\ c \in 0..n /\ c \in Nat
        /\ i \in 1..n /\ i \in Nat /\ at < i /\ msg \in Messages /\ Owned(log, split, msg) /\ ~InTurn(log, c)
    BY BeforeIs
  <1>2. at >= c /\ Calm(log, c, at) /\ Behind(msg, at) /\ msg.m = Unnamed /\ \A y \in 1..c : ~In(msg, y)
    BY DEF Bare
  <1>3. i > c /\ Calm(log, c, i - 1)
    BY <1>2, CalmIs
  <1>4. b.m = m /\ b.seen = msg.seen
    OBVIOUS
  <1>5. \A j \in 1..Len(msg.seen) : msg.seen[j] \in Nat
    BY <1>1, MessageIs
  <1> HIDE DEF at, c, n, m, msg, b
  <1>6. ASSUME NEW x, In(msg, x) PROVE OwnPart(log, split, m, x)
    <2>1. OwnPart(log, split, Unnamed, x)
      BY <1>1, <1>2, <1>6, InOwned
    <2>2. x \in 1..n /\ Kind(log, x) \in Parts /\ OwnedBy(log, split, Unnamed, x)
      BY <2>1 DEF OwnPart, n
    <2>3. x <= at /\ x \in Nat
      BY <1>1, <1>2, <1>6, <2>2, BehindIn
    <2>4. x > c
      BY <1>1, <1>2, <1>6, <2>2
    <2>5. x \in (c + 1)..at /\ x - 1 \in Nat /\ c <= x - 1
      BY <1>1, <2>3, <2>4
    <2>6. Calm(log, c, x - 1)
      BY <1>1, <1>2, <2>5 DEF Calm
    <2>7. ~InTurn(log, x - 1)
      BY <1>1, <2>5, <2>6, CalmStays
    <2>8. Kind(log, x) = "gap"
      BY <1>1, <2>2, <2>7, KindIs DEF Parts, EntryFollows, n
    <2>9. OwnerIn(log, x) # Unnamed
      BY <1>1, <2>2, <2>8, GapHasOwner DEF n
    <2>10. StrayIn(log, x) \/ FollowerIn(log, x) \in split
      BY <2>2, <2>9 DEF OwnedBy
    <2>11. FollowerIn(log, x) = m
      <3>1. i \in x..n /\ x > 0 /\ \A j \in x..(i - 1) : j \in (c + 1)..(i - 1)
        BY <1>1, <2>3, <2>4, <2>5
      <3>2. \A j \in x..(i - 1) : Kind(log, j) # "start"
        BY <1>3, <3>1 DEF Calm
      <3>3. QED
        BY <1>1, <2>3, <3>1, <3>2, FollowerOf DEF m, n
    <2>12. QED
      BY <2>2, <2>8, <2>10, <2>11 DEF OwnPart, OwnedBy, n
  <1>7. Owned(log, split, b)
    <2>1. \A j \in 1..Len(msg.seen) : OwnPart(log, split, m, msg.seen[j])
      BY <1>6 DEF In
    <2>2. \A j, k \in 1..Len(msg.seen) : j < k => msg.seen[j] < msg.seen[k]
      BY <1>1 DEF Owned
    <2>3. QED
      BY <1>4, <2>1, <2>2 DEF Owned
  <1>8. Behind(msg, i)
    <2>1. at <= i
      BY <1>1
    <2>2. QED
      BY <1>1, <1>2, <2>1, BehindLater
  <1>9. QED
    BY <1>3, <1>7, <1>8, StartBuilds DEF b, m, msg, c

\* The start the stream waits for is the one its message begins or goes on with.
LEMMA StartIsNext ==
    ASSUME NEW i, Before(i), Kind(log, i) = "start", NEW m, StartsAt(log, tail.at, m)
    PROVE  Id(log, i) = m
  <1> DEFINE at == tail.at
             n == Len(log)
  <1>1. n \in Nat /\ at \in Nat /\ i \in 1..n /\ i \in Nat /\ at < i
    BY BeforeIs
  <1>2. PICK s \in (at + 1)..n : Kind(log, s) = "start" /\ Id(log, s) = m /\ Calm(log, at, s - 1)
    BY DEF StartsAt
  <1>3. Calm(log, at, i - 1)
    BY NextIs
  <1> HIDE DEF at, n
  <1>4. ~(s \in (at + 1)..(i - 1)) /\ ~(i \in (at + 1)..(s - 1))
    BY <1>2, <1>3 DEF Calm
  <1>5. i = s
    BY <1>1, <1>2, <1>4
  <1>6. QED
    BY <1>2, <1>5

LEMMA AnswerStarts ==
    ASSUME NEW i, Before(i), Kind(log, i) = "start", store' = OpenMessage(store, Id(log, i)),
           Taken(i), Answers(log, store, tail, read)
    PROVE  Reads
  <1> DEFINE at == tail.at
             c == store.cursor
             n == Len(log)
             msg == read.msg
  <1>1. /\ n \in Nat /\ at \in Nat /\ c \in Nat /\ i \in 1..n /\ i \in Nat /\ at < i
        /\ msg \in Messages /\ Owned(log, split, msg)
    BY BeforeIs
  <1>2. at >= c /\ Calm(log, c, at) /\ StartsAt(log, at, msg.m) /\ Ahead(log, at, msg)
    BY DEF Answers
  <1>3. i > c
    BY <1>1, <1>2
  <1>4. Id(log, i) = msg.m
    BY <1>2, StartIsNext
  <1>5. msg = [m |-> Id(log, i), seen |-> msg.seen]
    BY <1>1, <1>4, MessageIs
  <1> HIDE DEF msg, at, n, c
  <1>6. Behind(msg, i)
    <2>1. SUFFICES ASSUME NEW x \in Nat, In(msg, x) PROVE x <= i
      BY <1>1, BehindIn
    <2>2. x \in 1..n
      BY <1>1, <2>1, InOwned DEF OwnPart, n
    <2>3. CASE x <= at
      BY <1>1, <2>3
    <2>4. CASE x > at
      <3>1. x \in (at + 1)..n
        BY <1>1, <2>2, <2>4
      <3>2. Calm(log, at, x)
        BY <1>2, <2>1, <3>1 DEF Ahead, n
      <3>3. ~(i \in (at + 1)..x)
        BY <3>2 DEF Calm
      <3>4. QED
        BY <1>1, <2>1, <3>3
    <2>5. QED
      BY <1>1, <2>1, <2>3, <2>4
  <1>7. Owned(log, split, [m |-> Id(log, i), seen |-> msg.seen])
    BY <1>1, <1>5
  <1>8. QED
    BY <1>3, <1>6, <1>7, StartBuilds DEF msg, c

LEMMA AwaitedStarts ==
    ASSUME NEW i, Before(i), Kind(log, i) = "start", store' = OpenMessage(store, Id(log, i)),
           Taken(i), Awaits(log, store, tail, read), Id(log, i) = read.awaiting
    PROVE  Reads
  <1> DEFINE m == Id(log, i)
  <1>1. LogOK(log) /\ i \in 1..Len(log)
    BY BeforeIs
  <1>2. m \in Names
    BY <1>1, KindIs, NamesAre
  <1>3. read.msg = Blank /\ store.open.m = m /\ tail.at >= store.open.after
    BY DEF Awaits
  <1>4. read.msg.seen = <<>> /\ Behind(read.msg, i)
    BY <1>3, BlankIs, EmptyIs, NamesAre
  <1> HIDE DEF m
  <1>5. Owned(log, split, [m |-> m, seen |-> read.msg.seen])
    BY <1>2, <1>4, EmptyIs DEF Empty
  <1>6. QED
    BY <1>3, <1>4, <1>5, StartBuilds DEF m

\* The cursor lies before the start of a message that is not open.
LEMMA BuildsStart ==
    ASSUME NEW i, Before(i), Kind(log, i) = "start", Builds(log, host, store, tail, read)
    PROVE  /\ read.by = "resume" /\ read.current = read.msg.m
           /\ store.open.m = read.msg.m /\ tail.at >= store.open.after
           /\ Id(log, i) # read.msg.m => i > store.cursor
  <1> DEFINE at == tail.at
             c == store.cursor
             a == store.open.after
             m == store.open.m
  <1>1. /\ at \in Nat /\ c \in Nat /\ a \in Nat /\ i \in Nat /\ at < i /\ read.by \in {"post", "resume"}
        /\ ~tail.ended /\ StoreOK(log, split, store, tail, read)
    BY BeforeIs DEF Before
  <1>2. ~InTurn(log, at) /\ ~(at > 0 /\ StopAt(log, at))
    BY NextIs
  <1>3. m # None
    BY <1>1, <1>2 DEF Builds
  <1>4. m = read.msg.m /\ at >= a
    BY <1>3 DEF Builds
  <1>5. read.by = "resume" /\ read.current = read.msg.m
    BY <1>1, <1>2 DEF Builds
  <1>6. OpenSince(log, a, c, m)
    BY <1>1, <1>3 DEF StoreOK
  <1> HIDE DEF at, c, a, m
  <1>7. ASSUME i <= c PROVE Id(log, i) = m
    <2>1. i \in (a + 1)..c
      BY <1>1, <1>4, <1>7
    <2>2. QED
      BY <1>6, <2>1 DEF OpenSince
  <1>8. Id(log, i) # m => i > c
    BY <1>1, <1>7
  <1>9. QED
    BY <1>4, <1>5, <1>8 DEF at, c, a, m

LEMMA SameStarts ==
    ASSUME NEW i, Before(i), Kind(log, i) = "start", store' = OpenMessage(store, Id(log, i)),
           Taken(i), Builds(log, host, store, tail, read), Id(log, i) = read.msg.m
    PROVE  Reads
  <1>1. /\ read.msg \in Messages /\ Owned(log, split, read.msg) /\ tail.at \in Nat /\ i \in Nat /\ tail.at <= i
    BY BeforeIs
  <1>2. store.open.m = Id(log, i) /\ tail.at >= store.open.after
    BY BuildsStart
  <1>3. Behind(read.msg, i)
    BY <1>1, BehindLater DEF Builds
  <1>4. [m |-> Id(log, i), seen |-> read.msg.seen] = read.msg
    BY <1>1, MessageIs
  <1>5. QED
    BY <1>1, <1>2, <1>3, <1>4, StartBuilds

\* The start of another message is held: the next stream waits for it.
LEMMA HeldReads ==
    ASSUME NEW i, Before(i), Kind(log, i) = "start", store' = OpenMessage(store, Id(log, i)),
           Builds(log, host, store, tail, read), Id(log, i) # read.msg.m,
           read' = Reader("resume", Id(log, i), 0, Blank),
           TailTyped(tail'), tail'.at = i - 1, ~tail'.ended
    PROVE  Reads /\ ReadTyped(read')
  <1> DEFINE x == Id(log, i)
             c == store.cursor
             n == Len(log)
  <1>1. i > c
    BY BuildsStart
  <1>2. /\ StoreTyped(store') /\ store'.cursor = c /\ store'.open.m = x /\ x \in Named /\ x # None
        /\ store'.open.after <= i - 1 /\ StoreOK(log, split, store', tail', read')
    BY <1>1, StartOpens
  <1>3. i \in 1..n /\ i \in Nat /\ n \in Nat /\ c \in Nat
    BY BeforeIs
  <1> HIDE DEF x, c, n
  <1>4. /\ ReadTyped(read') /\ read'.by = "resume" /\ read'.awaiting = x /\ read'.current = x /\ read'.msg = Blank
    <2>1. 0 \in Nat /\ x \in Named \cup {None} /\ Blank \in Messages /\ read' = Reader("resume", x, 0, Blank)
      BY <1>2, BlankIs DEF x
    <2>2. QED
      BY <2>1, ReaderIs
  <1>5. StartsAt(log, i - 1, x)
    <2>1. i \in ((i - 1) + 1)..n /\ \A j \in ((i - 1) + 1)..(i - 1) : FALSE
      BY <1>3
    <2>2. QED
      BY <2>1 DEF StartsAt, Calm, x, n
  <1>6. i - 1 >= store'.open.after
    <2>1. store'.open.after \in Nat
      BY <1>2, StoreIs
    <2>2. QED
      BY <1>2, <1>3, <2>1
  <1>7. Awaits(log, store', tail', read')
    BY <1>2, <1>4, <1>5, <1>6 DEF Awaits
  <1>8. Owned(log, split, Blank) /\ Blank \in Messages
    BY BlankIs, EmptyIs, NamesAre
  <1>9. ReadOK(log, host, split, store', tail', read')
    <2>1. i - 1 \in 0..n
      BY <1>3
    <2>2. \A j \in (c + 1)..(i - 1) : Kind(log, j) # "done"
      BY NextIs DEF c
    <2>3. ReadForm(log, host, store', tail', read')
      BY <1>2, <1>4, <1>7 DEF ReadForm
    <2>4. QED
      BY <1>2, <1>4, <1>8, <2>1, <2>2, <2>3 DEF ReadOK, n
  <1>10. QED
    BY <1>2, <1>4, <1>8, <1>9 DEF Reads

-----------------------------------------------------------------------------
(* A part.                                                                  *)

\* What a part leaves of the stream.
LEMMA PartTaken ==
    ASSUME NEW i, Before(i), Kind(log, i) \in Parts, store' = store, Taken(i), NEW m, read.msg.m = m,
           OwnPart(log, split, m, i), Behind(read.msg, i - 1) \/ (Kind(log, i) = "gap" /\ In(read.msg, i)),
           store.open.m = None => Settled(log, split, store.cursor),
           \/ Bare(log, store', tail', read') \/ Answers(log, store', tail', read')
           \/ Builds(log, host, store', tail', read')
    PROVE  Reads
  <1> DEFINE c == store.cursor
             n == Len(log)
  <1>1. /\ LogOK(log) /\ n \in Nat /\ c \in Nat /\ i \in 1..n /\ i \in Nat /\ read.msg \in Messages
        /\ Owned(log, split, read.msg) /\ log \in Seq(Entries) /\ StoreOK(log, split, store, tail, read)
    BY BeforeIs
  <1>2. Adds(log, split, read.msg, read'.msg, i)
    BY <1>1, PartAdds DEF Taken
  <1>3. tail'.at = i /\ ~tail'.ended /\ read'.awaiting = None
    BY DEF Taken, Advanced, Parts
  <1>4. \A j \in (c + 1)..i : Kind(log, j) # "done"
    <2>1. \A j \in (c + 1)..i : j \in (c + 1)..(i - 1) \/ j = i
      BY <1>1
    <2>2. QED
      BY <2>1, NextIs DEF Parts
  <1>5. ReadOK(log, host, split, store', tail', read')
    <2>1. i \in 0..n
      BY <1>1
    <2>2. Owned(log, split, read'.msg)
      BY <1>2 DEF Adds
    <2>3. QED
      BY <1>3, <1>4, <2>1, <2>2 DEF ReadOK, ReadForm
  <1>6. StoreOK(log, split, store', tail', read')
    BY <1>1 DEF StoreOK
  <1>7. QED
    BY <1>2, <1>5, <1>6 DEF Reads, Adds

LEMMA PartBuilds ==
    ASSUME NEW i, Before(i), Kind(log, i) \in Parts, store' = store, Taken(i), Builds(log, host, store, tail, read)
    PROVE  Reads
  <1> DEFINE at == tail.at
             n == Len(log)
             msg == read.msg
             b == read'.msg
             a == store.open.after
  <1>1. /\ LogOK(log) /\ n \in Nat /\ at \in Nat /\ i \in 1..n /\ i \in Nat /\ at < i /\ msg \in Messages
        /\ Owned(log, split, msg) /\ log \in Seq(Entries) /\ a \in Nat /\ read.by \in {"post", "resume"}
        /\ ~tail.ended
    BY BeforeIs DEF Before
  <1>2. /\ at > 0 /\ msg.m \in Named /\ msg.m = OwnerIn(log, at) /\ Behind(msg, at)
        /\ read.by = "resume" => read.current = msg.m
        /\ read.by = "post" => InTurn(log, at)
    BY <1>1 DEF Builds
  <1>3. Kind(log, i) # "start" /\ Kind(log, i) # "done" /\ Kind(log, i) # "finish" /\ ~StopAt(log, i)
    BY DEF Parts, StopAt
  <1>4. OwnerIn(log, i) = msg.m /\ (InTurn(log, at) => InTurn(log, i))
    <2>1. OwnerIn(log, i - 1) = OwnerIn(log, at) /\ (InTurn(log, i - 1) <=> InTurn(log, at))
      BY NextIs
    <2>2. QED
      BY <1>1, <1>2, <1>3, <2>1, OwnerStep, TurnStep
  <1>5. store.open.m # None
    BY <1>1, <1>3, NextIs DEF Builds
  <1>6. OwnPart(log, split, msg.m, i)
    BY <1>1, <1>4 DEF OwnPart, OwnedBy
  <1>7. Behind(msg, i - 1) /\ i - 1 \in Nat
    <2>1. i - 1 \in Nat /\ at <= i - 1
      BY <1>1
    <2>2. QED
      BY <1>1, <1>2, <2>1, BehindLater
  <1>8. Adds(log, split, msg, b, i)
    BY <1>1, <1>6, <1>7, PartAdds DEF Taken
  <1>9. /\ tail'.at = i /\ ~tail'.ended /\ read'.awaiting = None /\ read'.by = read.by /\ read'.current = read.current
    BY <1>3 DEF Taken, Advanced
  <1>10. b \in Messages /\ b.m = msg.m /\ \A x : In(b, x) <=> (In(msg, x) \/ x = i)
    BY <1>8 DEF Adds
  <1>11. Behind(b, i)
    <2>1. \A x \in Nat : In(msg, x) => x <= at
      BY <1>1, <1>2, BehindIn
    <2>2. \A x \in Nat : In(b, x) => x <= i
      BY <1>1, <1>10, <2>1
    <2>3. QED
      BY <1>10, <2>2, BehindIn
  <1>12. ASSUME Answering(host), b.m = host.m, NEW g \in 1..i, LateGap(log, g) PROVE In(b, g)
    <2>1. Kind(log, g) = "gap"
      BY <1>12 DEF LateGap
    <2>2. g \in 1..at \/ g = i
      BY <2>1, NextIs
    <2>3. QED
      BY <1>10, <1>12, <2>2 DEF Builds
  <1> HIDE DEF at, n, msg, b, a
  <1>13. i > 0 /\ i >= store.open.after
    BY <1>1, <1>5 DEF Builds, at, a
  <1>14. store.open.m = msg.m
    BY <1>5 DEF Builds, msg
  <1>15. Builds(log, host, store', tail', read')
    BY <1>2, <1>3, <1>4, <1>5, <1>9, <1>10, <1>11, <1>12, <1>13, <1>14 DEF Builds, b
  <1>16. QED
    BY <1>5, <1>6, <1>7, <1>15, PartTaken DEF msg

\* A part that is reported where no stream has a name belongs to no turn.
LEMMA BareGap ==
    ASSUME NEW i, Before(i), Kind(log, i) = "gap", store' = store, Taken(i), Bare(log, store, tail, read)
    PROVE  Reads
  <1> DEFINE at == tail.at
             c == store.cursor
             n == Len(log)
             msg == read.msg
             b == read'.msg
  <1>1. /\ LogOK(log) /\ n \in Nat /\ at \in Nat /\ c \in 0..n /\ c \in Nat /\ i \in 1..n /\ i \in Nat /\ at < i
        /\ msg \in Messages /\ Owned(log, split, msg) /\ log \in Seq(Entries) /\ Rest(log, c)
        /\ split \subseteq Named
    BY BeforeIs
  <1>2. /\ at >= c /\ Calm(log, c, at) /\ Behind(msg, at) /\ msg.m = Unnamed /\ \A x \in 1..c : ~In(msg, x)
        /\ \/ read.by = "resume" /\ read.current = None /\ store.open.m = None
           \/ read.by = "post" /\ \E p \in (c + 1)..n : Kind(log, p) = "prompt" /\ Calm(log, c, p)
    BY DEF Bare
  <1>3. i > c /\ Calm(log, c, i) /\ ~InTurn(log, i)
    BY <1>2, CalmIs
  <1>4. /\ tail'.at = i /\ ~tail'.ended /\ read'.awaiting = None /\ read'.by = read.by /\ read'.current = read.current
    BY DEF Taken, Advanced
  <1>5. store.open.m = None => Settled(log, split, c)
    BY <1>2, CalmIs
  <1> HIDE DEF at, c, n, msg, b
  <1>7. Kind(log, i) \in Parts
    BY DEF Parts
  <1>8. ASSUME NEW p \in 1..n, Kind(log, p) = "prompt", p >= c, Calm(log, c, p) PROVE StrayIn(log, i)
    <2>1. \A j \in (i..p) \cup (p..i) : j = p \/ j \in (c + 1)..i \/ j \in (c + 1)..p
      BY <1>1, <1>3, <1>8
    <2>2. \A j \in (i..p) \cup (p..i) : Kind(log, j) \notin {"start", "done"}
      BY <1>3, <1>8, <2>1 DEF Calm
    <2>3. NearPrompt(log, i)
      BY <1>8, <2>2 DEF NearPrompt, n
    <2>4. QED
      BY <1>1, <1>3, <2>3, StrayNearPrompt DEF n
  <1>9. StrayIn(log, i) \/ FollowerIn(log, i) \in split
    <2>1. CASE read.by = "post"
      <3>1. PICK p \in (c + 1)..n : Kind(log, p) = "prompt" /\ Calm(log, c, p)
        BY <1>2, <2>1
      <3>2. p \in 1..n /\ p >= c
        BY <1>1, <3>1
      <3>3. QED
        BY <1>8, <3>1, <3>2
    <2>2. CASE store.open.m = None
      <3>1. Settled(log, split, c)
        BY <1>5, <2>2
      <3>2. c # 0
        <4>1. PICK j \in 1..(i - 1) : Kind(log, j) = "done"
          BY <1>1, GapHasOwner DEF n
        <4>2. ~(j \in (c + 1)..i)
          BY <1>3, <4>1 DEF Calm
        <4>3. QED
          BY <1>1, <4>1, <4>2
      <3>3. c \in 1..n /\ c \in 1..i /\ c > 0 /\ \A j \in (c + 1)..c : FALSE
        BY <1>1, <1>3, <3>2
      <3>4. CASE Kind(log, c) = "prompt"
        BY <1>1, <1>8, <3>3, <3>4 DEF Calm
      <3>5. CASE Kind(log, c) = "done" /\ StopAt(log, c - 1)
        BY <1>1, <1>3, <3>3, <3>5, StrayAfterStop DEF n
      <3>6. CASE FollowerIn(log, c) \in split
        <4>1. FollowerIn(log, c) # Unnamed
          BY <1>1, <3>6, NamesAre
        <4>2. PICK s \in c..n : Kind(log, s) = "start" /\ Id(log, s) = FollowerIn(log, c)
                                /\ \A j \in c..(s - 1) : Kind(log, j) # "start"
          BY <1>1, <3>3, <4>1, FollowerCases DEF n
        <4>3. s # c /\ ~(s \in (c + 1)..i)
          <5>1. Kind(log, c) # "start"
            BY <3>2, <1>1 DEF Rest
          <5>2. QED
            BY <1>3, <4>2, <5>1 DEF Calm
        <4>4. s \in i..n /\ i > 0 /\ \A j \in i..(s - 1) : j \in c..(s - 1)
          BY <1>1, <1>3, <4>2, <4>3
        <4>5. FollowerIn(log, i) = Id(log, s)
          BY <1>1, <4>2, <4>4, FollowerOf DEF n
        <4>6. QED
          BY <3>6, <4>2, <4>5
      <3>7. QED
        BY <3>1, <3>2, <3>4, <3>5, <3>6 DEF Settled
    <2>3. QED
      BY <1>2, <2>1, <2>2
  <1>10. OwnPart(log, split, Unnamed, i)
    BY <1>1, <1>7, <1>9 DEF OwnPart, OwnedBy, n
  <1>11. Behind(msg, i - 1)
    <2>1. i - 1 \in Nat /\ at <= i - 1
      BY <1>1
    <2>2. QED
      BY <1>1, <1>2, <2>1, BehindLater
  <1>12. Adds(log, split, msg, b, i)
    BY <1>1, <1>2, <1>10, <1>11, PartAdds DEF Taken, msg, b, n
  <1>13. b \in Messages /\ b.m = Unnamed /\ \A x : In(b, x) <=> (In(msg, x) \/ x = i)
    BY <1>2, <1>12 DEF Adds
  <1>14. Behind(b, i)
    <2>1. \A x \in Nat : In(msg, x) => x <= at
      BY <1>1, <1>2, BehindIn
    <2>2. \A x \in Nat : In(b, x) => x <= i
      BY <1>1, <1>13, <2>1
    <2>3. QED
      BY <1>13, <2>2, BehindIn
  <1>15. \A x \in 1..c : ~In(b, x)
    BY <1>1, <1>2, <1>3, <1>13
  <1>16. i >= c
    BY <1>1, <1>3
  <1>17. Bare(log, store', tail', read')
    BY <1>2, <1>4, <1>3, <1>13, <1>14, <1>15, <1>16 DEF Bare, b, c, n
  <1>18. QED
    BY <1>2, <1>5, <1>7, <1>10, <1>11, <1>17, PartTaken DEF msg, c

\* A part that is reported before the answer's turn: the message has it, or takes it.
LEMMA AnswerGap ==
    ASSUME NEW i, Before(i), Kind(log, i) = "gap", store' = store, Taken(i), Answers(log, store, tail, read)
    PROVE  Reads
  <1> DEFINE at == tail.at
             c == store.cursor
             n == Len(log)
             msg == read.msg
             m == read.msg.m
             b == read'.msg
  <1>1. /\ LogOK(log) /\ n \in Nat /\ at \in Nat /\ c \in 0..n /\ c \in Nat /\ i \in 1..n /\ i \in Nat /\ at < i
        /\ msg \in Messages /\ Owned(log, split, msg) /\ log \in Seq(Entries)
    BY BeforeIs
  <1>2. /\ at >= c /\ Calm(log, c, at) /\ m \in Named /\ OwnerIn(log, at) = m /\ StartsAt(log, at, m)
        /\ Ahead(log, at, msg) /\ read.by = "post"
    BY DEF Answers
  <1>3. i > c /\ Calm(log, c, i) /\ ~InTurn(log, i)
    BY <1>2, CalmIs
  <1>4. store.open.m = None => Settled(log, split, c)
    BY <1>2, CalmIs
  <1>5. /\ tail'.at = i /\ ~tail'.ended /\ read'.awaiting = None /\ read'.by = read.by
    BY DEF Taken, Advanced
  <1>6. OwnerIn(log, i - 1) = OwnerIn(log, at) /\ Calm(log, at, i - 1)
    BY NextIs
  <1> HIDE DEF at, c, n, msg, b, m
  <1>7. Kind(log, i) \in Parts
    BY DEF Parts
  <1>8. OwnerIn(log, i) = m
    BY <1>1, <1>2, <1>6, OwnerStep
  <1>9. OwnPart(log, split, m, i)
    BY <1>1, <1>7, <1>8 DEF OwnPart, OwnedBy, n
  <1>10. Behind(msg, i - 1) \/ In(msg, i)
    <2>1. SUFFICES ASSUME ~In(msg, i), NEW x \in Nat, In(msg, x) PROVE x <= i - 1
      BY <1>1, BehindIn
    <2>2. x \in 1..n
      BY <1>1, <2>1, InOwned DEF OwnPart, n
    <2>3. SUFFICES ASSUME x > i - 1 PROVE FALSE
      BY <1>1, <2>1
    <2>4. x \in (at + 1)..n /\ i \in (at + 1)..x
      BY <1>1, <2>1, <2>2, <2>3
    <2>5. QED
      BY <1>2, <2>1, <2>4 DEF Ahead, n
  <1>11. Adds(log, split, msg, b, i)
    BY <1>1, <1>9, <1>10, PartAdds DEF Taken, msg, b, n, m
  <1>12. b.m = m /\ \A x : In(b, x) <=> (In(msg, x) \/ x = i)
    BY <1>11 DEF Adds, m, msg
  <1>13. StartsAt(log, i, m)
    <2>1. PICK s \in (at + 1)..n : Kind(log, s) = "start" /\ Id(log, s) = m /\ Calm(log, at, s - 1)
      BY <1>2 DEF StartsAt, n
    <2>2. s # i /\ ~(s \in (at + 1)..(i - 1))
      BY <1>6, <2>1 DEF Calm
    <2>3. s \in (i + 1)..n /\ \A j \in (i + 1)..(s - 1) : j \in (at + 1)..(s - 1)
      BY <1>1, <2>1, <2>2
    <2>4. Calm(log, i, s - 1)
      BY <2>1, <2>3 DEF Calm
    <2>5. QED
      BY <2>1, <2>3, <2>4 DEF StartsAt, n
  <1>14. Ahead(log, i, b)
    <2>1. SUFFICES ASSUME NEW x \in (i + 1)..n, In(b, x)
                   PROVE  /\ Kind(log, x) = "gap" /\ Calm(log, i, x)
                          /\ \A g \in (i + 1)..x : Kind(log, g) = "gap" => In(b, g)
      BY DEF Ahead, n
    <2>2. In(msg, x) /\ x \in (at + 1)..n /\ \A g \in (i + 1)..x : g \in (at + 1)..x
      BY <1>1, <1>12, <2>1
    <2>3. /\ Kind(log, x) = "gap" /\ Calm(log, at, x)
          /\ \A g \in (at + 1)..x : Kind(log, g) = "gap" => In(msg, g)
      BY <1>2, <2>2 DEF Ahead, n
    <2>4. Calm(log, i, x)
      BY <2>2, <2>3 DEF Calm
    <2>5. QED
      BY <1>12, <2>2, <2>3, <2>4
  <1>15. i >= c
    BY <1>1, <1>3
  <1>16. Answers(log, store', tail', read')
    BY <1>2, <1>3, <1>5, <1>8, <1>12, <1>13, <1>14, <1>15 DEF Answers, b, c
  <1>17. QED
    BY <1>4, <1>7, <1>9, <1>10, <1>16, PartTaken DEF msg, c, m

-----------------------------------------------------------------------------
(* A finish and a done.                                                     *)

LEMMA FinishBuilds ==
    ASSUME NEW i, Before(i), Kind(log, i) = "finish", Taken(i), Builds(log, host, store, tail, read),
           IF Id(log, i) # "other" THEN store' = [store EXCEPT !.open = [m |-> None, after |-> 0]]
           ELSE store' = store
    PROVE  Reads
  <1> DEFINE at == tail.at
             c == store.cursor
             n == Len(log)
             msg == read.msg
             a == store.open.after
             m == store.open.m
  <1>1. /\ LogOK(log) /\ n \in Nat /\ at \in Nat /\ i \in 1..n /\ i \in Nat /\ at < i /\ msg \in Messages
        /\ Owned(log, split, msg) /\ log \in Seq(Entries) /\ a \in Nat /\ read.by \in {"post", "resume"}
        /\ ~tail.ended /\ c \in Nat /\ StoreOK(log, split, store, tail, read) /\ ClientTyped(store, tail, read)
    BY BeforeIs DEF Before
  <1>2. /\ at > 0 /\ msg.m \in Named /\ msg.m = OwnerIn(log, at) /\ Behind(msg, at)
        /\ read.by = "resume" => read.current = msg.m
    BY <1>1 DEF Builds
  <1>3. m # None
    BY <1>1, NextIs DEF Builds
  <1>4. m = msg.m /\ at >= a
    BY <1>3 DEF Builds
  <1>5. OpenSince(log, a, c, m)
    BY <1>1, <1>3 DEF StoreOK
  <1>6. /\ tail'.at = i /\ ~tail'.ended /\ read'.awaiting = None /\ read'.by = read.by /\ read'.current = read.current
    BY DEF Taken, Advanced
  <1>7. read'.msg = msg
    BY <1>1, ReadChunkIs DEF Taken
  <1>8. OwnerIn(log, i) = msg.m /\ InTurn(log, i)
    <2>1. OwnerIn(log, i - 1) = OwnerIn(log, at) /\ InTurn(log, i - 1)
      BY NextIs
    <2>2. QED
      BY <1>1, <1>2, <2>1, OwnerStep, TurnStep
  <1>9. Behind(msg, i)
    BY <1>1, <1>2, BehindLater
  <1>10. ASSUME Answering(host), msg.m = host.m, NEW g \in 1..i, LateGap(log, g) PROVE In(msg, g)
    <2>1. Kind(log, g) = "gap"
      BY <1>10 DEF LateGap
    <2>2. g \in 1..at
      BY <2>1, NextIs
    <2>3. QED
      BY <1>10, <2>2 DEF Builds
  <1>11. \A j \in (c + 1)..i : Kind(log, j) # "done"
    <2>1. \A j \in (c + 1)..i : j \in (c + 1)..(i - 1) \/ j = i
      BY <1>1
    <2>2. QED
      BY <2>1, NextIs
  <1>12. Id(log, i) \in {"stop", "other"}
    BY <1>1, KindIs
  <1> HIDE DEF at, c, n, msg, a, m
  <1>13. i \in 0..n /\ i > 0
    BY <1>1
  <1>14. CASE Id(log, i) = "other"
    <2>1. store' = store /\ ~StopAt(log, i)
      BY <1>14 DEF StopAt
    <2>2. i >= a
      BY <1>1, <1>4
    <2>3. Builds(log, host, store', tail', read')
      BY <1>2, <1>3, <1>4, <1>6, <1>7, <1>8, <1>9, <1>10, <1>13, <2>1, <2>2 DEF Builds, m, a, msg
    <2>4. StoreOK(log, split, store', tail', read')
      BY <1>1, <1>3, <2>1 DEF StoreOK, m
    <2>5. ReadOK(log, host, split, store', tail', read')
      BY <1>1, <1>6, <1>7, <1>11, <1>13, <2>1, <2>3 DEF ReadOK, ReadForm, c, n, msg
    <2>6. QED
      BY <1>1, <1>7, <2>4, <2>5 DEF Reads
  <1>15. CASE Id(log, i) = "stop"
    <2>1. store' = [store EXCEPT !.open = [m |-> None, after |-> 0]] /\ StopAt(log, i)
      BY <1>15 DEF StopAt
    <2>2. StoreTyped(store)
      BY <1>1 DEF ClientTyped
    <2>3. store'.cursor = c /\ store'.open.m = None
      BY <2>1, <2>2 DEF StoreTyped, c
    <2>4. i > c
      <3>1. SUFFICES ASSUME i <= c PROVE FALSE
        BY <1>1
      <3>2. i \in (a + 1)..c
        BY <1>1, <1>4, <3>1
      <3>3. QED
        BY <1>5, <2>1, <3>2 DEF OpenSince
    <2>5. Builds(log, host, store', tail', read')
      BY <1>2, <1>6, <1>7, <1>8, <1>9, <1>10, <1>13, <2>1, <2>3 DEF Builds, msg
    <2>6. read'.by # "nobody"
      BY <1>1, <1>6
    <2>7. StoreOK(log, split, store', tail', read')
      BY <1>1, <1>6, <2>1, <2>3, <2>4, <2>6 DEF StoreOK, c
    <2>8. ReadOK(log, host, split, store', tail', read')
      BY <1>1, <1>6, <1>7, <1>11, <1>13, <2>3, <2>5 DEF ReadOK, ReadForm, n, msg
    <2>9. QED
      BY <1>1, <1>7, <2>7, <2>8 DEF Reads
  <1>16. QED
    BY <1>12, <1>14, <1>15

LEMMA DoneBuilds ==
    ASSUME NEW i, Before(i), Kind(log, i) = "done", Taken(i), Builds(log, host, store, tail, read),
           store' = Advance(store, i)
    PROVE  Reads /\ StoreTyped(store')
  <1> DEFINE at == tail.at
             c == store.cursor
             n == Len(log)
             msg == read.msg
             a == store.open.after
             m == store.open.m
  <1>1. /\ LogOK(log) /\ n \in Nat /\ at \in 0..n /\ at \in Nat /\ i \in 1..n /\ i \in Nat /\ at < i /\ msg \in Messages
        /\ Owned(log, split, msg) /\ log \in Seq(Entries) /\ a \in Nat /\ read.by \in {"post", "resume"}
        /\ ~tail.ended /\ c \in 0..n /\ c \in Nat /\ StoreOK(log, split, store, tail, read)
        /\ ClientTyped(store, tail, read) /\ StoreTyped(store)
    BY BeforeIs DEF Before, ClientTyped
  <1>2. /\ at > 0 /\ msg.m \in Named /\ msg.m = OwnerIn(log, at) /\ Behind(msg, at)
        /\ read.by = "resume" => read.current = msg.m
    BY <1>1 DEF Builds
  <1>3. m # None => m = msg.m /\ at >= a /\ ~StopAt(log, at) /\ OpenSince(log, a, c, m)
    BY <1>1 DEF Builds, StoreOK
  <1>4. m = None => StopAt(log, at)
    BY <1>1 DEF Builds
  <1>5. at = i - 1 /\ OwnerIn(log, i - 1) = OwnerIn(log, at) /\ \A j \in (c + 1)..(i - 1) : Kind(log, j) # "done"
    BY NextIs
  <1>6. /\ tail'.at = i /\ tail'.ended /\ read'.awaiting = None /\ read'.by = read.by /\ read'.current = read.current
    BY DEF Taken, Advanced
  <1>7. read'.msg = msg
    BY <1>1, ReadChunkIs DEF Taken
  <1>8. OwnerIn(log, i) = msg.m /\ ~StopAt(log, i)
    BY <1>1, <1>2, <1>5, OwnerStep DEF StopAt
  <1>9. Behind(msg, i)
    BY <1>1, <1>2, BehindLater
  <1>10. ASSUME Answering(host), msg.m = host.m, NEW g \in 1..i, LateGap(log, g) PROVE In(msg, g)
    <2>1. Kind(log, g) = "gap"
      BY <1>10 DEF LateGap
    <2>2. g \in 1..at
      BY <2>1, NextIs
    <2>3. QED
      BY <1>10, <2>2 DEF Builds
  <1>11. store'.open = store.open /\ store'.cursor = (IF i <= c THEN c ELSE i) /\ StoreTyped(store')
    <2>1. CASE i <= c
      <3>1. store' = store
        BY <2>1 DEF Advance
      <3>2. QED
        BY <1>1, <2>1, <3>1
    <2>2. CASE ~(i <= c)
      <3>1. store' = [store EXCEPT !.cursor = i]
        BY <2>2 DEF Advance
      <3>2. QED
        BY <1>1, <2>2, <3>1 DEF StoreTyped
    <2>3. QED
      BY <2>1, <2>2
  <1> HIDE DEF at, c, n, msg, a, m
  <1>12. store'.open.m = m /\ store'.open.after = a
    BY <1>11 DEF m, a
  <1>13. Builds(log, host, store', tail', read')
    <2>1. i > 0 /\ (m # None => i >= a)
      BY <1>1, <1>3
    <2>2. QED
      BY <1>2, <1>3, <1>6, <1>7, <1>8, <1>9, <1>10, <1>12, <2>1 DEF Builds
  <1>14. ReadOK(log, host, split, store', tail', read')
    <2>1. \A j \in (store'.cursor + 1)..i : FALSE
      BY <1>1, <1>11
    <2>2. i \in 0..n /\ i > 0
      BY <1>1
    <2>3. QED
      BY <1>1, <1>6, <1>7, <1>13, <2>1, <2>2 DEF ReadOK, ReadForm, n
  <1>15. CASE i <= c
    <2>1. store'.cursor = c /\ ~(at > c)
      BY <1>1, <1>11, <1>15
    <2>2. StoreOK(log, split, store', tail', read')
      BY <1>1, <1>12, <2>1 DEF StoreOK, c, at, m, a
    <2>3. QED
      BY <1>1, <1>7, <1>11, <1>14, <2>2 DEF Reads
  <1>16. CASE i > c
    <2>1. store'.cursor = i
      BY <1>1, <1>11, <1>16
    <2>2. m = None => Settled(log, split, i)
      BY <1>4, <1>5 DEF Settled
    <2>3. ASSUME m # None PROVE OpenSince(log, a, i, m)
      <3>1. OpenSince(log, a, c, m) /\ m = msg.m /\ ~StopAt(log, at)
        BY <1>3, <2>3
      <3>2. a \in 0..c /\ a \in 0..i
        BY <1>1, <1>16, <3>1 DEF OpenSince
      <3>3. ASSUME NEW j \in (a + 1)..i PROVE (Kind(log, j) = "start" => Id(log, j) = m) /\ ~StopAt(log, j)
        <4>1. CASE j \in (a + 1)..c
          BY <3>1, <4>1 DEF OpenSince
        <4>2. CASE j = i
          BY <4>2 DEF StopAt
        <4>3. CASE j \in (c + 1)..at
          <5>1. j \in 1..n /\ at \in j..n /\ \A k \in j..at : k \in (c + 1)..(i - 1)
            BY <1>1, <1>5, <4>3
          <5>2. \A k \in j..at : Kind(log, k) # "done"
            BY <1>5, <5>1
          <5>3. Kind(log, j) = "start" => Id(log, j) = m
            BY <1>1, <1>2, <3>1, <5>1, <5>2, OneStart DEF n
          <5>4. ASSUME StopAt(log, j) PROVE FALSE
            <6>1. Kind(log, j + 1) = "done"
              BY <1>1, <5>1, <5>4, KindIs DEF EntryFollows, StopAt, n
            <6>2. j # at
              BY <3>1, <5>4
            <6>3. j + 1 \in j..at
              BY <1>1, <4>3, <6>2
            <6>4. QED
              BY <5>2, <6>1, <6>3
          <5>5. QED
            BY <5>3, <5>4
        <4>4. j \in (a + 1)..c \/ j = i \/ j \in (c + 1)..at
          BY <1>1, <1>5, <3>2, <3>3
        <4>5. QED
          BY <4>1, <4>2, <4>3, <4>4
      <3>4. QED
        BY <3>1, <3>2, <3>3 DEF OpenSince
    <2>4. i \in 0..n /\ Rest(log, i)
      BY <1>1 DEF Rest
    <2>5. StoreOK(log, split, store', tail', read')
      BY <1>12, <2>1, <2>2, <2>3, <2>4 DEF StoreOK, n
    <2>6. QED
      BY <1>1, <1>7, <1>11, <1>14, <2>5 DEF Reads
  <1>17. QED
    BY <1>1, <1>15, <1>16

-----------------------------------------------------------------------------
(* What the reader makes of a frame.                                        *)

LEMMA StartReads ==
    ASSUME NEW i, Before(i), Kind(log, i) = "start", store' = OpenMessage(store, Id(log, i)), Taken(i),
           read.awaiting # None => Id(log, i) = read.awaiting, Builds(log, host, store, tail, read) => Id(log, i) = read.msg.m
    PROVE  Reads /\ StoreTyped(store')
  <1>1. ReadForm(log, host, store, tail, read) /\ tail.at \in Nat /\ store.cursor \in Nat
    BY BeforeIs
  <1>2. CASE Bare(log, store, tail, read)
    <2>1. i > store.cursor
      BY <1>2, CalmIs DEF Bare
    <2>2. QED
      BY <1>2, <2>1, BareStarts, StartOpens
  <1>3. CASE Answers(log, store, tail, read)
    <2>1. i > store.cursor
      BY <1>3, CalmIs DEF Answers
    <2>2. QED
      BY <1>3, <2>1, AnswerStarts, StartOpens
  <1>4. CASE read.awaiting # None /\ Awaits(log, store, tail, read)
    <2>1. store.open.m = Id(log, i) /\ tail.at >= store.open.after
      BY <1>4 DEF Awaits
    <2>2. QED
      BY <1>4, <2>1, AwaitedStarts, StartOpens
  <1>5. CASE Builds(log, host, store, tail, read)
    <2>1. store.open.m = Id(log, i) /\ tail.at >= store.open.after
      BY <1>5, BuildsStart
    <2>2. QED
      BY <1>5, <2>1, SameStarts, StartOpens
  <1>6. QED
    BY <1>1, <1>2, <1>3, <1>4, <1>5 DEF ReadForm

LEMMA OtherReads ==
    ASSUME NEW i, Before(i), Kind(log, i) # "start", store' = RecordFrameCursor(store, i), Taken(i), read.awaiting = None
    PROVE  Reads /\ StoreTyped(store')
  <1>1. /\ ReadForm(log, host, store, tail, read) /\ Kind(log, i) \in {"start", "text", "gap", "finish", "done"}
        /\ StoreTyped(store)
    BY BeforeIs DEF ClientTyped
  <1>2. /\ Bare(log, store, tail, read) => Kind(log, i) = "gap"
        /\ Answers(log, store, tail, read) => Kind(log, i) = "gap"
    BY CalmIs DEF Bare, Answers
  <1>3. Bare(log, store, tail, read) \/ Answers(log, store, tail, read) \/ Builds(log, host, store, tail, read)
    BY <1>1 DEF ReadForm
  <1>4. CASE Kind(log, i) \in Parts
    <2>1. store' = store
      BY <1>4 DEF RecordFrameCursor, Kind, Parts
    <2>2. QED
      BY <1>1, <1>2, <1>3, <1>4, <2>1, BareGap, AnswerGap, PartBuilds
  <1>5. CASE Kind(log, i) = "finish"
    <2>1. /\ Id(log, i) # "other" => store' = [store EXCEPT !.open = [m |-> None, after |-> 0]]
          /\ Id(log, i) = "other" => store' = store
      BY <1>5 DEF RecordFrameCursor, Kind, Id
    <2>2. StoreTyped(store')
      BY <1>1, <2>1 DEF StoreTyped
    <2>3. Builds(log, host, store, tail, read)
      BY <1>2, <1>3, <1>5
    <2>4. QED
      BY <1>5, <2>1, <2>2, <2>3, FinishBuilds
  <1>6. CASE Kind(log, i) = "done"
    <2>1. store' = Advance(store, i)
      BY <1>6 DEF RecordFrameCursor, Kind
    <2>2. Builds(log, host, store, tail, read)
      BY <1>2, <1>3, <1>6
    <2>3. QED
      BY <1>6, <2>1, <2>2, DoneBuilds
  <1>7. QED
    BY <1>1, <1>4, <1>5, <1>6 DEF Parts

-----------------------------------------------------------------------------
(* Deliver.                                                                 *)

Fed(i) == IF i > read.through THEN Flush(read, chat) ELSE [r |-> [read EXCEPT !.reached = i], chat |-> chat]

LEMMA FedIs ==
    ASSUME ReadTyped(read), NEW i \in Nat, NEW G, chat \in Seq(G), read.msg \in G
    PROVE  /\ ReadTyped(Fed(i).r) /\ Fed(i).r.by = read.by /\ Fed(i).r.awaiting = read.awaiting
           /\ Fed(i).r.current = read.current /\ Fed(i).r.msg = read.msg
           /\ Fed(i).chat \in Seq(G)
  <1>1. /\ Flush(read, chat).chat \in Seq(G)
        /\ ~read.buffering => Flush(read, chat).r = read
        /\ read.buffering => Flush(read, chat).r = [read EXCEPT !.buffering = FALSE]
    BY FlushIs
  <1>2. CASE i > read.through /\ read.buffering
    <2>1. Fed(i).r = [read EXCEPT !.buffering = FALSE] /\ Fed(i).chat \in Seq(G)
      BY <1>1, <1>2 DEF Fed
    <2>2. QED
      BY <2>1 DEF ReadTyped
  <1>3. CASE i > read.through /\ ~read.buffering
    <2>1. Fed(i).r = read /\ Fed(i).chat \in Seq(G)
      BY <1>1, <1>3 DEF Fed
    <2>2. QED
      BY <2>1
  <1>4. CASE ~(i > read.through)
    <2>1. Fed(i).r = [read EXCEPT !.reached = i] /\ Fed(i).chat = chat
      BY <1>4 DEF Fed
    <2>2. QED
      BY <2>1 DEF ReadTyped
  <1>5. QED
    BY <1>2, <1>3, <1>4

\* The frame is skipped, held, or taken.
LEMMA DeliverIs ==
    ASSUME Deliver, NEW i, i = NextFrame, NEW r, r = Fed(i).r, NEW ch, ch = Fed(i).chat,
           NEW q, q = [r EXCEPT !.awaiting = None]
    PROVE  /\ Reading /\ ~tail.ended /\ i # 0 /\ UNCHANGED <<log, host, faults, split>>
           /\ \/ r.awaiting # None /\ ~(Kind(log, i) = "start" /\ Id(log, i) = r.awaiting) /\ SkipFrame(r, ch, i)
              \/ /\ r.awaiting # None => Kind(log, i) = "start" /\ Id(log, i) = r.awaiting
                 /\ store' = RecordFrameCursor(store, i)
                 /\ \/ Holds(q, i) /\ HoldTurn(q, ch, i)
                    \/ ~Holds(q, i) /\ AcceptFrame(q, ch, i)
  BY DEF Deliver, Fed, Kind, Id

LEMMA AdvancedIs ==
    ASSUME NEW i, Before(i), tail' = [tail EXCEPT !.at = i, !.ended = log[i].k = "done"]
    PROVE  Advanced(i)
  <1>1. TailTyped(tail) /\ i \in Nat
    BY BeforeIs DEF ClientTyped
  <1> DEFINE e == log[i].k = "done"
  <1>2. e \in BOOLEAN /\ (e <=> Kind(log, i) = "done") /\ tail' = [tail EXCEPT !.at = i, !.ended = e]
    BY DEF Kind
  <1> HIDE DEF e
  <1>3. TailTyped(tail') /\ tail'.at = i /\ tail'.ended = e
    BY <1>1, <1>2 DEF TailTyped
  <1>4. QED
    BY <1>2, <1>3 DEF Advanced

\* What the step leaves, once the store, the tail and the stream are right.
LEMMA Delivered ==
    ASSUME NEW i, Before(i), Reads, StoreTyped(store'), TailTyped(tail'), ReadTyped(read'),
           UNCHANGED <<log, host, faults, split>>,
           read'.msg \in Shown(log, host, split) => chat' \in Seq(Shown(log, host, split)), read'.by # "nobody"
    PROVE  Inv'
  <1>1. LogOK(log) /\ HostOK(log, host) /\ Inv /\ faults \in 0..MaxFaults /\ split \subseteq Named
    BY InvIs DEF Before
  <1>2. ClientTyped(store', tail', read')
    BY DEF ClientTyped
  <1>3. read'.msg \in Shown(log, host, split)
    BY <1>1, <1>2, ReadIsShown DEF Reads
  <1>4. ClientOK(log, host, split', store', chat', tail', read')
    BY <1>3 DEF ClientOK, Reads
  <1>5. QED
    BY <1>1, <1>2, <1>4, ByClientStep

LEMMA SkipKeeps ==
    ASSUME NEW i, Before(i), NEW r, ReadTyped(r), r.by = read.by, r.awaiting = read.awaiting, r.current = read.current,
           r.msg = read.msg, NEW ch \in Seq(Shown(log, host, split)), UNCHANGED <<log, host, faults, split>>,
           r.awaiting # None, ~(Kind(log, i) = "start" /\ Id(log, i) = r.awaiting), SkipFrame(r, ch, i)
    PROVE  Inv'
  <1>1. read' = r /\ chat' = ch /\ store' = store /\ Advanced(i)
    BY AdvancedIs DEF SkipFrame
  <1>2. Reads
    BY <1>1, SkipReads
  <1>3. StoreTyped(store') /\ read.by \in {"post", "resume"}
    BY <1>1, BeforeIs DEF ClientTyped
  <1>4. TailTyped(tail')
    BY <1>1 DEF Advanced
  <1>5. QED
    BY <1>1, <1>2, <1>3, <1>4, Delivered

LEMMA HoldKeeps ==
    ASSUME NEW i, Before(i), NEW r, r.msg \in Shown(log, host, split), r.by = read.by, r.current = read.current,
           NEW ch \in Seq(Shown(log, host, split)), UNCHANGED <<log, host, faults, split>>,
           read.awaiting # None => Id(log, i) = read.awaiting,
           store' = RecordFrameCursor(store, i), Holds(r, i), HoldTurn(r, ch, i)
    PROVE  Inv'
  <1> DEFINE x == Id(log, i)
             G == Shown(log, host, split)
  <1>1. /\ Kind(log, i) = "start" /\ read.by = "resume" /\ read.current # None /\ read.current # x
        /\ read' = Reader("resume", x, 0, Blank) /\ tail' = [tail EXCEPT !.at = i - 1]
        /\ chat' = Opened(OneEntryPerId(FlushReplayed(r, ch).chat), x)
    BY DEF Holds, HoldTurn, Kind, Id
  <1>2. /\ ReadForm(log, host, store, tail, read) /\ TailTyped(tail) /\ i \in 1..Len(log) /\ i \in Nat /\ LogOK(log)
        /\ ~tail.ended
    BY BeforeIs DEF ClientTyped, Before
  <1>3. ~Awaits(log, store, tail, read) \/ read.awaiting = None
    BY <1>1 DEF Awaits
  <1>4. Builds(log, host, store, tail, read)
    BY <1>1, <1>2, <1>3 DEF ReadForm, Bare, Answers
  <1>5. x # read.msg.m
    BY <1>1, <1>4 DEF Builds
  <1>6. store' = OpenMessage(store, x)
    BY <1>1 DEF RecordFrameCursor, Kind, Id
  <1>7. TailTyped(tail') /\ tail'.at = i - 1 /\ ~tail'.ended
    <2>1. i - 1 \in Nat
      BY <1>2
    <2>2. QED
      BY <1>1, <1>2, <2>1 DEF TailTyped
  <1>8. Reads /\ ReadTyped(read')
    BY <1>1, <1>4, <1>5, <1>6, <1>7, HeldReads
  <1>9. StoreTyped(store')
    BY <1>1, <1>4, <1>5, <1>6, BuildsStart, StartOpens
  <1>10. x \in Named /\ x \in Names /\ x # None
    BY <1>1, <1>2, KindIs, NamesAre
  <1>11. chat' \in Seq(G)
    <2>1. Empty(x) \in G
      BY <1>10, EmptyIs
    <2> HIDE DEF x
    <2>2. ch \in Seq(G) /\ r.msg \in G
      OBVIOUS
    <2> HIDE DEF G
    <2>3. FlushReplayed(r, ch).chat \in Seq(G)
      BY <2>2, FlushIs
    <2>4. OneEntryPerId(FlushReplayed(r, ch).chat) \in Seq(G)
      BY <2>3, OneEntryIs
    <2>5. QED
      BY <1>1, <2>1, <2>4, OpenedIs
  <1>12. read'.by # "nobody"
    <2>1. Blank \in Messages /\ 0 \in Nat
      BY BlankIs
    <2> HIDE DEF x
    <2>2. QED
      BY <1>1, <1>10, <2>1, ReaderIs
  <1>13. QED
    BY <1>7, <1>8, <1>9, <1>11, <1>12, Delivered

LEMMA AcceptKeeps ==
    ASSUME NEW i, Before(i), NEW r, ReadTyped(r), r.by = read.by, r.awaiting = None, r.current = read.current,
           r.msg = read.msg, NEW ch \in Seq(Shown(log, host, split)), UNCHANGED <<log, host, faults, split>>,
           read.awaiting # None => Kind(log, i) = "start" /\ Id(log, i) = read.awaiting,
           store' = RecordFrameCursor(store, i), ~Holds(r, i), AcceptFrame(r, ch, i)
    PROVE  Inv'
  <1> DEFINE b == ReadChunk(read.msg, i)
             x == IF Kind(log, i) = "start" THEN Id(log, i) ELSE r.current
             G == Shown(log, host, split)
  <1>1. /\ tail' = [tail EXCEPT !.at = i, !.ended = log[i].k = "done"]
        /\ read' = [r EXCEPT !.current = x, !.msg = b]
        /\ chat' = IF r.buffering THEN ch ELSE Enqueue(ch, r.msg, b)
    BY DEF AcceptFrame, Kind, Id
  <1>2. Advanced(i)
    BY <1>1, AdvancedIs
  <1>3. /\ read'.by = read.by /\ read'.awaiting = None /\ read'.msg = b /\ read'.current = x
    <2> HIDE DEF b, x
    <2>1. QED
      BY <1>1 DEF ReadTyped
  <1>4. Taken(i)
    BY <1>2, <1>3 DEF Taken
  <1>5. Builds(log, host, store, tail, read) /\ Kind(log, i) = "start" => Id(log, i) = read.msg.m
    <2>1. SUFFICES ASSUME Builds(log, host, store, tail, read), Kind(log, i) = "start" PROVE Id(log, i) = read.msg.m
      OBVIOUS
    <2>2. read.by = "resume" /\ read.current = read.msg.m
      BY <2>1, BuildsStart
    <2>3. read.msg.m # None
      BY <2>1, NamesAre DEF Builds
    <2>4. QED
      BY <2>1, <2>2, <2>3 DEF Holds, Kind, Id
  <1>6. Reads /\ StoreTyped(store')
    <2>1. CASE Kind(log, i) = "start"
      <3>1. store' = OpenMessage(store, Id(log, i))
        BY <2>1 DEF RecordFrameCursor, Kind, Id
      <3>2. QED
        BY <1>4, <1>5, <2>1, <3>1, StartReads
    <2>2. CASE Kind(log, i) # "start"
      BY <1>4, <2>2, OtherReads
    <2>3. QED
      BY <2>1, <2>2
  <1>7. LogOK(log) /\ i \in 1..Len(log) /\ read.by \in {"post", "resume"}
    BY BeforeIs
  <1>8. x \in Named \cup {None}
    BY <1>7, KindIs, ReadIs
  <1>9. ReadTyped(read')
    <2>1. b \in Messages
      BY <1>3, <1>6 DEF Reads
    <2> HIDE DEF b, x
    <2>2. QED
      BY <1>1, <1>8, <2>1 DEF ReadTyped
  <1>10. ASSUME read'.msg \in G PROVE chat' \in Seq(G)
    <2>1. b \in G /\ ch \in Seq(G)
      BY <1>3, <1>10
    <2> HIDE DEF b, G
    <2>2. Enqueue(ch, r.msg, b) \in Seq(G)
      BY <2>1, EnqueueIs
    <2>3. QED
      BY <1>1, <2>1, <2>2
  <1>11. TailTyped(tail') /\ read'.by # "nobody"
    BY <1>2, <1>3, <1>7 DEF Advanced
  <1>12. QED
    BY <1>6, <1>9, <1>10, <1>11, Delivered

LEMMA DeliverKeeps ==
    ASSUME Inv, Deliver PROVE Inv'
  <1> DEFINE i == NextFrame
             r == Fed(i).r
             ch == Fed(i).chat
             q == [r EXCEPT !.awaiting = None]
             G == Shown(log, host, split)
  <1>1. /\ Reading /\ ~tail.ended /\ i # 0 /\ UNCHANGED <<log, host, faults, split>>
        /\ \/ r.awaiting # None /\ ~(Kind(log, i) = "start" /\ Id(log, i) = r.awaiting) /\ SkipFrame(r, ch, i)
           \/ /\ r.awaiting # None => Kind(log, i) = "start" /\ Id(log, i) = r.awaiting
              /\ store' = RecordFrameCursor(store, i)
              /\ \/ Holds(q, i) /\ HoldTurn(q, ch, i)
                 \/ ~Holds(q, i) /\ AcceptFrame(q, ch, i)
    BY DeliverIs
  <1>2. /\ LogOK(log) /\ HostOK(log, host) /\ ClientTyped(store, tail, read) /\ chat \in Seq(G)
        /\ ReadOK(log, host, split, store, tail, read)
    BY InvIs DEF ClientOK
  <1>3. read.msg \in G
    BY <1>1, <1>2, ReadIsShown DEF Reading
  <1>4. NextAfter(log, tail.at, i)
    BY <1>1, <1>2, NextFrameIs DEF ReadOK, Reading
  <1>5. Before(i)
    BY <1>1, <1>4 DEF Before
  <1> HIDE DEF i
  <1>6. i \in Nat
    BY <1>5, BeforeIs
  <1>7. ReadTyped(read)
    BY <1>2 DEF ClientTyped
  <1>8. /\ ReadTyped(r) /\ r.by = read.by /\ r.awaiting = read.awaiting /\ r.current = read.current /\ r.msg = read.msg
        /\ ch \in Seq(G)
    BY <1>2, <1>3, <1>6, <1>7, FedIs
  <1> HIDE DEF r, ch
  <1>9. /\ ReadTyped(q) /\ q.by = read.by /\ q.awaiting = None /\ q.current = read.current /\ q.msg = read.msg
    BY <1>8 DEF ReadTyped
  <1> HIDE DEF q
  <1>10. CASE r.awaiting # None /\ ~(Kind(log, i) = "start" /\ Id(log, i) = r.awaiting) /\ SkipFrame(r, ch, i)
    BY <1>1, <1>5, <1>8, <1>10, SkipKeeps
  <1>11. CASE /\ r.awaiting # None => Kind(log, i) = "start" /\ Id(log, i) = r.awaiting
              /\ store' = RecordFrameCursor(store, i) /\ Holds(q, i) /\ HoldTurn(q, ch, i)
    BY <1>1, <1>3, <1>5, <1>8, <1>9, <1>11, HoldKeeps
  <1>12. CASE /\ r.awaiting # None => Kind(log, i) = "start" /\ Id(log, i) = r.awaiting
              /\ store' = RecordFrameCursor(store, i) /\ ~Holds(q, i) /\ AcceptFrame(q, ch, i)
    BY <1>1, <1>5, <1>8, <1>9, <1>12, AcceptKeeps
  <1>13. QED
    BY <1>1, <1>10, <1>11, <1>12

-----------------------------------------------------------------------------
(* The theorems.                                                            *)

LEMMA ElsewhereKeeps ==
    ASSUME Inv, Elsewhere PROVE Inv'
  <1>1. (Prompt \/ ContinueTurn) /\ UNCHANGED client
    BY DEF Elsewhere
  <1>2. Wrote
    BY <1>1, PromptWrites, ContinueWrites
  <1>3. QED
    BY <1>1, <1>2, HostStep

LEMMA StutterKeeps ==
    ASSUME Inv, UNCHANGED vars PROVE Inv'
  <1>1. /\ LogOK(log) /\ HostTyped(host) /\ HostOK(log, host) /\ log \in Seq(Entries)
    BY InvIs
  <1>2. log' = log /\ host' = host /\ UNCHANGED client
    BY DEF vars, client
  <1>3. Wrote
    BY <1>1, <1>2 DEF Wrote, Grown, NoNewAnswer
  <1>4. QED
    BY <1>2, <1>3, HostStep

LEMMA NextKeeps == Inv /\ [Next]_vars => Inv'
  <1>1. SUFFICES ASSUME Inv, [Next]_vars PROVE Inv'
    OBVIOUS
  <1>2. CASE StartTurn
    BY <1>1, <1>2, StartTurnWrites, HostStep DEF StartTurn
  <1>3. CASE WriteText
    BY <1>1, <1>3, WriteTextWrites, HostStep DEF WriteText
  <1>4. CASE Progress
    BY <1>1, <1>4, ProgressWrites, HostStep DEF Progress
  <1>5. CASE TaskCompletes
    BY <1>1, <1>5, TaskCompletesWrites, HostStep DEF TaskCompletes
  <1>6. CASE \E waits \in {"nothing", "task", "answer"} : CloseTurn(waits)
    BY <1>1, <1>6, CloseTurnWrites, HostStep DEF CloseTurn
  <1>7. QED
    BY <1>1, <1>2, <1>3, <1>4, <1>5, <1>6, ElsewhereKeeps, SendMessageKeeps, SendAnswerKeeps, LoadKeeps,
       ReconnectKeeps, DeliverKeeps, ChainKeeps, EndTailKeeps, CutKeeps, StopKeeps, StutterKeeps DEF Next

LEMMA InvOwns == Inv => OwnParts
  <1>1. SUFFICES ASSUME Inv, NEW i \in DOMAIN chat
                 PROVE  LET seen == chat[i].seen
                        IN  /\ \A j \in DOMAIN seen :
                                  \/ Owner(seen[j]) = chat[i].m
                                  \/ /\ log[seen[j]].k = "gap"
                                     /\ Stray(seen[j]) \/ Follower(seen[j]) \in split
                                     /\ chat[i].m \in {Unnamed, Follower(seen[j])}
                            /\ \A j, k \in DOMAIN seen : j < k => seen[j] < seen[k]
    BY DEF OwnParts
  <1> DEFINE msg == chat[i]
             G == Shown(log, host, split)
  <1>2. chat \in Seq(G)
    BY <1>1, InvIs DEF ClientOK
  <1> HIDE DEF G
  <1>3. msg \in G
    BY <1>1, <1>2
  <1>4. msg \in Messages /\ Owned(log, split, msg)
    BY <1>3 DEF G, Shown
  <1>5. DOMAIN msg.seen = 1..Len(msg.seen)
    BY <1>4, MessageIs
  <1>6. ASSUME NEW x PROVE /\ Owner(x) = OwnerIn(log, x) /\ Follower(x) = FollowerIn(log, x)
                           /\ Stray(x) <=> StrayIn(log, x)
    <2>1. Owner(x) = OwnerIn(log, x)
      BY OwnerIs
    <2>2. Follower(x) = FollowerIn(log, x)
      BY DEF Follower, FollowerIn, FirstOf, FirstIn
    <2>3. \A K : LastOf(1, x, K) = LastIn(log, 1, x, K)
      BY DEF LastOf, LastIn
    <2>4. log \in Seq(Entries)
      BY <1>1, InvIs
    <2>5. DOMAIN log = 1..Len(log)
      BY <2>4
    <2>6. Stray(x) <=> StrayIn(log, x)
      BY <2>3, <2>5 DEF Stray, StrayIn, AfterStop, NearPrompt, Kind, Id
    <2>7. QED
      BY <2>1, <2>2, <2>6
  <1> HIDE DEF msg
  <1>7. \A j \in DOMAIN msg.seen : OwnedBy(log, split, msg.m, msg.seen[j])
    BY <1>4, <1>5 DEF Owned, OwnPart
  <1>8. \A j \in DOMAIN msg.seen :
            \/ Owner(msg.seen[j]) = msg.m
            \/ /\ log[msg.seen[j]].k = "gap"
               /\ Stray(msg.seen[j]) \/ Follower(msg.seen[j]) \in split
               /\ msg.m \in {Unnamed, Follower(msg.seen[j])}
    BY <1>6, <1>7 DEF OwnedBy, Kind
  <1>9. \A j, k \in DOMAIN msg.seen : j < k => msg.seen[j] < msg.seen[k]
    BY <1>4, <1>5 DEF Owned
  <1>10. QED
    BY <1>8, <1>9 DEF msg

\* Every state of the log, the host, the client's store, its chat and its streams is
\* typed, whatever is logged, cut, stopped and loaded again.
THEOREM TypeCorrect == Spec => []TypeOK
  <1>1. Init => Inv
    BY InvInit
  <1>2. Inv /\ [Next]_vars => Inv'
    BY NextKeeps
  <1>3. Inv => TypeOK
    BY DEF Inv
  <1>4. QED
    BY <1>1, <1>2, <1>3, PTL DEF Spec

\* A message holds parts of its own turns only, each once and in the log's order:
\* loads, replays, chained tails and held starts carry none into another
\* (RunBuilder, the resume loop and the SDK's write of the last message), but what a
\* task reports where no message is open or the client forgot which.
THEOREM OwnPartsAlways == Spec => []OwnParts
  <1>1. Init => Inv
    BY InvInit
  <1>2. Inv /\ [Next]_vars => Inv'
    BY NextKeeps
  <1>3. Inv => OwnParts
    BY InvOwns
  <1>4. QED
    BY <1>1, <1>2, <1>3, PTL DEF Spec
=============================================================================
