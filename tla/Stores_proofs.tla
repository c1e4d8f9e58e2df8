----------------------------- MODULE Stores_proofs -----------------------------
(***************************************************************************)
(* Proofs about what the database keeps beside the logs: the progress of a *)
(* durable task (TaskProgress), for any emitters, calls open at once,      *)
(* batch sizes and refused writes; the user's memories (Memories), for any *)
(* applications, kinds, keys, contents and budgets; the spend (Quota), for *)
(* any finite number of turns and applications; the notes of a thread      *)
(* (Notebook), for any ceilings and sizes; the tree of threads (Threads),  *)
(* for any threads, messages and requests, and whatever statements of      *)
(* other requests run between those of one.                                *)
(***************************************************************************)
EXTENDS Threads, TaskProgress, Memories, Quota, Notebook,
        FiniteSetTheorems, SequenceTheorems, WellFoundedInduction, TLAPS

-----------------------------------------------------------------------------
(* Sequences of updates *)

Has(s, n) == \E i \in DOMAIN s : s[i] = n

\* No update is in the sequence twice.
Single(s) == \A i, j \in DOMAIN s : s[i] = s[j] => i = j

LEMMA EmptyHas == (\A n : ~Has(<<>>, n)) /\ Single(<<>>)
    BY EmptySeq DEF Has, Single

LEMMA AppendHas ==
    ASSUME NEW s \in Seq(Nat), NEW m \in Nat
    PROVE  /\ \A n : Has(Append(s, m), n) <=> Has(s, n) \/ n = m
           /\ Single(s) /\ ~Has(s, m) => Single(Append(s, m))
    <1> DEFINE a == Append(s, m)
    <1>1. /\ Len(s) \in Nat /\ DOMAIN s = 1 .. Len(s) /\ DOMAIN a = (1 .. Len(s)) \cup {Len(s) + 1}
          /\ a[Len(s) + 1] = m /\ \A i \in 1 .. Len(s) : a[i] = s[i]
        <2>1. /\ a \in Seq(Nat) /\ Len(a) = Len(s) + 1 /\ a[Len(s) + 1] = m
              /\ \A i \in 1 .. Len(s) : a[i] = s[i]
            BY AppendProperties
        <2>2. DOMAIN a = 1 .. Len(s) + 1 /\ Len(s) \in Nat /\ DOMAIN s = 1 .. Len(s)
            BY <2>1, LenProperties
        <2> QED
            BY <2>1, <2>2
    <1> HIDE DEF a
    <1>2. \A n : Has(a, n) <=> Has(s, n) \/ n = m
        BY <1>1 DEF Has
    <1>3. Single(s) /\ ~Has(s, m) => Single(a)
        BY <1>1 DEF Has, Single
    <1> QED
        BY <1>2, <1>3 DEF a

LEMMA ConcatHas ==
    ASSUME NEW s \in Seq(Nat), NEW t \in Seq(Nat)
    PROVE  /\ \A n : Has(s \o t, n) <=> Has(s, n) \/ Has(t, n)
           /\ Single(s) /\ Single(t) /\ (\A n : ~(Has(s, n) /\ Has(t, n))) => Single(s \o t)
    <1> DEFINE a == s \o t
    <1>1. /\ Len(s) \in Nat /\ Len(t) \in Nat /\ DOMAIN s = 1 .. Len(s) /\ DOMAIN t = 1 .. Len(t)
          /\ DOMAIN a = 1 .. Len(s) + Len(t)
          /\ \A i \in 1 .. Len(s) + Len(t) : a[i] = IF i <= Len(s) THEN s[i] ELSE t[i - Len(s)]
        <2>1. /\ a \in Seq(Nat) /\ Len(a) = Len(s) + Len(t)
              /\ \A i \in 1 .. Len(s) + Len(t) : a[i] = IF i <= Len(s) THEN s[i] ELSE t[i - Len(s)]
            BY ConcatProperties
        <2> QED
            BY <2>1, LenProperties
    <1> HIDE DEF a
    <1>2. ASSUME NEW i \in DOMAIN a
          PROVE  \/ i \in DOMAIN s /\ i <= Len(s) /\ a[i] = s[i]
                 \/ i > Len(s) /\ i - Len(s) \in DOMAIN t /\ a[i] = t[i - Len(s)]
        BY <1>1
    <1>3. \A i \in DOMAIN s : i \in DOMAIN a /\ a[i] = s[i]
        BY <1>1
    <1>4. \A i \in DOMAIN t : Len(s) + i \in DOMAIN a /\ a[Len(s) + i] = t[i]
        BY <1>1
    <1>5. ASSUME NEW n PROVE Has(a, n) <=> Has(s, n) \/ Has(t, n)
        <2>1. Has(a, n) => Has(s, n) \/ Has(t, n)
            BY <1>2 DEF Has
        <2>2. Has(s, n) \/ Has(t, n) => Has(a, n)
            BY <1>3, <1>4 DEF Has
        <2> QED
            BY <2>1, <2>2
    <1>6. ASSUME Single(s), Single(t), \A n : ~(Has(s, n) /\ Has(t, n)) PROVE Single(a)
        <2> SUFFICES ASSUME NEW i \in DOMAIN a, NEW j \in DOMAIN a, a[i] = a[j] PROVE i = j
            BY DEF Single
        <2>1. i \in Int /\ j \in Int
            BY <1>1
        <2>2. CASE i <= Len(s) /\ j <= Len(s)
            BY <1>1, <1>2, <1>6, <2>1, <2>2 DEF Single
        <2>3. CASE i > Len(s) /\ j > Len(s)
            <3>1. i - Len(s) = j - Len(s)
                BY <1>1, <1>2, <1>6, <2>1, <2>3 DEF Single
            <3> QED
                BY <1>1, <2>1, <3>1
        <2>4. CASE i <= Len(s) /\ j > Len(s)
            <3>1. Has(s, a[i]) /\ Has(t, a[i])
                BY <1>1, <1>2, <2>1, <2>4 DEF Has
            <3> QED
                BY <1>6, <3>1
        <2>5. CASE i > Len(s) /\ j <= Len(s)
            <3>1. Has(s, a[i]) /\ Has(t, a[i])
                BY <1>1, <1>2, <2>1, <2>5 DEF Has
            <3> QED
                BY <1>6, <3>1
        <2> QED
            BY <1>1, <2>1, <2>2, <2>3, <2>4, <2>5
    <1> QED
        BY <1>5, <1>6 DEF a

-----------------------------------------------------------------------------
(* Types *)

\* An update that a call, a lane or a buffer names was reported.
NamesUpdates ==
    /\ \A e \in Emitters : lane[e].unwritten \in 0 .. Len(updates)
    /\ \A c \in Callers : /\ call[c].step = "commit" => call[c].update \in 0 .. Len(updates)
                          /\ call[c].step = "append" => call[c].update \in 1 .. Len(updates)

TypeInv == ProgressTypeOK /\ NamesUpdates

AppendCall(e, n) == [step |-> "append", by |-> e, update |-> n, pending |-> <<>>]

CommitCall(e, n, held) == [step |-> "commit", by |-> e, update |-> n, pending |-> held]

LEMMA Assumed ==
    /\ Root \in Emitters /\ Runner \in Callers /\ Runner \notin Calls /\ Calls \subseteq Callers
    /\ Points \subseteq Nat /\ MaxUpdates \in Nat /\ MaxFaults \in Nat /\ BatchSize \in Nat
    BY ProgressAssumption DEF Callers

LEMMA CallTypes ==
    ASSUME NEW e \in Emitters
    PROVE  /\ NoCall \in Call
           /\ \A n \in 0 .. MaxUpdates : AppendCall(e, n) \in Call
           /\ \A n \in 0 .. MaxUpdates, held \in Seq(Number) : CommitCall(e, n, held) \in Call
    <1>1. <<>> \in Seq(Number) /\ 0 \in 0 .. MaxUpdates
        BY Assumed, EmptySeq
    <1> QED
        BY <1>1, Assumed DEF NoCall, AppendCall, CommitCall, Call

LEMMA CallFields ==
    /\ NoCall.step = "idle" /\ NoCall.pending = <<>> /\ NoCall.update = 0
    /\ \A e, n : /\ AppendCall(e, n).step = "append" /\ AppendCall(e, n).by = e
                 /\ AppendCall(e, n).update = n /\ AppendCall(e, n).pending = <<>>
    /\ \A e, n, held : /\ CommitCall(e, n, held).step = "commit" /\ CommitCall(e, n, held).by = e
                       /\ CommitCall(e, n, held).update = n /\ CommitCall(e, n, held).pending = held
    BY DEF NoCall, AppendCall, CommitCall

LEMMA Typed ==
    ASSUME TypeInv
    PROVE  /\ Len(updates) \in Nat /\ Len(updates) <= MaxUpdates
           /\ \A n \in 1 .. Len(updates) : updates[n].by \in Emitters /\ updates[n].points \in Points
           /\ \A c \in Callers : /\ call[c] \in Call /\ call[c].by \in Emitters
                                 /\ call[c].pending \in Seq(Number)
                                 /\ call[c].step \in {"idle", "commit", "append"}
           /\ \A e \in Emitters : /\ buffer[e] \in Seq(Number) /\ lane[e].unwritten \in Nat
                                  /\ offered[e] \in Nat
           /\ DOMAIN call = Callers /\ DOMAIN buffer = Emitters /\ DOMAIN lane = Emitters
           /\ DOMAIN offered = Emitters
           /\ rows \in Seq(Number) /\ log \in Seq(Number) /\ faults \in Nat
    <1>1. /\ updates \in Seq([by : Emitters, points : Points]) /\ Len(updates) <= MaxUpdates
          /\ call \in [Callers -> Call] /\ buffer \in [Emitters -> Seq(Number)]
          /\ lane \in [Emitters -> [written : Points \cup {None}, unwritten : 0..MaxUpdates]]
          /\ offered \in [Emitters -> 0..MaxUpdates] /\ MaxUpdates \in Nat
          /\ rows \in Seq(Number) /\ log \in Seq(Number) /\ faults \in 0 .. MaxFaults /\ MaxFaults \in Nat
        BY Assumed DEF TypeInv, ProgressTypeOK
    <1>2. \A n \in 1 .. Len(updates) : updates[n].by \in Emitters /\ updates[n].points \in Points
        <2>1. \A n \in 1 .. Len(updates) : updates[n] \in [by : Emitters, points : Points]
            BY <1>1, ElementOfSeq
        <2> QED
            BY <2>1
    <1>3. \A c \in Callers : /\ call[c] \in Call /\ call[c].by \in Emitters
                             /\ call[c].pending \in Seq(Number)
                             /\ call[c].step \in {"idle", "commit", "append"}
        BY <1>1 DEF Call
    <1>4. \A e \in Emitters : lane[e].unwritten \in Nat /\ offered[e] \in Nat /\ buffer[e] \in Seq(Number)
        BY <1>1
    <1> QED
        BY <1>1, <1>2, <1>3, <1>4, LenProperties

\* What an offer leaves: a lane that knows of the update, or no lane at all.
Offered(e, n) ==
    \/ ~onThread /\ UNCHANGED <<lane, offered>>
    \/ /\ onThread
       /\ lane' = [lane EXCEPT ![e].unwritten = n]
       /\ offered' = [offered EXCEPT ![e] = n]

LEMMA AppendCallIs ==
    ASSUME NEW e, NEW n
    PROVE  [NoCall EXCEPT !.step = "append", !.by = e, !.update = n] = AppendCall(e, n)
    <1> DEFINE All == [step : {"idle", "append"}, by : {Root, e}, update : {0, n}, pending : {<<>>}]
               r == NoCall
               x == [r EXCEPT !.step = "append", !.by = e, !.update = n]
    <1>1. r \in All /\ r.pending = <<>>
        BY DEF NoCall
    <1> HIDE DEF r
    <1>2. x \in All /\ x.step = "append" /\ x.by = e /\ x.update = n /\ x.pending = <<>>
        BY <1>1
    <1> HIDE DEF x
    <1>3. x = AppendCall(e, n)
        BY <1>2 DEF AppendCall
    <1> QED
        BY <1>3 DEF x, r

LEMMA OfferFacts ==
    ASSUME NEW c, NEW e, NEW n, NEW points, Offer(c, e, n, points)
    PROVE  /\ Offered(e, n)
           /\ \E x \in {NoCall, AppendCall(e, n)} : call' = [call EXCEPT ![c] = x]
    BY AppendCallIs DEF Offer, Offered

LEMMA WriteLastFacts ==
    ASSUME NEW c, NEW e, WriteLast(c, e)
    PROVE  /\ UNCHANGED <<lane, offered>>
           /\ \/ call' = [call EXCEPT ![c] = NoCall] /\ (~onThread \/ lane[e].unwritten = 0)
              \/ call' = [call EXCEPT ![c] = AppendCall(e, lane[e].unwritten)] /\ lane[e].unwritten # 0
    <1>1. \A n : [NoCall EXCEPT !.step = "append", !.by = e, !.update = n] = AppendCall(e, n)
        BY AppendCallIs
    <1>2. CASE onThread /\ lane[e].unwritten # 0
        BY <1>1, <1>2 DEF WriteLast
    <1>3. CASE ~(onThread /\ lane[e].unwritten # 0)
        BY <1>3 DEF WriteLast
    <1> QED
        BY <1>2, <1>3

LEMMA CloseFacts ==
    ASSUME NEW c, NEW e, Close(c, e)
    PROVE  /\ UNCHANGED <<lane, offered>>
           /\ \/ /\ buffer' = [buffer EXCEPT ![e] = <<>>]
                 /\ call' = [call EXCEPT ![c] = CommitCall(e, 0, buffer[e])]
              \/ UNCHANGED buffer /\ WriteLast(c, e)
    BY DEF Close, Flush, WriteLast, CommitCall

\* What a call waits for, its own and everyone else's.
LEMMA CallSet ==
    ASSUME TypeInv, NEW c \in Callers, NEW x \in Call,
           call' = [call EXCEPT ![c] = x]
    PROVE  /\ call' \in [Callers -> Call] /\ call'[c] = x
           /\ \A d \in Callers : d # c => call'[d] = call[d]
    BY DEF TypeInv, ProgressTypeOK

\* The calls keep naming updates when a step sets one to a call that does.
LEMMA NamesKept ==
    ASSUME TypeInv, NEW c \in Callers, NEW x \in Call,
           call' = [call EXCEPT ![c] = x], Len(updates') \in Nat, Len(updates) <= Len(updates'),
           x.step = "commit" => x.update \in 0 .. Len(updates'),
           x.step = "append" => x.update \in 1 .. Len(updates'),
           \A e \in Emitters : lane'[e].unwritten \in 0 .. Len(updates')
    PROVE  NamesUpdates'
    <1>1. call'[c] = x /\ \A d \in Callers : d # c => call'[d] = call[d]
        BY CallSet
    <1>2. 0 .. Len(updates) \subseteq 0 .. Len(updates') /\ 1 .. Len(updates) \subseteq 1 .. Len(updates')
        BY Typed
    <1>3. ASSUME NEW d \in Callers
          PROVE  /\ call'[d].step = "commit" => call'[d].update \in 0 .. Len(updates')
                 /\ call'[d].step = "append" => call'[d].update \in 1 .. Len(updates')
        <2>1. CASE d = c
            BY <1>1, <2>1
        <2>2. CASE d # c
            <3>1. call'[d] = call[d]
                BY <1>1, <2>2
            <3> QED
                BY <1>2, <3>1 DEF TypeInv, NamesUpdates
        <2> QED
            BY <2>1, <2>2
    <1> QED
        BY <1>3 DEF NamesUpdates, Callers

LEMMA OfferedTypes ==
    ASSUME TypeInv, NEW e \in Emitters, NEW n \in 1 .. Len(updates'),
           Len(updates') \in Nat, Len(updates) <= Len(updates'), Len(updates') <= MaxUpdates,
           Offered(e, n)
    PROVE  /\ lane' \in [Emitters -> [written : Points \cup {None}, unwritten : 0..MaxUpdates]]
           /\ offered' \in [Emitters -> 0..MaxUpdates]
           /\ \A f \in Emitters : lane'[f].unwritten \in 0 .. Len(updates')
    <1>1. /\ lane \in [Emitters -> [written : Points \cup {None}, unwritten : 0..MaxUpdates]]
          /\ offered \in [Emitters -> 0..MaxUpdates] /\ Len(updates) \in Nat /\ MaxUpdates \in Nat
          /\ \A f \in Emitters : lane[f].unwritten \in 0 .. Len(updates)
        BY Typed, Assumed DEF TypeInv, ProgressTypeOK, NamesUpdates
    <1>2. n \in 0 .. MaxUpdates /\ n \in 0 .. Len(updates')
        BY <1>1
    <1>3. \A f \in Emitters : lane[f].unwritten \in 0 .. Len(updates')
        BY <1>1
    <1>4. CASE ~onThread /\ UNCHANGED <<lane, offered>>
        BY <1>1, <1>3, <1>4
    <1>5. CASE /\ lane' = [lane EXCEPT ![e].unwritten = n]
               /\ offered' = [offered EXCEPT ![e] = n]
        BY <1>1, <1>2, <1>3, <1>5
    <1> QED
        BY <1>4, <1>5 DEF Offered

LEMMA TypeInit == ASSUME ProgressInit PROVE TypeInv
    <1>1. <<>> \in Seq([by : Emitters, points : Points]) /\ <<>> \in Seq(Number) /\ Len(<<>>) = 0
        BY EmptySeq
    <1>2. MaxUpdates \in Nat /\ MaxFaults \in Nat /\ Root \in Emitters /\ NoCall \in Call
        BY Assumed, CallTypes
    <1>3. /\ buffer \in [Emitters -> Seq(Number)] /\ call \in [Callers -> Call]
          /\ lane \in [Emitters -> [written : Points \cup {None}, unwritten : 0..MaxUpdates]]
          /\ offered \in [Emitters -> 0..MaxUpdates]
        BY <1>1, <1>2 DEF ProgressInit
    <1>4. ProgressTypeOK
        BY <1>1, <1>2, <1>3 DEF ProgressInit, ProgressTypeOK
    <1>5. NamesUpdates
        <2>1. \A c \in Callers : call[c].step = "idle"
            BY CallFields DEF ProgressInit
        <2>2. Len(updates) = 0 /\ \A e \in Emitters : lane[e].unwritten = 0
            BY <1>1 DEF ProgressInit
        <2> QED
            BY <2>1, <2>2 DEF NamesUpdates
    <1> QED
        BY <1>4, <1>5 DEF TypeInv

\* What an update does: a new number, in a buffer or under commit.
LEMMA UpdateFacts ==
    ASSUME TypeInv, NEW c \in Callers, NEW e \in Emitters, NEW p \in Points,
           Update(c, e, p)
    PROVE  LET n == Len(updates) + 1 held == Append(buffer[e], n) IN
           /\ n \in Number /\ held \in Seq(Number) /\ call[c].step = "idle" /\ task = "running"
           /\ updates' \in Seq([by : Emitters, points : Points]) /\ Len(updates') = n
           /\ UNCHANGED <<onThread, rows, log, task, faults>>
           /\ \/ /\ buffer' = [buffer EXCEPT ![e] = <<>>]
                 /\ call' = [call EXCEPT ![c] = CommitCall(e, n, held)]
                 /\ UNCHANGED <<lane, offered>>
              \/ /\ buffer' = [buffer EXCEPT ![e] = held]
                 /\ Offered(e, n)
                 /\ \E x \in {NoCall, AppendCall(e, n)} : call' = [call EXCEPT ![c] = x]
    <1> DEFINE n == Len(updates) + 1
               held == Append(buffer[e], n)
    <1>1. /\ call[c].step = "idle" /\ task = "running" /\ n <= MaxUpdates
          /\ updates' = Append(updates, [by |-> e, points |-> p])
          /\ UNCHANGED <<onThread, rows, log, task, faults>>
        BY DEF Update
    <1>2. Len(updates) \in Nat /\ buffer[e] \in Seq(Number) /\ MaxUpdates \in Nat
          /\ updates \in Seq([by : Emitters, points : Points])
        BY Typed, Assumed DEF TypeInv, ProgressTypeOK
    <1>3. n \in Number
        BY <1>1, <1>2 DEF Number
    <1>4. held \in Seq(Number)
        BY <1>2, <1>3, AppendProperties
    <1>5. updates' \in Seq([by : Emitters, points : Points]) /\ Len(updates') = n
        <2>1. [by |-> e, points |-> p] \in [by : Emitters, points : Points]
            OBVIOUS
        <2> QED
            BY <1>1, <1>2, <2>1, AppendProperties
    <1>6. \/ Flush(c, e, n, held) /\ UNCHANGED <<lane, offered>>
          \/ buffer' = [buffer EXCEPT ![e] = held] /\ Offer(c, e, n, p)
        BY DEF Update
    <1> HIDE DEF n, held
    <1>7. \/ /\ buffer' = [buffer EXCEPT ![e] = <<>>]
             /\ call' = [call EXCEPT ![c] = CommitCall(e, n, held)]
             /\ UNCHANGED <<lane, offered>>
          \/ /\ buffer' = [buffer EXCEPT ![e] = held]
             /\ Offered(e, n)
             /\ \E x \in {NoCall, AppendCall(e, n)} : call' = [call EXCEPT ![c] = x]
        <2>1. CASE Flush(c, e, n, held) /\ UNCHANGED <<lane, offered>>
            BY <2>1 DEF Flush, CommitCall
        <2>2. CASE buffer' = [buffer EXCEPT ![e] = held] /\ Offer(c, e, n, p)
            BY <2>2, OfferFacts
        <2> QED
            BY <1>6, <2>1, <2>2
    <1> QED
        BY <1>1, <1>3, <1>4, <1>5, <1>7 DEF n, held

LEMMA UpdateType ==
    ASSUME TypeInv, NEW c \in Callers, NEW e \in Emitters, NEW p \in Points,
           Update(c, e, p)
    PROVE  TypeInv'
    <1> DEFINE n == Len(updates) + 1
               held == Append(buffer[e], n)
    <1>1. /\ n \in Number /\ held \in Seq(Number)
          /\ updates' \in Seq([by : Emitters, points : Points]) /\ Len(updates') = n
          /\ UNCHANGED <<onThread, rows, log, task, faults>>
          /\ \/ /\ buffer' = [buffer EXCEPT ![e] = <<>>]
                /\ call' = [call EXCEPT ![c] = CommitCall(e, n, held)]
                /\ UNCHANGED <<lane, offered>>
             \/ /\ buffer' = [buffer EXCEPT ![e] = held]
                /\ Offered(e, n)
                /\ \E x \in {NoCall, AppendCall(e, n)} : call' = [call EXCEPT ![c] = x]
        BY UpdateFacts
    <1>2. Len(updates) \in Nat /\ MaxUpdates \in Nat
        BY Typed, Assumed
    <1>3. /\ n \in 1 .. Len(updates') /\ Len(updates') \in Nat /\ Len(updates) <= Len(updates')
          /\ Len(updates') <= MaxUpdates /\ n \in 0 .. Len(updates') /\ n \in 0 .. MaxUpdates
        BY <1>1, <1>2 DEF Number
    <1> HIDE DEF n, held
    <1>4. buffer \in [Emitters -> Seq(Number)] /\ <<>> \in Seq(Number)
        BY EmptySeq DEF TypeInv, ProgressTypeOK
    <1>5. CASE /\ buffer' = [buffer EXCEPT ![e] = <<>>]
               /\ call' = [call EXCEPT ![c] = CommitCall(e, n, held)]
               /\ UNCHANGED <<lane, offered>>
        <2>1. CommitCall(e, n, held) \in Call
            BY <1>1, <1>3, CallTypes
        <2>2. call' \in [Callers -> Call]
            BY <1>5, <2>1, CallSet
        <2>3. \A f \in Emitters : lane'[f].unwritten \in 0 .. Len(updates')
            BY <1>2, <1>3, <1>5 DEF TypeInv, NamesUpdates
        <2>4. NamesUpdates'
            <3> DEFINE x == CommitCall(e, n, held)
            <3>1. x.step = "commit" /\ x.update = n
                BY CallFields
            <3>2. x \in Call /\ call' = [call EXCEPT ![c] = x]
                BY <1>5, <2>1
            <3> HIDE DEF x
            <3> QED
                BY <1>3, <2>3, <3>1, <3>2, NamesKept
        <2>5. buffer' \in [Emitters -> Seq(Number)]
            BY <1>4, <1>5
        <2>6. ProgressTypeOK'
            BY <1>1, <1>3, <1>5, <2>2, <2>5 DEF TypeInv, ProgressTypeOK, Callers, Call, Number
        <2> QED
            BY <2>4, <2>6 DEF TypeInv
    <1>6. ASSUME buffer' = [buffer EXCEPT ![e] = held], Offered(e, n),
                 NEW x \in {NoCall, AppendCall(e, n)}, call' = [call EXCEPT ![c] = x]
          PROVE  TypeInv'
        <2>1. x \in Call
            BY <1>3, CallTypes
        <2>2. call' \in [Callers -> Call]
            BY <1>6, <2>1, CallSet
        <2>3. /\ lane' \in [Emitters -> [written : Points \cup {None}, unwritten : 0..MaxUpdates]]
              /\ offered' \in [Emitters -> 0..MaxUpdates]
              /\ \A f \in Emitters : lane'[f].unwritten \in 0 .. Len(updates')
            BY <1>3, <1>6, OfferedTypes
        <2>4. NamesUpdates'
            <3>1. x.step # "commit" /\ (x.step = "append" => x.update = n)
                BY CallFields
            <3> QED
                BY <1>3, <1>6, <2>1, <2>3, <3>1, NamesKept
        <2>5. buffer' \in [Emitters -> Seq(Number)]
            BY <1>1, <1>4, <1>6
        <2>6. ProgressTypeOK'
            BY <1>1, <1>3, <2>2, <2>3, <2>5 DEF TypeInv, ProgressTypeOK, Callers, Call, Number
        <2> QED
            BY <2>4, <2>6 DEF TypeInv
    <1> QED
        BY <1>1, <1>5, <1>6

\* A step that reports nothing new keeps the types when its call and its emitter do.
LEMMA StepType ==
    ASSUME TypeInv, NEW c \in Callers, NEW x \in Call,
           call' = [call EXCEPT ![c] = x],
           x.step = "commit" => x.update \in 0 .. Len(updates),
           x.step = "append" => x.update \in 1 .. Len(updates),
           UNCHANGED <<onThread, updates>>,
           buffer' \in [Emitters -> Seq(Number)], rows' \in Seq(Number), log' \in Seq(Number),
           lane' \in [Emitters -> [written : Points \cup {None}, unwritten : 0..MaxUpdates]],
           \A f \in Emitters : lane'[f].unwritten \in 0 .. Len(updates),
           offered' \in [Emitters -> 0..MaxUpdates],
           task' \in {"running", "closing", "done", "failed"}, faults' \in 0..MaxFaults
    PROVE  TypeInv'
    <1>1. call' \in [Callers -> Call]
        BY CallSet
    <1>2. NamesUpdates'
        <2>1. Len(updates') = Len(updates) /\ Len(updates) \in Nat
            BY Typed
        <2>2. /\ Len(updates') \in Nat /\ Len(updates) <= Len(updates')
              /\ x.step = "commit" => x.update \in 0 .. Len(updates')
              /\ x.step = "append" => x.update \in 1 .. Len(updates')
              /\ \A f \in Emitters : lane'[f].unwritten \in 0 .. Len(updates')
            BY <2>1
        <2> QED
            BY <2>2, NamesKept
    <1>3. ProgressTypeOK'
        BY <1>1 DEF TypeInv, ProgressTypeOK, Callers, Call, Number
    <1> QED
        BY <1>2, <1>3 DEF TypeInv

LEMMA WriteLastCall ==
    ASSUME TypeInv, NEW c \in Callers, NEW e \in Emitters, WriteLast(c, e)
    PROVE  \E x \in Call : /\ call' = [call EXCEPT ![c] = x] /\ x.step # "commit"
                           /\ x.step = "append" => x.update \in 1 .. Len(updates)
    <1>1. lane[e].unwritten \in 0 .. MaxUpdates /\ lane[e].unwritten \in 0 .. Len(updates)
        BY Assumed, Typed DEF TypeInv, NamesUpdates
    <1>2. NoCall \in Call /\ AppendCall(e, lane[e].unwritten) \in Call
        BY <1>1, CallTypes
    <1>3. CASE call' = [call EXCEPT ![c] = NoCall]
        <2>1. NoCall.step # "commit" /\ NoCall.step # "append"
            BY CallFields
        <2> QED
            BY <1>2, <1>3, <2>1
    <1>4. CASE call' = [call EXCEPT ![c] = AppendCall(e, lane[e].unwritten)] /\ lane[e].unwritten # 0
        <2>1. lane[e].unwritten \in 1 .. Len(updates)
            BY <1>1, <1>4
        <2> DEFINE x == AppendCall(e, lane[e].unwritten)
        <2>2. x.step = "append" /\ x.update = lane[e].unwritten
            BY CallFields
        <2>3. x \in Call /\ call' = [call EXCEPT ![c] = x]
            BY <1>2, <1>4
        <2> HIDE DEF x
        <2> QED
            BY <2>1, <2>2, <2>3
    <1> QED
        BY <1>3, <1>4, WriteLastFacts

LEMMA CloseType ==
    ASSUME TypeInv, NEW c \in Callers, NEW e \in Emitters, Close(c, e),
           UNCHANGED <<onThread, updates, rows, log, faults>>,
           task' \in {"running", "closing", "done", "failed"}
    PROVE  TypeInv'
    <1>0. <<>> \in Seq(Number) /\ 0 \in 0 .. MaxUpdates /\ 0 \in 0 .. Len(updates)
        BY Typed, Assumed, EmptySeq
    <1>1. /\ buffer \in [Emitters -> Seq(Number)] /\ rows \in Seq(Number) /\ log \in Seq(Number)
          /\ lane \in [Emitters -> [written : Points \cup {None}, unwritten : 0..MaxUpdates]]
          /\ \A f \in Emitters : lane[f].unwritten \in 0 .. Len(updates)
          /\ offered \in [Emitters -> 0..MaxUpdates] /\ faults \in 0 .. MaxFaults
        BY DEF TypeInv, ProgressTypeOK, NamesUpdates
    <1>2. UNCHANGED <<lane, offered>>
        BY CloseFacts
    <1>3. CASE /\ buffer' = [buffer EXCEPT ![e] = <<>>]
               /\ call' = [call EXCEPT ![c] = CommitCall(e, 0, buffer[e])]
        <2>1. CommitCall(e, 0, buffer[e]) \in Call /\ buffer' \in [Emitters -> Seq(Number)]
            BY <1>0, <1>1, <1>3, CallTypes
        <2> DEFINE x == CommitCall(e, 0, buffer[e])
        <2>2. x.step = "commit" /\ x.update = 0
            BY CallFields
        <2>3. x \in Call /\ call' = [call EXCEPT ![c] = x]
            BY <1>3, <2>1
        <2> HIDE DEF x
        <2> QED
            BY <1>0, <1>1, <1>2, <2>1, <2>2, <2>3, StepType
    <1>4. CASE UNCHANGED buffer /\ WriteLast(c, e)
        <2>1. PICK x \in Call : /\ call' = [call EXCEPT ![c] = x] /\ x.step # "commit"
                                /\ x.step = "append" => x.update \in 1 .. Len(updates)
            BY <1>4, WriteLastCall
        <2> QED
            BY <1>0, <1>1, <1>2, <1>4, <2>1, StepType
    <1> QED
        BY <1>3, <1>4, CloseFacts

LEMMA CommitType ==
    ASSUME TypeInv, NEW c \in Callers, Commit(c) PROVE TypeInv'
    <1> DEFINE e == call[c].by
               n == call[c].update
    <1>1. /\ call[c].step = "commit" /\ rows' = rows \o call[c].pending
          /\ IF n = 0 THEN WriteLast(c, e) ELSE Offer(c, e, n, updates[n].points)
          /\ UNCHANGED <<onThread, updates, buffer, log, task, faults>>
        BY DEF Commit
    <1>2. /\ buffer \in [Emitters -> Seq(Number)] /\ log \in Seq(Number)
          /\ lane \in [Emitters -> [written : Points \cup {None}, unwritten : 0..MaxUpdates]]
          /\ \A f \in Emitters : lane[f].unwritten \in 0 .. Len(updates)
          /\ offered \in [Emitters -> 0..MaxUpdates] /\ faults \in 0 .. MaxFaults
          /\ task \in {"running", "closing", "done", "failed"}
        BY DEF TypeInv, ProgressTypeOK, NamesUpdates
    <1>3. rows' \in Seq(Number)
        BY <1>1, Typed, ConcatProperties
    <1>4. e \in Emitters /\ n \in 0 .. Len(updates) /\ Len(updates) \in Nat /\ Len(updates) <= MaxUpdates
        BY <1>1, Typed DEF TypeInv, NamesUpdates
    <1> HIDE DEF e, n
    <1>5. CASE n = 0
        <2>1. WriteLast(c, e) /\ UNCHANGED <<lane, offered>>
            BY <1>1, <1>5, WriteLastFacts
        <2>2. PICK x \in Call : /\ call' = [call EXCEPT ![c] = x] /\ x.step # "commit"
                                /\ x.step = "append" => x.update \in 1 .. Len(updates)
            BY <1>4, <2>1, WriteLastCall
        <2> QED
            BY <1>1, <1>2, <1>3, <2>1, <2>2, StepType
    <1>6. CASE n # 0
        <2>1. Offer(c, e, n, updates[n].points) /\ n \in 1 .. Len(updates')
            BY <1>1, <1>4, <1>6
        <2>2. Offered(e, n) /\ \E x \in {NoCall, AppendCall(e, n)} : call' = [call EXCEPT ![c] = x]
            BY <2>1, OfferFacts
        <2>3. PICK x \in {NoCall, AppendCall(e, n)} : call' = [call EXCEPT ![c] = x]
            BY <2>2
        <2>4. x \in Call /\ x.step # "commit" /\ (x.step = "append" => x.update \in 1 .. Len(updates))
            <3>1. n \in 0 .. MaxUpdates /\ n \in 1 .. Len(updates)
                BY <1>1, <1>4, <1>6, Assumed
            <3> QED
                BY <1>4, <3>1, CallTypes, CallFields
        <2>5. /\ lane' \in [Emitters -> [written : Points \cup {None}, unwritten : 0..MaxUpdates]]
              /\ offered' \in [Emitters -> 0..MaxUpdates]
              /\ \A f \in Emitters : lane'[f].unwritten \in 0 .. Len(updates')
            BY <1>1, <1>4, <2>1, <2>2, OfferedTypes
        <2> QED
            BY <1>1, <1>2, <1>3, <2>3, <2>4, <2>5, StepType
    <1> QED
        BY <1>5, <1>6

\* What an append leaves of its lane: what was offered meanwhile.
LEMMA AppendFacts ==
    ASSUME TypeInv, NEW c \in Callers, AppendToThread(c)
    PROVE  LET e == call[c].by n == call[c].update IN
           /\ e \in Emitters /\ n \in 1 .. Len(updates) /\ call[c].step = "append"
           /\ log' = Append(log, n) /\ call' = [call EXCEPT ![c] = NoCall]
           /\ lane' \in [Emitters -> [written : Points \cup {None}, unwritten : 0..MaxUpdates]]
           /\ \A f \in Emitters : lane'[f].unwritten =
                 IF f = e /\ lane[e].unwritten = n THEN 0 ELSE lane[f].unwritten
           /\ UNCHANGED <<onThread, updates, buffer, rows, offered, task, faults>>
    <1> DEFINE e == call[c].by
               n == call[c].update
               left == IF lane[e].unwritten = n THEN 0 ELSE lane[e].unwritten
    <1>1. e \in Emitters /\ n \in 1 .. Len(updates) /\ call[c].step = "append"
        BY Typed DEF TypeInv, NamesUpdates, AppendToThread
    <1>2. /\ lane \in [Emitters -> [written : Points \cup {None}, unwritten : 0..MaxUpdates]]
          /\ updates[n].points \in Points /\ MaxUpdates \in Nat
        BY <1>1, Typed, Assumed DEF TypeInv, ProgressTypeOK
    <1>3. /\ log' = Append(log, n) /\ call' = [call EXCEPT ![c] = NoCall]
          /\ lane' = [lane EXCEPT ![e] = [written |-> updates[n].points, unwritten |-> left]]
          /\ UNCHANGED <<onThread, updates, buffer, rows, offered, task, faults>>
        BY <1>1, <1>2 DEF AppendToThread
    <1>4. left \in 0 .. MaxUpdates
        BY <1>1, <1>2
    <1> HIDE DEF e, n, left
    <1>5. /\ lane' \in [Emitters -> [written : Points \cup {None}, unwritten : 0..MaxUpdates]]
          /\ lane'[e].unwritten = left /\ \A f \in Emitters : f # e => lane'[f] = lane[f]
        BY <1>1, <1>2, <1>3, <1>4
    <1>6. \A f \in Emitters : lane'[f].unwritten =
             IF f = e /\ lane[e].unwritten = n THEN 0 ELSE lane[f].unwritten
        BY <1>5 DEF left
    <1> QED
        BY <1>1, <1>3, <1>5, <1>6 DEF e, n

LEMMA AppendType ==
    ASSUME TypeInv, NEW c \in Callers, AppendToThread(c) PROVE TypeInv'
    <1> DEFINE e == call[c].by
               n == call[c].update
    <1>1. /\ e \in Emitters /\ n \in 1 .. Len(updates)
          /\ log' = Append(log, n) /\ call' = [call EXCEPT ![c] = NoCall]
          /\ lane' \in [Emitters -> [written : Points \cup {None}, unwritten : 0..MaxUpdates]]
          /\ \A f \in Emitters : lane'[f].unwritten =
                IF f = e /\ lane[e].unwritten = n THEN 0 ELSE lane[f].unwritten
          /\ UNCHANGED <<onThread, updates, buffer, rows, offered, task, faults>>
        BY AppendFacts
    <1>2. /\ buffer \in [Emitters -> Seq(Number)] /\ rows \in Seq(Number) /\ log \in Seq(Number)
          /\ \A f \in Emitters : lane[f].unwritten \in 0 .. Len(updates)
          /\ offered \in [Emitters -> 0..MaxUpdates] /\ faults \in 0 .. MaxFaults
          /\ task \in {"running", "closing", "done", "failed"}
          /\ Len(updates) \in Nat /\ Len(updates) <= MaxUpdates /\ MaxUpdates \in Nat
        BY Typed, Assumed DEF TypeInv, ProgressTypeOK, NamesUpdates
    <1>3. n \in Number
        BY <1>1, <1>2 DEF Number
    <1> HIDE DEF e, n
    <1>4. log' \in Seq(Number)
        BY <1>1, <1>2, <1>3, AppendProperties
    <1>5. \A f \in Emitters : lane'[f].unwritten \in 0 .. Len(updates)
        <2>1. 0 \in 0 .. Len(updates)
            BY <1>2
        <2> QED
            BY <1>1, <1>2, <2>1
    <1>6. NoCall \in Call /\ NoCall.step = "idle"
        BY <1>1, CallTypes, CallFields
    <1> QED
        BY <1>1, <1>2, <1>4, <1>5, <1>6, StepType

LEMMA RefuseType ==
    ASSUME TypeInv, NEW c \in Callers, Refuse(c) PROVE TypeInv'
    <1>1. /\ buffer \in [Emitters -> Seq(Number)] /\ rows \in Seq(Number) /\ log \in Seq(Number)
          /\ lane \in [Emitters -> [written : Points \cup {None}, unwritten : 0..MaxUpdates]]
          /\ \A f \in Emitters : lane[f].unwritten \in 0 .. Len(updates)
          /\ offered \in [Emitters -> 0..MaxUpdates] /\ faults \in 0 .. MaxFaults
          /\ task \in {"running", "closing", "done", "failed"} /\ MaxFaults \in Nat
        BY Assumed DEF TypeInv, ProgressTypeOK, NamesUpdates
    <1>2. /\ call' = [call EXCEPT ![c] = NoCall] /\ faults' = faults + 1 /\ faults < MaxFaults
          /\ task' \in {"running", "closing", "done", "failed"}
          /\ UNCHANGED <<onThread, updates, buffer, rows, log, lane, offered>>
        BY <1>1 DEF Refuse
    <1>3. NoCall \in Call /\ NoCall.step = "idle" /\ faults' \in 0 .. MaxFaults
        BY <1>1, <1>2, CallTypes, CallFields, Assumed
    <1> QED
        BY <1>1, <1>2, <1>3, StepType

LEMMA TypeNext == ASSUME TypeInv, [ProgressNext]_progressVars PROVE TypeInv'
    <1>0. Calls \subseteq Callers /\ Runner \in Callers /\ Root \in Emitters
        BY Assumed
    <1>1. ASSUME NEW c \in Calls, NEW e \in Emitters, NEW p \in Points, Update(c, e, p) PROVE TypeInv'
        BY <1>0, <1>1, UpdateType
    <1>2. ASSUME NEW c \in Calls, NEW e \in Emitters, CloseChild(c, e) PROVE TypeInv'
        <2>1. task' \in {"running", "closing", "done", "failed"}
            BY <1>2 DEF CloseChild, TypeInv, ProgressTypeOK
        <2> QED
            BY <1>0, <1>2, <2>1, CloseType DEF CloseChild
    <1>3. CASE CloseRoot
        BY <1>0, <1>3, CloseType DEF CloseRoot
    <1>4. ASSUME NEW c \in Callers, Commit(c) \/ AppendToThread(c) \/ Refuse(c) PROVE TypeInv'
        BY <1>4, CommitType, AppendType, RefuseType
    <1>5. CASE Settle
        BY <1>5 DEF Settle, TypeInv, ProgressTypeOK, NamesUpdates, Callers, Call, Number
    <1>6. CASE UNCHANGED progressVars
        BY <1>6 DEF progressVars, TypeInv, ProgressTypeOK, NamesUpdates, Callers, Call, Number
    <1> QED
        BY <1>1, <1>2, <1>3, <1>4, <1>5, <1>6 DEF ProgressNext

\* Every variable of a task's progress keeps its type, and what a call or a lane
\* names was reported.
THEOREM ProgressTypeCorrect == ProgressSpec => []ProgressTypeOK
    <1>1. ProgressInit => TypeInv
        BY TypeInit
    <1>2. TypeInv /\ [ProgressNext]_progressVars => TypeInv'
        BY TypeNext
    <1>3. TypeInv => ProgressTypeOK
        BY DEF TypeInv
    <1> QED
        BY <1>1, <1>2, <1>3, PTL DEF ProgressSpec

-----------------------------------------------------------------------------
(* Rows *)

\* No update is in two places, nor twice in one.
Apart ==
    /\ Single(rows)
    /\ \A e \in Emitters : Single(buffer[e])
    /\ \A c \in Callers : Single(call[c].pending)
    /\ \A e \in Emitters, n \in Number : ~(Has(rows, n) /\ Has(buffer[e], n))
    /\ \A c \in Callers, n \in Number : ~(Has(rows, n) /\ Has(call[c].pending, n))
    /\ \A e \in Emitters, c \in Callers, n \in Number :
          ~(Has(buffer[e], n) /\ Has(call[c].pending, n))
    /\ \A e, f \in Emitters, n \in Number : Has(buffer[e], n) /\ Has(buffer[f], n) => e = f
    /\ \A c, d \in Callers, n \in Number :
          Has(call[c].pending, n) /\ Has(call[d].pending, n) => c = d

\* What is in a place was reported.
Reported ==
    \A n \in Number :
       \/ Has(rows, n)
       \/ \E e \in Emitters : Has(buffer[e], n)
       \/ \E c \in Callers : Has(call[c].pending, n)
       => n \in 1 .. Len(updates)

\* While the database refuses nothing, what was reported is in a place.
Kept ==
    faults = 0 =>
       \A n \in 1 .. Len(updates) : \/ Has(rows, n)
                                    \/ \E e \in Emitters : Has(buffer[e], n)
                                    \/ \E c \in Callers : Has(call[c].pending, n)

\* Only a commit carries updates.
OnlyCommits == \A c \in Callers : call[c].step # "commit" => call[c].pending = <<>>

Once == Apart /\ Reported /\ Kept /\ OnlyCommits

LEMMA Numbers ==
    ASSUME TypeInv
    PROVE  /\ \A n \in 1 .. Len(updates) : n \in Number
           /\ \A s \in Seq(Number) : \A n : Has(s, n) => n \in Number
           /\ \A s \in Seq(Number) : s \in Seq(Nat)
    <1>1. \A n \in 1 .. Len(updates) : n \in Number
        BY Typed, Assumed DEF Number
    <1>2. \A s \in Seq(Number) : \A n : Has(s, n) => n \in Number
        BY ElementOfSeq, LenProperties DEF Has
    <1>3. Number \subseteq Nat
        BY Assumed DEF Number
    <1>4. ASSUME NEW s \in Seq(Number) PROVE s \in Seq(Nat)
        <2>1. Len(s) \in Nat /\ s = [i \in 1 .. Len(s) |-> s[i]] /\ \A i \in 1 .. Len(s) : s[i] \in Nat
            BY <1>3, ElementOfSeq, LenProperties
        <2> QED
            BY <2>1, IsASeq
    <1> QED
        BY <1>1, <1>2, <1>4

\* A call takes what an emitter holds, or leaves it there, with what is newly reported.
LEMMA HoldKeeps ==
    ASSUME TypeInv, Once, NEW c \in Callers, NEW e \in Emitters,
           NEW held, NEW new \in SUBSET Number,
           call[c].step # "commit", Single(held),
           \A m \in Number : Has(held, m) <=> Has(buffer[e], m) \/ m \in new,
           \A m \in Number : m \in 1 .. Len(updates') <=> m \in 1 .. Len(updates) \/ m \in new,
           \A m \in 1 .. Len(updates') : m \in Number,
           \A m \in new : m \notin 1 .. Len(updates),
           rows' = rows, faults' = faults,
           \A f \in Emitters : f # e => buffer'[f] = buffer[f],
           \A d \in Callers : d # c => call'[d] = call[d],
           \/ buffer'[e] = <<>> /\ call'[c].pending = held /\ call'[c].step = "commit"
           \/ buffer'[e] = held /\ call'[c].pending = <<>>
    PROVE  Once'
    <1>1. call[c].pending = <<>>
        BY DEF Once, OnlyCommits
    <1>2. \A n : ~Has(<<>>, n)
        BY EmptyHas
    <1>3. Single(<<>>)
        BY EmptyHas
    <1>4. Apart /\ Reported /\ Kept /\ OnlyCommits
        BY DEF Once
    <1>5. \A m \in new : /\ ~Has(rows, m)
                         /\ \A f \in Emitters : ~Has(buffer[f], m)
                         /\ \A d \in Callers : ~Has(call[d].pending, m)
        BY <1>4 DEF Reported
    <1>6. CASE buffer'[e] = <<>> /\ call'[c].pending = held /\ call'[c].step = "commit"
        <2>1. Apart'
            BY <1>1, <1>2, <1>3, <1>4, <1>5, <1>6 DEF Apart
        <2>2. Reported'
            BY <1>1, <1>2, <1>4, <1>6 DEF Reported
        <2>3. Kept'
            BY <1>1, <1>2, <1>4, <1>6 DEF Kept
        <2>4. OnlyCommits'
            BY <1>4, <1>6 DEF OnlyCommits
        <2> QED
            BY <2>1, <2>2, <2>3, <2>4 DEF Once
    <1>7. CASE buffer'[e] = held /\ call'[c].pending = <<>>
        <2>1. Apart'
            BY <1>1, <1>2, <1>3, <1>4, <1>5, <1>7 DEF Apart
        <2>2. Reported'
            BY <1>1, <1>2, <1>4, <1>7 DEF Reported
        <2>3. Kept'
            BY <1>1, <1>2, <1>4, <1>7 DEF Kept
        <2>4. OnlyCommits'
            BY <1>4, <1>7 DEF OnlyCommits
        <2> QED
            BY <2>1, <2>2, <2>3, <2>4 DEF Once
    <1> QED
        BY <1>6, <1>7

LEMMA UpdateOnce ==
    ASSUME TypeInv, Once, NEW c \in Callers, NEW e \in Emitters,
           NEW p \in Points, Update(c, e, p)
    PROVE  Once'
    <1> DEFINE n == Len(updates) + 1
               held == Append(buffer[e], n)
    <1>1. /\ n \in Number /\ call[c].step = "idle" /\ Len(updates') = n
          /\ UNCHANGED <<onThread, rows, log, task, faults>>
          /\ \/ /\ buffer' = [buffer EXCEPT ![e] = <<>>]
                /\ call' = [call EXCEPT ![c] = CommitCall(e, n, held)]
                /\ UNCHANGED <<lane, offered>>
             \/ /\ buffer' = [buffer EXCEPT ![e] = held]
                /\ Offered(e, n)
                /\ \E x \in {NoCall, AppendCall(e, n)} : call' = [call EXCEPT ![c] = x]
        BY UpdateFacts
    <1>2. Len(updates) \in Nat /\ DOMAIN call = Callers /\ DOMAIN buffer = Emitters
        BY Typed
    <1>3. buffer[e] \in Seq(Nat) /\ n \in Nat /\ n \notin 1 .. Len(updates)
        BY <1>2, Typed, Numbers
    <1>4. ~Has(buffer[e], n) /\ Single(buffer[e])
        BY <1>1, <1>3 DEF Once, Reported, Apart
    <1>5. Single(held) /\ \A m : Has(held, m) <=> Has(buffer[e], m) \/ m \in {n}
        BY <1>3, <1>4, AppendHas
    <1>6. /\ \A m \in Number : m \in 1 .. Len(updates') <=> m \in 1 .. Len(updates) \/ m \in {n}
          /\ \A m \in 1 .. Len(updates') : m \in Number
        BY <1>1, <1>2, Assumed DEF Number
    <1>7. {n} \in SUBSET Number /\ \A m \in {n} : m \notin 1 .. Len(updates)
        BY <1>1, <1>3
    <1>8. call[c].step # "commit" /\ rows' = rows /\ faults' = faults
        BY <1>1
    <1> HIDE DEF n, held
    <1>9. CASE /\ buffer' = [buffer EXCEPT ![e] = <<>>]
               /\ call' = [call EXCEPT ![c] = CommitCall(e, n, held)]
        <2>1. /\ \A f \in Emitters : f # e => buffer'[f] = buffer[f]
              /\ \A d \in Callers : d # c => call'[d] = call[d]
              /\ buffer'[e] = <<>> /\ call'[c] = CommitCall(e, n, held)
            BY <1>2, <1>9
        <2>2. call'[c].pending = held /\ call'[c].step = "commit"
            BY <2>1, CallFields
        <2> QED
            BY <1>5, <1>6, <1>7, <1>8, <2>1, <2>2, HoldKeeps
    <1>10. ASSUME buffer' = [buffer EXCEPT ![e] = held],
                  NEW x \in {NoCall, AppendCall(e, n)}, call' = [call EXCEPT ![c] = x]
           PROVE  Once'
        <2>1. /\ \A f \in Emitters : f # e => buffer'[f] = buffer[f]
              /\ \A d \in Callers : d # c => call'[d] = call[d]
              /\ buffer'[e] = held /\ call'[c] = x
            BY <1>2, <1>10
        <2>2. call'[c].pending = <<>>
            BY <2>1, CallFields
        <2> QED
            BY <1>5, <1>6, <1>7, <1>8, <2>1, <2>2, HoldKeeps
    <1> QED
        BY <1>1, <1>9, <1>10

\* A step that moves no update: the call it sets carries none, before and after.
LEMMA StaysOnce ==
    ASSUME TypeInv, Once, NEW c \in Callers,
           call[c].step # "commit", call'[c].pending = <<>>,
           \A d \in Callers : d # c => call'[d] = call[d],
           UNCHANGED <<rows, buffer, updates, faults>>
    PROVE  Once'
    <1>1. /\ call[c].pending = <<>>
          /\ Apart /\ Reported /\ Kept /\ OnlyCommits
        BY DEF Once, OnlyCommits
    <1>2. \A d \in Callers : call'[d].pending = call[d].pending
        BY <1>1
    <1>3. Apart'
        BY <1>1, <1>2 DEF Apart
    <1>4. Reported'
        BY <1>1, <1>2 DEF Reported
    <1>5. Kept'
        BY <1>1, <1>2 DEF Kept
    <1>6. OnlyCommits'
        BY <1>1, <1>2 DEF OnlyCommits
    <1> QED
        BY <1>3, <1>4, <1>5, <1>6 DEF Once

LEMMA WriteLastOnce ==
    ASSUME TypeInv, NEW c \in Callers, NEW e, WriteLast(c, e)
    PROVE  call'[c].pending = <<>> /\ \A d \in Callers : d # c => call'[d] = call[d]
    <1>1. DOMAIN call = Callers
        BY Typed
    <1>2. PICK x : call' = [call EXCEPT ![c] = x] /\ x \in {NoCall, AppendCall(e, lane[e].unwritten)}
        BY WriteLastFacts
    <1>3. x.pending = <<>>
        BY <1>2, CallFields
    <1> QED
        BY <1>1, <1>2, <1>3

LEMMA CloseOnce ==
    ASSUME TypeInv, Once, NEW c \in Callers, NEW e \in Emitters, Close(c, e),
           call[c].step = "idle", UNCHANGED <<updates, rows, faults>>
    PROVE  Once'
    <1>1. DOMAIN call = Callers /\ DOMAIN buffer = Emitters
        BY Typed
    <1>2. CASE /\ buffer' = [buffer EXCEPT ![e] = <<>>]
               /\ call' = [call EXCEPT ![c] = CommitCall(e, 0, buffer[e])]
        <2>1. /\ \A f \in Emitters : f # e => buffer'[f] = buffer[f]
              /\ \A d \in Callers : d # c => call'[d] = call[d]
              /\ buffer'[e] = <<>> /\ call'[c] = CommitCall(e, 0, buffer[e])
            BY <1>1, <1>2
        <2>2. call'[c].pending = buffer[e] /\ call'[c].step = "commit"
            BY <2>1, CallFields
        <2>3. /\ Single(buffer[e]) /\ call[c].step # "commit"
              /\ \A m \in Number : Has(buffer[e], m) <=> Has(buffer[e], m) \/ m \in {}
            BY DEF Once, Apart
        <2>4. /\ \A m \in Number : m \in 1 .. Len(updates') <=> m \in 1 .. Len(updates) \/ m \in {}
              /\ \A m \in 1 .. Len(updates') : m \in Number
              /\ {} \in SUBSET Number /\ \A m \in {} : m \notin 1 .. Len(updates)
            BY Numbers
        <2> QED
            BY <2>1, <2>2, <2>3, <2>4, HoldKeeps
    <1>3. CASE UNCHANGED buffer /\ WriteLast(c, e)
        BY <1>3, WriteLastOnce, StaysOnce
    <1> QED
        BY <1>2, <1>3, CloseFacts

LEMMA CommitOnce ==
    ASSUME TypeInv, Once, NEW c \in Callers, Commit(c) PROVE Once'
    <1> DEFINE batch == call[c].pending
    <1>1. /\ call[c].step = "commit" /\ rows' = rows \o batch
          /\ UNCHANGED <<updates, buffer, faults>>
        BY DEF Commit
    <1>2. call'[c].pending = <<>> /\ \A d \in Callers : d # c => call'[d] = call[d]
        <2>1. CASE call[c].update = 0
            BY <2>1, WriteLastOnce DEF Commit
        <2>2. CASE call[c].update # 0
            <3> DEFINE e == call[c].by
                       n == call[c].update
            <3>1. Offer(c, e, n, updates[n].points)
                BY <2>2 DEF Commit
            <3> HIDE DEF e, n
            <3>2. PICK x \in {NoCall, AppendCall(e, n)} : call' = [call EXCEPT ![c] = x]
                BY <3>1, OfferFacts
            <3>3. x.pending = <<>>
                BY CallFields
            <3> QED
                BY <3>2, <3>3, Typed
        <2> QED
            BY <2>1, <2>2
    <1>3. rows \in Seq(Nat) /\ batch \in Seq(Nat)
        BY Typed, Numbers
    <1>4. /\ Apart /\ Reported /\ Kept /\ OnlyCommits
          /\ (\A n : ~Has(<<>>, n)) /\ Single(<<>>)
        BY EmptyHas DEF Once
    <1>5. \A n : ~(Has(rows, n) /\ Has(batch, n))
        <2>1. \A n : Has(rows, n) => n \in Number
            BY Typed, Numbers
        <2> QED
            BY <1>4, <2>1 DEF Apart
    <1>6. Single(rows') /\ \A n : Has(rows', n) <=> Has(rows, n) \/ Has(batch, n)
        BY <1>1, <1>3, <1>4, <1>5, ConcatHas DEF Apart
    <1> HIDE DEF batch
    <1>7. batch = call[c].pending
        BY DEF batch
    <1>8. Apart'
        BY <1>1, <1>2, <1>4, <1>6, <1>7 DEF Apart
    <1>9. Reported'
        BY <1>1, <1>2, <1>4, <1>6, <1>7 DEF Reported
    <1>10. Kept'
        BY <1>1, <1>2, <1>4, <1>6, <1>7 DEF Kept
    <1>11. OnlyCommits'
        BY <1>1, <1>2, <1>4 DEF OnlyCommits
    <1> QED
        BY <1>8, <1>9, <1>10, <1>11 DEF Once

LEMMA AppendOnce ==
    ASSUME TypeInv, Once, NEW c \in Callers, AppendToThread(c) PROVE Once'
    <1>1. /\ call[c].step # "commit" /\ call' = [call EXCEPT ![c] = NoCall]
          /\ UNCHANGED <<rows, buffer, updates, faults>>
        BY DEF AppendToThread
    <1>2. call'[c].pending = <<>> /\ \A d \in Callers : d # c => call'[d] = call[d]
        BY <1>1, Typed, CallFields
    <1> QED
        BY <1>1, <1>2, StaysOnce

\* A refused commit loses its batch: then an update may be nowhere, and none is twice.
LEMMA RefuseOnce ==
    ASSUME TypeInv, Once, NEW c \in Callers, Refuse(c) PROVE Once'
    <1>1. /\ call' = [call EXCEPT ![c] = NoCall] /\ faults' = faults + 1
          /\ UNCHANGED <<rows, buffer, updates>>
        BY DEF Refuse
    <1>2. call'[c].pending = <<>> /\ \A d \in Callers : d # c => call'[d] = call[d]
        BY <1>1, Typed, CallFields
    <1>3. /\ Apart /\ Reported /\ OnlyCommits
          /\ (\A n : ~Has(<<>>, n)) /\ Single(<<>>)
        BY EmptyHas DEF Once
    <1>4. faults' # 0
        BY <1>1, Typed
    <1>5. Apart'
        BY <1>1, <1>2, <1>3 DEF Apart
    <1>6. Reported'
        BY <1>1, <1>2, <1>3 DEF Reported
    <1>7. Kept'
        BY <1>4 DEF Kept
    <1>8. OnlyCommits'
        BY <1>2, <1>3 DEF OnlyCommits
    <1> QED
        BY <1>5, <1>6, <1>7, <1>8 DEF Once

-----------------------------------------------------------------------------
(* The thread's log *)

\* A lane knows of no update but the one it was offered last, and forgets that one
\* only once the log holds it.
Lanes ==
    /\ ~onThread => \A e \in Emitters : offered[e] = 0
    /\ \A e \in Emitters : lane[e].unwritten \in {0, offered[e]}
    /\ \A e \in Emitters : offered[e] # 0 /\ lane[e].unwritten = 0 => Has(log, offered[e])

\* The runner's close is the last call: it ends with nothing left to append.
RunnerLast ==
    /\ task = "running" => call[Runner].step = "idle"
    /\ task \in {"closing", "done"} => \A c \in Calls : call[c].step = "idle"
    /\ task = "closing" =>
          /\ call[Runner].step = "commit" => call[Runner].by = Root /\ call[Runner].update = 0
          /\ call[Runner].step = "append" =>
                call[Runner].by = Root /\ call[Runner].update = lane[Root].unwritten
          /\ call[Runner].step = "idle" => ~onThread \/ lane[Root].unwritten = 0
    /\ task = "done" => call[Runner].step = "idle" /\ (~onThread \/ lane[Root].unwritten = 0)

LEMMA OfferedLanes ==
    ASSUME TypeInv, Lanes, NEW e \in Emitters, NEW n \in Nat \ {0},
           Offered(e, n), UNCHANGED <<onThread, log>>
    PROVE  Lanes'
    <1>1. CASE UNCHANGED <<lane, offered>>
        BY <1>1 DEF Lanes
    <1>2. CASE onThread /\ lane' = [lane EXCEPT ![e].unwritten = n] /\ offered' = [offered EXCEPT ![e] = n]
        <2>1. \A f \in Emitters : offered'[f] = IF f = e THEN n ELSE offered[f]
            BY <1>2, Typed
        <2>2. \A f \in Emitters : lane'[f].unwritten = IF f = e THEN n ELSE lane[f].unwritten
            <3>1. lane \in [Emitters -> [written : Points \cup {None}, unwritten : 0..MaxUpdates]]
                BY DEF TypeInv, ProgressTypeOK
            <3> QED
                BY <1>2, <3>1
        <2> QED
            BY <1>2, <2>1, <2>2 DEF Lanes
    <1> QED
        BY <1>1, <1>2 DEF Offered

LEMMA AppendLanes ==
    ASSUME TypeInv, Lanes, NEW c \in Callers, AppendToThread(c) PROVE Lanes'
    <1> DEFINE e == call[c].by
               n == call[c].update
    <1>1. /\ e \in Emitters /\ n \in 1 .. Len(updates) /\ log' = Append(log, n)
          /\ \A f \in Emitters : lane'[f].unwritten =
                IF f = e /\ lane[e].unwritten = n THEN 0 ELSE lane[f].unwritten
          /\ UNCHANGED <<onThread, offered>>
        BY AppendFacts
    <1>2. log \in Seq(Nat) /\ n \in Nat /\ n # 0
        BY <1>1, Typed, Numbers
    <1> HIDE DEF e, n
    <1>3. \A m : Has(log', m) <=> Has(log, m) \/ m = n
        BY <1>1, <1>2, AppendHas
    <1> QED
        BY <1>1, <1>2, <1>3 DEF Lanes

LEMMA LanesNext ==
    ASSUME TypeInv, Lanes, [ProgressNext]_progressVars PROVE Lanes'
    <1>0. Calls \subseteq Callers /\ Runner \in Callers /\ Root \in Emitters
        BY Assumed
    <1>1. ASSUME NEW c \in Calls, NEW e \in Emitters, NEW p \in Points, Update(c, e, p) PROVE Lanes'
        <2> DEFINE n == Len(updates) + 1
        <2>1. UNCHANGED <<onThread, log>> /\ (UNCHANGED <<lane, offered>> \/ Offered(e, n))
            BY <1>0, <1>1, UpdateFacts
        <2>2. n \in Nat \ {0}
            BY Typed
        <2>3. CASE UNCHANGED <<lane, offered>>
            BY <2>1, <2>3 DEF Lanes
        <2> HIDE DEF n
        <2>4. CASE Offered(e, n)
            BY <2>1, <2>2, <2>4, OfferedLanes
        <2> QED
            BY <2>1, <2>3, <2>4
    <1>2. ASSUME NEW c \in Callers, NEW e \in Emitters, Close(c, e), UNCHANGED <<onThread, log>>
          PROVE  Lanes'
        <2>1. UNCHANGED <<lane, offered>>
            BY <1>2, CloseFacts
        <2> QED
            BY <1>2, <2>1 DEF Lanes
    <1>3. ASSUME NEW c \in Callers, Commit(c) PROVE Lanes'
        <2> DEFINE e == call[c].by
                   n == call[c].update
        <2>1. /\ e \in Emitters /\ n \in Nat /\ UNCHANGED <<onThread, log>>
              /\ IF n = 0 THEN WriteLast(c, e) ELSE Offer(c, e, n, updates[n].points)
            BY <1>3, Typed DEF Commit, TypeInv, NamesUpdates
        <2> HIDE DEF e, n
        <2>2. CASE n = 0
            <3>1. UNCHANGED <<lane, offered>>
                BY <2>1, <2>2, WriteLastFacts
            <3> QED
                BY <2>1, <3>1 DEF Lanes
        <2>3. CASE n # 0
            <3>1. Offered(e, n)
                BY <2>1, <2>3, OfferFacts
            <3> QED
                BY <2>1, <2>3, <3>1, OfferedLanes
        <2> QED
            BY <2>2, <2>3
    <1>4. ASSUME NEW c \in Callers, AppendToThread(c) PROVE Lanes'
        BY <1>4, AppendLanes
    <1>5. CASE UNCHANGED <<onThread, log, lane, offered>>
        BY <1>5 DEF Lanes
    <1>6. ASSUME NEW c \in Callers, Refuse(c) PROVE Lanes'
        BY <1>5, <1>6 DEF Refuse
    <1>7. CASE Settle \/ UNCHANGED progressVars
        BY <1>5, <1>7 DEF Settle, progressVars
    <1>8. CASE CloseRoot
        BY <1>0, <1>2, <1>8 DEF CloseRoot
    <1>9. ASSUME NEW c \in Calls, NEW e \in Emitters, CloseChild(c, e) PROVE Lanes'
        BY <1>0, <1>2, <1>9 DEF CloseChild
    <1> QED
        BY <1>1, <1>3, <1>4, <1>6, <1>7, <1>8, <1>9 DEF ProgressNext

\* A call of the body opens and ends only while the task runs.
LEMMA BodyTurns ==
    ASSUME TypeInv, RunnerLast, NEW c \in Calls, task = "running", task' = task,
           \A d \in Callers : d # c => call'[d] = call[d]
    PROVE  RunnerLast'
    <1>1. call'[Runner] = call[Runner]
        BY Assumed
    <1> QED
        BY <1>1 DEF RunnerLast

\* The runner closes its emitter.
LEMMA CloseTurns ==
    ASSUME TypeInv, RunnerLast, task' = "closing", UNCHANGED <<onThread, lane>>,
           \A c \in Calls : call'[c].step = "idle",
           \/ call' = [call EXCEPT ![Runner] = CommitCall(Root, 0, buffer[Root])]
           \/ call' = [call EXCEPT ![Runner] = NoCall] /\ (~onThread \/ lane[Root].unwritten = 0)
           \/ call' = [call EXCEPT ![Runner] = AppendCall(Root, lane[Root].unwritten)]
    PROVE  RunnerLast'
    <1>1. Runner \in DOMAIN call
        BY Typed, Assumed
    <1>2. CASE call' = [call EXCEPT ![Runner] = CommitCall(Root, 0, buffer[Root])]
        <2>1. /\ call'[Runner].step = "commit" /\ call'[Runner].by = Root
              /\ call'[Runner].update = 0
            BY <1>1, <1>2, CallFields
        <2> QED
            BY <2>1 DEF RunnerLast
    <1>3. CASE call' = [call EXCEPT ![Runner] = NoCall] /\ (~onThread \/ lane[Root].unwritten = 0)
        <2>1. call'[Runner].step = "idle"
            BY <1>1, <1>3, CallFields
        <2> QED
            BY <1>3, <2>1 DEF RunnerLast
    <1>4. CASE call' = [call EXCEPT ![Runner] = AppendCall(Root, lane[Root].unwritten)]
        <2>1. /\ call'[Runner].step = "append" /\ call'[Runner].by = Root
              /\ call'[Runner].update = lane[Root].unwritten
            BY <1>1, <1>4, CallFields
        <2> QED
            BY <2>1 DEF RunnerLast
    <1> QED
        BY <1>2, <1>3, <1>4

\* A failed task asks nothing more of its calls.
LEMMA FailedTurns == ASSUME task' = "failed" PROVE RunnerLast'
    BY DEF RunnerLast

\* A step of an open call is the body's while the task runs, or the runner's close.
LEMMA OpenCall ==
    ASSUME TypeInv, RunnerLast, NEW c \in Callers, call[c].step # "idle"
    PROVE  \/ task = "failed"
           \/ task = "running" /\ c \in Calls
           \/ task = "closing" /\ c = Runner
    BY DEF RunnerLast, Callers, TypeInv, ProgressTypeOK

\* What a step leaves of the other calls.
LEMMA OthersStay ==
    ASSUME TypeInv, NEW c \in Callers,
           \/ \E e \in Emitters, p \in Points : Update(c, e, p)
           \/ \E e \in Emitters : Close(c, e)
           \/ Commit(c) \/ AppendToThread(c) \/ Refuse(c)
    PROVE  \A d \in Callers : d # c => call'[d] = call[d]
    <1> SUFFICES ASSUME NEW x, call' = [call EXCEPT ![c] = x]
                 PROVE  \A d \in Callers : d # c => call'[d] = call[d]
        <2>1. ASSUME NEW e \in Emitters, NEW p \in Points, Update(c, e, p)
              PROVE  \E x : call' = [call EXCEPT ![c] = x]
            BY <2>1, UpdateFacts
        <2>2. ASSUME NEW e, WriteLast(c, e) PROVE \E x : call' = [call EXCEPT ![c] = x]
            BY <2>2, WriteLastFacts
        <2>3. ASSUME NEW e \in Emitters, Close(c, e) PROVE \E x : call' = [call EXCEPT ![c] = x]
            BY <2>2, <2>3, CloseFacts
        <2>4. ASSUME Commit(c) PROVE \E x : call' = [call EXCEPT ![c] = x]
            <3>1. CASE WriteLast(c, call[c].by)
                BY <2>2, <3>1
            <3>2. CASE Offer(c, call[c].by, call[c].update, updates[call[c].update].points)
                BY <3>2, OfferFacts
            <3> QED
                BY <2>4, <3>1, <3>2 DEF Commit
        <2>5. ASSUME AppendToThread(c) \/ Refuse(c) PROVE \E x : call' = [call EXCEPT ![c] = x]
            BY <2>5 DEF AppendToThread, Refuse
        <2> QED
            BY <2>1, <2>3, <2>4, <2>5
    <1> QED
        BY Typed

LEMMA RunnerTurns ==
    ASSUME TypeInv, RunnerLast, task = "closing",
           Commit(Runner) \/ AppendToThread(Runner)
    PROVE  RunnerLast'
    <1>0. Runner \in Callers /\ Runner \notin Calls /\ Calls \subseteq Callers /\ Root \in Emitters
        BY Assumed
    <1>1. \A c \in Calls : call[c].step = "idle"
        BY DEF RunnerLast
    <1>2. \A c \in Calls : call'[c].step = "idle"
        <2>1. \A d \in Callers : d # Runner => call'[d] = call[d]
            BY <1>0, OthersStay
        <2> QED
            BY <1>0, <1>1, <2>1
    <1>3. CASE Commit(Runner)
        <2>1. call[Runner].by = Root /\ call[Runner].update = 0
            BY <1>3 DEF RunnerLast, Commit
        <2>2. WriteLast(Runner, Root) /\ UNCHANGED <<onThread, task>>
            BY <1>3, <2>1 DEF Commit
        <2>3. /\ UNCHANGED <<lane, offered>>
              /\ \/ call' = [call EXCEPT ![Runner] = NoCall] /\ (~onThread \/ lane[Root].unwritten = 0)
                 \/ call' = [call EXCEPT ![Runner] = AppendCall(Root, lane[Root].unwritten)]
            BY <2>2, WriteLastFacts
        <2> QED
            BY <1>2, <2>2, <2>3, CloseTurns
    <1>4. CASE AppendToThread(Runner)
        <2>1. call[Runner].by = Root /\ call[Runner].update = lane[Root].unwritten
            BY <1>4 DEF RunnerLast, AppendToThread
        <2>2. /\ call' = [call EXCEPT ![Runner] = NoCall] /\ task' = task
              /\ lane'[Root].unwritten = 0
            BY <1>0, <1>4, <2>1, AppendFacts
        <2>3. call'[Runner].step = "idle"
            BY <1>0, <2>2, Typed, CallFields
        <2> QED
            BY <1>2, <2>2, <2>3 DEF RunnerLast
    <1> QED
        BY <1>3, <1>4

LEMMA TurnsNext ==
    ASSUME TypeInv, RunnerLast, [ProgressNext]_progressVars PROVE RunnerLast'
    <1>0. Calls \subseteq Callers /\ Runner \in Callers /\ Runner \notin Calls /\ Root \in Emitters
        BY Assumed
    <1>1. ASSUME NEW c \in Calls, NEW e \in Emitters, NEW p \in Points, Update(c, e, p) PROVE RunnerLast'
        <2>1. task = "running" /\ task' = task
            BY <1>1 DEF Update
        <2>2. \A d \in Callers : d # c => call'[d] = call[d]
            BY <1>0, <1>1, OthersStay
        <2> QED
            BY <2>1, <2>2, BodyTurns
    <1>2. ASSUME NEW c \in Calls, NEW e \in Emitters, CloseChild(c, e) PROVE RunnerLast'
        <2>1. task = "running" /\ task' = task /\ Close(c, e)
            BY <1>2 DEF CloseChild
        <2>2. \A d \in Callers : d # c => call'[d] = call[d]
            BY <1>0, <2>1, OthersStay
        <2> QED
            BY <2>1, <2>2, BodyTurns
    <1>3. CASE CloseRoot
        <2>1. /\ task' = "closing" /\ onThread' = onThread /\ Close(Runner, Root)
              /\ \A c \in Calls : call[c].step = "idle"
            BY <1>3 DEF CloseRoot
        <2>2. \A c \in Calls : call'[c].step = "idle"
            <3>1. \A d \in Callers : d # Runner => call'[d] = call[d]
                BY <1>0, <2>1, OthersStay
            <3> QED
                BY <1>0, <2>1, <3>1
        <2>3. /\ UNCHANGED <<lane, offered>>
              /\ \/ call' = [call EXCEPT ![Runner] = CommitCall(Root, 0, buffer[Root])]
                 \/ call' = [call EXCEPT ![Runner] = NoCall] /\ (~onThread \/ lane[Root].unwritten = 0)
                 \/ call' = [call EXCEPT ![Runner] = AppendCall(Root, lane[Root].unwritten)]
            BY <2>1, CloseFacts, WriteLastFacts
        <2> QED
            BY <2>1, <2>2, <2>3, CloseTurns
    <1>4. ASSUME NEW c \in Callers, Commit(c) \/ AppendToThread(c) PROVE RunnerLast'
        <2>1. call[c].step # "idle" /\ task' = task
            BY <1>4 DEF Commit, AppendToThread
        <2>2. CASE task = "failed"
            BY <2>1, <2>2, FailedTurns
        <2>3. CASE task = "running" /\ c \in Calls
            <3>1. \A d \in Callers : d # c => call'[d] = call[d]
                BY <1>4, OthersStay
            <3> QED
                BY <2>1, <2>3, <3>1, BodyTurns
        <2>4. CASE task = "closing" /\ c = Runner
            BY <1>4, <2>4, RunnerTurns
        <2> QED
            BY <2>1, <2>2, <2>3, <2>4, OpenCall
    <1>5. ASSUME NEW c \in Callers, Refuse(c) PROVE RunnerLast'
        <2>1. call[c].step # "idle" /\ task' = IF c = Runner THEN "failed" ELSE task
            BY <1>5 DEF Refuse
        <2>2. CASE task = "failed" \/ c = Runner
            BY <2>1, <2>2, FailedTurns
        <2>3. CASE task = "running" /\ c \in Calls
            <3>1. \A d \in Callers : d # c => call'[d] = call[d]
                BY <1>5, OthersStay
            <3> QED
                BY <1>0, <2>1, <2>3, <3>1, BodyTurns
        <2> QED
            BY <2>1, <2>2, <2>3, OpenCall
    <1>6. CASE Settle
        BY <1>6 DEF Settle, RunnerLast
    <1>7. CASE UNCHANGED progressVars
        BY <1>7 DEF progressVars, RunnerLast
    <1> QED
        BY <1>1, <1>2, <1>3, <1>4, <1>5, <1>6, <1>7 DEF ProgressNext

LEMMA OnceNext ==
    ASSUME TypeInv, Once, RunnerLast, [ProgressNext]_progressVars PROVE Once'
    <1>0. Calls \subseteq Callers /\ Runner \in Callers /\ Root \in Emitters
        BY Assumed
    <1>1. ASSUME NEW c \in Calls, NEW e \in Emitters, NEW p \in Points, Update(c, e, p) PROVE Once'
        BY <1>0, <1>1, UpdateOnce
    <1>2. ASSUME NEW c \in Calls, NEW e \in Emitters, CloseChild(c, e) PROVE Once'
        <2>1. Close(c, e) /\ call[c].step = "idle" /\ UNCHANGED <<updates, rows, faults>>
            BY <1>2 DEF CloseChild
        <2> QED
            BY <1>0, <2>1, CloseOnce
    <1>3. CASE CloseRoot
        <2>1. Close(Runner, Root) /\ call[Runner].step = "idle" /\ UNCHANGED <<updates, rows, faults>>
            BY <1>3 DEF CloseRoot, RunnerLast
        <2> QED
            BY <1>0, <2>1, CloseOnce
    <1>4. ASSUME NEW c \in Callers, Commit(c) \/ AppendToThread(c) \/ Refuse(c) PROVE Once'
        BY <1>4, CommitOnce, AppendOnce, RefuseOnce
    <1>5. CASE UNCHANGED <<rows, buffer, call, updates, faults>>
        BY <1>5 DEF Once, Apart, Reported, Kept, OnlyCommits
    <1>6. CASE Settle \/ UNCHANGED progressVars
        BY <1>5, <1>6 DEF Settle, progressVars
    <1> QED
        BY <1>1, <1>2, <1>3, <1>4, <1>6 DEF ProgressNext

-----------------------------------------------------------------------------
(* What the body reported reaches what reads it *)

Inv == TypeInv /\ Once /\ Lanes /\ RunnerLast

LEMMA InvInit == ASSUME ProgressInit PROVE Inv
    <1>1. /\ updates = <<>> /\ rows = <<>> /\ task = "running"
          /\ (\A e \in Emitters : buffer[e] = <<>> /\ offered[e] = 0 /\ lane[e].unwritten = 0)
          /\ (\A c \in Callers : call[c].pending = <<>> /\ call[c].step = "idle")
          /\ Runner \in Callers
        BY CallFields, Assumed DEF ProgressInit
    <1>2. (\A n : ~Has(<<>>, n)) /\ Single(<<>>)
        BY EmptyHas
    <1>3. Apart /\ Reported /\ OnlyCommits
        BY <1>1, <1>2 DEF Apart, Reported, OnlyCommits
    <1>4. Kept
        <2>1. Len(updates) = 0
            BY <1>1, EmptySeq
        <2> QED
            BY <2>1 DEF Kept
    <1>5. Lanes /\ RunnerLast
        BY <1>1 DEF Lanes, RunnerLast
    <1> QED
        BY <1>3, <1>4, <1>5, TypeInit DEF Inv, Once

LEMMA InvNext == ASSUME Inv, [ProgressNext]_progressVars PROVE Inv'
    BY TypeNext, OnceNext, LanesNext, TurnsNext DEF Inv

LEMMA HasOccurs == \A s, n : Has(s, n) <=> Occurrences(s, n) # {}
    BY DEF Has, Occurrences

LEMMA AtMostOne ==
    ASSUME NEW S, \A x, y \in S : x = y
    PROVE  /\ Cardinality(S) \in {0, 1}
           /\ Cardinality(S) = 0 <=> S = {}
    <1>1. CASE S = {}
        BY <1>1, FS_EmptySet
    <1>2. CASE S # {}
        <2>1. PICK x : S = {x}
            BY <1>2
        <2> QED
            BY <2>1, FS_Singleton
    <1> QED
        BY <1>1, <1>2

LEMMA OnceRows == ASSUME TypeInv, Once PROVE EveryRowOnce
    <1> SUFFICES ASSUME NEW n \in 1 .. Len(updates)
                 PROVE  Places(n) <= 1 /\ (faults = 0 => Places(n) = 1)
        BY DEF EveryRowOnce
    <1> DEFINE Rs == Occurrences(rows, n)
               Bs == {e \in Emitters : Occurrences(buffer[e], n) # {}}
               Cs == {c \in Callers : Occurrences(call[c].pending, n) # {}}
    <1>0. n \in Number /\ Apart /\ Kept
        BY Numbers DEF Once
    <1>1. /\ Rs # {} <=> Has(rows, n)
          /\ \A e : e \in Bs <=> e \in Emitters /\ Has(buffer[e], n)
          /\ \A c : c \in Cs <=> c \in Callers /\ Has(call[c].pending, n)
        BY HasOccurs
    <1>2. \A i, j \in Rs : i = j
        BY <1>0 DEF Apart, Single, Occurrences
    <1>3. Places(n) = Cardinality(Rs) + Cardinality(Bs) + Cardinality(Cs)
        BY DEF Places
    <1> HIDE DEF Rs, Bs, Cs
    <1>4. /\ \A e, f \in Bs : e = f
          /\ \A c, d \in Cs : c = d
          /\ Rs = {} \/ Bs = {}
          /\ Rs = {} \/ Cs = {}
          /\ Bs = {} \/ Cs = {}
        BY <1>0, <1>1 DEF Apart
    <1>5. faults = 0 => Rs # {} \/ Bs # {} \/ Cs # {}
        BY <1>0, <1>1 DEF Kept
    <1>6. /\ Cardinality(Rs) \in {0, 1} /\ (Cardinality(Rs) = 0 <=> Rs = {})
          /\ Cardinality(Bs) \in {0, 1} /\ (Cardinality(Bs) = 0 <=> Bs = {})
          /\ Cardinality(Cs) \in {0, 1} /\ (Cardinality(Cs) = 0 <=> Cs = {})
        BY <1>2, <1>4, AtMostOne
    <1> QED
        BY <1>3, <1>4, <1>5, <1>6

LEMMA LanesHeld == ASSUME Lanes, RunnerLast PROVE LastOfferedHeld
    <1> SUFFICES ASSUME task = "done", offered[Root] # 0
                 PROVE  Occurrences(log, offered[Root]) # {}
        BY DEF LastOfferedHeld
    <1>1. Has(log, offered[Root])
        BY Assumed DEF Lanes, RunnerLast
    <1> QED
        BY <1>1, HasOccurs

\* No update a task's body reported becomes two rows, however its calls overlap
\* between a flush and its commit, and while the database refuses nothing each is a
\* row, under commit or in a buffer; and once the runner has closed the task's
\* emitter the thread's log holds the update its lane was offered last.
THEOREM ReportsKeptAlways == ProgressSpec => []ReportsKept
    <1>1. ProgressInit => Inv
        BY InvInit
    <1>2. Inv /\ [ProgressNext]_progressVars => Inv'
        BY InvNext
    <1>3. Inv => ReportsKept
        BY OnceRows, LanesHeld DEF Inv, ReportsKept
    <1> QED
        BY <1>1, <1>2, <1>3, PTL DEF ProgressSpec

-----------------------------------------------------------------------------
(* Least elements: what an induction over the numbers comes to.             *)

\* A set of numbers that is not empty has a least one.
LEMMA LeastNumber ==
    ASSUME NEW S \in SUBSET Nat, S # {}
    PROVE  \E i \in S : \A j \in S : i <= j
  <1>1. PICK i \in S : \A j \in S : <<j, i>> \notin OpToRel(<, Nat)
    BY WFMin, NatLessThanWellFounded, Zenon
  <1>2. \A j \in S : ~(j < i)
    BY <1>1, Zenon DEF OpToRel
  <1>3. \A j \in S : i <= j
    BY <1>2
  <1>4. QED
    BY <1>3

-----------------------------------------------------------------------------
(* Memories: the newest rows of a set.                                      *)

\* NewestOf holds no more rows than it was asked for, when no two share a stamp.
LEMMA NewestBounded ==
    ASSUME NEW S, IsFiniteSet(S), \A e \in S : e.at \in Nat,
           \A e, f \in S : e.at = f.at => e = f,
           NEW n \in Nat
    PROVE  Cardinality(NewestOf(S, n)) <= n
  <1> DEFINE N == NewestOf(S, n)
  <1>1. N \subseteq S /\ IsFiniteSet(N)
    BY FS_Subset DEF NewestOf
  <1>2. CASE N = {}
    BY <1>2, FS_EmptySet
  <1>3. CASE N # {}
    <2>1. {e.at : e \in N} \in SUBSET Nat /\ {e.at : e \in N} # {}
      BY <1>1, <1>3
    <2>2. PICK i \in {e.at : e \in N} : \A j \in {e.at : e \in N} : i <= j
      BY <2>1, LeastNumber
    <2>3. PICK e \in N : e.at = i
      BY <2>2
    <2>4. N \ {e} \subseteq {f \in S : f.at > e.at}
      <3>1. ASSUME NEW f \in N, f # e
            PROVE  f \in S /\ f.at > e.at
        <4>1. f \in S /\ e \in S
          BY <1>1
        <4>2. f.at \in Nat /\ e.at \in Nat /\ f.at # e.at
          BY <3>1, <4>1
        <4>3. e.at <= f.at
          BY <2>2, <2>3
        <4>4. QED
          BY <4>1, <4>2, <4>3
      <3>2. QED
        BY <3>1
    <2>5. /\ IsFiniteSet({f \in S : f.at > e.at})
          /\ Cardinality({f \in S : f.at > e.at}) < n
      BY <2>3, FS_Subset DEF NewestOf
    <2>6. Cardinality(N \ {e}) <= Cardinality({f \in S : f.at > e.at})
      BY <2>4, <2>5, FS_Subset
    <2>7. Cardinality(N \ {e}) = Cardinality(N) - 1 /\ IsFiniteSet(N \ {e})
      BY <1>1, FS_RemoveElement
    <2>8. /\ Cardinality(N) \in Nat /\ Cardinality(N \ {e}) \in Nat
          /\ Cardinality({f \in S : f.at > e.at}) \in Nat
      BY <1>1, <2>5, <2>7, FS_CardinalityType
    <2>9. QED
      BY <2>5, <2>6, <2>7, <2>8
  <1>4. QED
    BY <1>2, <1>3

-----------------------------------------------------------------------------
(* Memories: types.                                                         *)

LEMMA CandidateTyped ==
    ASSUME NEW cs \in Candidates
    PROVE  cs \in Seq(Candidate) /\ cs # <<>> /\ Len(cs) \in Nat \ {0} /\ DOMAIN cs = 1..Len(cs)
  <1>1. PICK n \in 1..MaxCandidates : cs \in [1..n -> Candidate]
    BY DEF Candidates
  <1>2. n \in Nat /\ n # 0
    BY MemoriesAssumption
  <1>3. cs \in Seq(Candidate)
    BY <1>1, <1>2
  <1>4. DOMAIN cs = 1..n
    BY <1>1
  <1>5. DOMAIN cs = 1..Len(cs) /\ Len(cs) \in Nat
    BY <1>3
  <1>6. Len(cs) = n
    BY <1>1, <1>2
  <1>7. QED
    BY <1>2, <1>3, <1>5, <1>6

\* The first candidate and those behind it.
LEMMA LeftTyped ==
    ASSUME MemoryTypeOK, writer.left # <<>>
    PROVE  /\ Head(writer.left) \in Candidate
           /\ Head(writer.left) = writer.left[1] /\ 1 \in 1..Len(writer.left)
           /\ Tail(writer.left) \in Seq(Candidate)
           /\ Len(Tail(writer.left)) = Len(writer.left) - 1
           /\ \A i \in 1..Len(Tail(writer.left)) :
                 Tail(writer.left)[i] = writer.left[i + 1] /\ i + 1 \in 1..Len(writer.left)
           /\ Len(writer.left) \in Nat \ {0}
  <1>1. writer.left \in Seq(Candidate)
    BY DEF MemoryTypeOK
  <1> DEFINE s == writer.left
  <1>2. s \in Seq(Candidate) /\ s # <<>>
    BY <1>1
  <1> HIDE DEF s
  <1>3. Len(s) \in Nat \ {0} /\ Head(s) = s[1] /\ s[1] \in Candidate
    BY <1>2
  <1>4. Tail(s) \in Seq(Candidate) /\ Len(Tail(s)) = Len(s) - 1
    BY <1>2
  <1>5. \A i \in 1..Len(Tail(s)) : Tail(s)[i] = s[i + 1] /\ i + 1 \in 1..Len(s)
    BY <1>2, <1>3, <1>4
  <1>6. QED
    BY <1>2, <1>3, <1>4, <1>5 DEF s

LEMMA CandidateParts ==
    ASSUME NEW c \in Candidate
    PROVE  c.kind \in Kinds /\ c.key \in Keys /\ c.content \in Contents
  BY DEF Candidate

LEMMA EntryParts ==
    ASSUME NEW e \in Entry
    PROVE  /\ e.app \in Apps /\ e.kind \in Kinds /\ e.key \in Keys
           /\ e.content \in Contents /\ e.auto \in BOOLEAN /\ e.at \in Nat
  BY DEF Entry

\* The row a put writes.
MemoryRow(app, c, auto, n) ==
    [app |-> app, kind |-> c.kind, key |-> c.key, content |-> c.content,
     auto |-> auto, at |-> n]

LEMMA RowTyped ==
    ASSUME NEW app \in Apps, NEW c \in Candidate, NEW auto \in BOOLEAN, NEW n \in Nat
    PROVE  /\ MemoryRow(app, c, auto, n) \in Entry
           /\ MemoryRow(app, c, auto, n).app = app /\ MemoryRow(app, c, auto, n).kind = c.kind
           /\ MemoryRow(app, c, auto, n).key = c.key /\ MemoryRow(app, c, auto, n).content = c.content
           /\ MemoryRow(app, c, auto, n).auto = auto /\ MemoryRow(app, c, auto, n).at = n
  BY CandidateParts DEF MemoryRow, Entry

\* A put leaves a set of rows, of which one is new.
LEMMA PutTyped ==
    ASSUME MemoryTypeOK, NEW app \in Apps, NEW c \in Candidate, NEW auto \in BOOLEAN,
           Put(app, c, auto)
    PROVE  /\ entries' \subseteq Entry /\ puts' \in 0..MaxPuts /\ puts' = puts + 1
           /\ puts' \in Nat
           /\ entries' = {f \in entries : ~(In(f, app, c.kind) /\ f.key = c.key)}
                         \cup {MemoryRow(app, c, auto, puts')}
  <1>1. puts' \in 0..MaxPuts /\ puts' = puts + 1 /\ puts' \in Nat
    BY MemoriesAssumption DEF MemoryTypeOK, Put
  <1>2. entries' = {f \in entries : ~(In(f, app, c.kind) /\ f.key = c.key)}
                   \cup {MemoryRow(app, c, auto, puts')}
    BY DEF Put, MemoryRow
  <1>3. MemoryRow(app, c, auto, puts') \in Entry
    BY <1>1, RowTyped
  <1>4. entries \subseteq Entry
    BY DEF MemoryTypeOK
  <1>5. QED
    BY <1>1, <1>2, <1>3, <1>4

LEMMA PutNew ==
    ASSUME MemoryTypeOK, NEW app \in Apps, NEW c \in Candidate, NEW auto \in BOOLEAN,
           Put(app, c, auto), NEW e \in entries', e \notin entries
    PROVE  /\ e.app = app /\ e.kind = c.kind /\ e.content = c.content
           /\ e.auto = auto
  <1>1. e = MemoryRow(app, c, auto, puts') /\ puts' \in Nat
    BY PutTyped
  <1>2. QED
    BY <1>1, RowTyped

Writer == [open : BOOLEAN, app : Apps, left : Seq(Candidate),
           dead : SUBSET (Kinds \X Contents), late : SUBSET Tomb]
Reader == [open : BOOLEAN, app : Apps, listed : SUBSET Entry]
Answer == [app : Apps, listed : SUBSET Entry, ranked : SUBSET Entry]

LEMMA DoneTyped ==
    ASSUME MemoryTypeOK
    PROVE  /\ Done \in Writer /\ ~Done.open /\ Done.left = <<>>
           /\ Done.app = writer.app /\ Done.late = {}
  <1>1. writer \in Writer
    BY DEF MemoryTypeOK, Writer
  <1>2. <<>> \in Seq(Candidate)
    BY EmptySeq
  <1>3. Done \in Writer
    BY <1>1, <1>2 DEF Done, Writer
  <1>4. Done.left = <<>> /\ Done.app = writer.app /\ Done.late = {}
    BY <1>1 DEF Done, Writer
  <1>5. ~Done.open
    BY <1>1 DEF Done, Writer
  <1>6. QED
    BY <1>3, <1>4, <1>5

LEMMA AdvancedTyped ==
    ASSUME MemoryTypeOK, writer.left # <<>>
    PROVE  Advanced \in Writer
  BY DoneTyped, LeftTyped DEF MemoryTypeOK, Advanced, Writer

LEMMA Tombs == ASSUME NEW e \in Entry PROVE <<e.app, e.kind, e.content>> \in Tomb
  BY EntryParts DEF Tomb

LEMMA MemoryTypedInit == ASSUME MemoryInit PROVE MemoryTypeOK
  <1>1. (CHOOSE x \in Apps : TRUE) \in Apps
    BY MemoriesAssumption
  <1>2. <<>> \in Seq(Candidate)
    BY EmptySeq
  <1>3. 0 \in 0..MaxPuts
    BY MemoriesAssumption
  <1>4. QED
    BY <1>1, <1>2, <1>3 DEF MemoryInit, MemoryTypeOK

LEMMA WriterTyped ==
    MemoryTypeOK <=> /\ entries \subseteq Entry
                     /\ tombs \subseteq Tomb
                     /\ writer \in Writer
                     /\ puts \in 0..MaxPuts
                     /\ reader \in Reader
                     /\ answer \in Answer
  BY DEF MemoryTypeOK, Writer, Reader, Answer

LEMMA TypedTombstone ==
    ASSUME MemoryTypeOK, NEW e \in entries, Tombstone(e)
    PROVE  MemoryTypeOK'
  <1>1. <<e.app, e.kind, e.content>> \in Tomb
    BY Tombs DEF MemoryTypeOK
  <1>2. writer' \in Writer
    <2>1. writer \in Writer
      BY DEF MemoryTypeOK, Writer
    <2>2. [writer EXCEPT !.late = @ \cup {<<e.app, e.kind, e.content>>}] \in Writer
      BY <1>1, <2>1 DEF Writer
    <2>3. QED
      BY <2>1, <2>2 DEF Tombstone
  <1>3. tombs' \subseteq Tomb
    BY <1>1 DEF MemoryTypeOK, Tombstone
  <1>4. QED
    BY <1>2, <1>3 DEF MemoryTypeOK, Tombstone, Writer

LEMMA TypedStart ==
    ASSUME MemoryTypeOK, NEW app \in Apps, NEW cs \in Candidates, StartWriting(app, cs)
    PROVE  MemoryTypeOK'
  <1>1. cs \in Seq(Candidate)
    BY CandidateTyped
  <1>2. writer' \in Writer
    BY <1>1 DEF StartWriting, Writer
  <1>3. QED
    BY <1>2 DEF MemoryTypeOK, StartWriting, Writer

LEMMA TypedWrite ==
    ASSUME MemoryTypeOK, writer.left # <<>>, WriteNext
    PROVE  MemoryTypeOK'
  <1>1. writer' \in Writer
    BY AdvancedTyped DEF WriteNext
  <1>2. entries' \subseteq Entry /\ puts' \in 0..MaxPuts
    <2>1. CASE UNCHANGED <<entries, puts>>
      BY <2>1 DEF MemoryTypeOK
    <2>2. CASE Put(writer.app, Head(writer.left), TRUE)
      <3>1. writer.app \in Apps /\ Head(writer.left) \in Candidate
        BY LeftTyped DEF MemoryTypeOK
      <3>2. QED
        BY <2>2, <3>1, PutTyped
    <2>3. QED
      BY <2>1, <2>2 DEF WriteNext
  <1>3. QED
    BY <1>1, <1>2 DEF MemoryTypeOK, WriteNext, Writer

\* What a listing and a search return.
LEMMA ListedRows ==
    ASSUME NEW app, NEW e \in listed_memories(app)
    PROVE  e \in entries /\ e.app = app /\ e.kind \in ListedKinds /\ admits(e)
  <1>1. PICK k \in ListedKinds : e \in list_all(app, k, AlwaysTopK)
    BY DEF listed_memories, NewestOf
  <1>2. e \in entries /\ In(e, app, k)
    BY <1>1 DEF list_all, NewestOf
  <1>3. admits(e)
    BY DEF listed_memories, NewestOf
  <1>4. QED
    BY <1>2, <1>3 DEF In

LEMMA FoundRows ==
    ASSUME NEW down \in BOOLEAN, FinishReading(down)
    PROVE  /\ answer' = [app |-> reader.app, listed |-> reader.listed,
                         ranked |-> answer'.ranked]
           /\ \A e \in answer'.ranked :
                 /\ e \in entries /\ e.app = reader.app /\ e.kind \in RankedKinds
                 /\ admits(e)
                 /\ \A f \in reader.listed : f.key # e.key
           /\ \E all \in SUBSET entries :
                 Cardinality(answer'.ranked) =
                    IF Cardinality(all) < TopK THEN Cardinality(all) ELSE TopK
  <1>1. PICK hits \in [RankedKinds -> SUBSET entries] :
          /\ \A k \in RankedKinds :
                IF down THEN hits[k] = {} ELSE hits[k] \in NearestOf(reader.app, k)
          /\ LET seen == {e.key : e \in reader.listed}
                 all  == {e \in UNION {hits[k] : k \in RankedKinds} :
                             admits(e) /\ e.key \notin seen}
             IN  \E ranked \in SUBSET all :
                    /\ Cardinality(ranked) =
                         IF Cardinality(all) < TopK THEN Cardinality(all) ELSE TopK
                    /\ answer' = [app |-> reader.app, listed |-> reader.listed,
                                  ranked |-> ranked]
    BY DEF FinishReading
  <1> DEFINE all == {e \in UNION {hits[k] : k \in RankedKinds} :
                        admits(e) /\ e.key \notin {f.key : f \in reader.listed}}
  <1>2. PICK ranked \in SUBSET all :
           /\ Cardinality(ranked) =
                 IF Cardinality(all) < TopK THEN Cardinality(all) ELSE TopK
           /\ answer' = [app |-> reader.app, listed |-> reader.listed, ranked |-> ranked]
    BY <1>1
  <1>3. answer'.ranked = ranked
    BY <1>2
  <1>4. ASSUME NEW e \in ranked
        PROVE  /\ e \in entries /\ e.app = reader.app /\ e.kind \in RankedKinds
               /\ admits(e)
               /\ \A f \in reader.listed : f.key # e.key
    <2>1. e \in all
      BY <1>2, <1>4
    <2>2. PICK k \in RankedKinds : e \in hits[k]
      BY <2>1
    <2>3. e \in entries /\ In(e, reader.app, k)
      BY <1>1, <2>2 DEF NearestOf
    <2>4. QED
      BY <2>1, <2>2, <2>3 DEF In
  <1>5. all \in SUBSET entries
    BY <1>1
  <1>6. QED
    BY <1>2, <1>3, <1>4, <1>5

LEMMA TypedFinish ==
    ASSUME MemoryTypeOK, NEW down \in BOOLEAN, FinishReading(down)
    PROVE  MemoryTypeOK'
  <1>1. answer' \in Answer
    <2>1. answer'.ranked \subseteq Entry
      BY FoundRows DEF MemoryTypeOK
    <2>2. QED
      BY <2>1, FoundRows DEF MemoryTypeOK, Answer
  <1>2. reader' \in Reader
    BY DEF MemoryTypeOK, FinishReading, Reader
  <1>3. QED
    BY <1>1, <1>2, WriterTyped DEF MemoryTypeOK, FinishReading, Reader, Answer

-----------------------------------------------------------------------------
(* Memories: the invariant.                                                 *)

\* Two rows are of two stamps and of two names, and no stamp is of the future.
StoreRows ==
    /\ IsFiniteSet(entries)
    /\ \A e \in entries : e.at <= puts
    /\ \A e, f \in entries : e.at = f.at => e = f
    /\ \A e, f \in entries : e.app = f.app /\ e.kind = f.kind /\ e.key = f.key => e = f

\* What the turn has still to write and was pruned before it began is found dead.
WriterFound ==
    writer.open =>
        /\ writer.left # <<>>
        /\ \A i \in 1..Len(writer.left) :
              <<writer.app, writer.left[i].kind, writer.left[i].content>>
                    \in tombs \ writer.late
              => <<writer.left[i].kind, writer.left[i].content>> \in writer.dead

\* A listing is of the reader's application and of what is listed, inside its budget.
ListingInScope ==
    /\ \A e \in reader.listed : e.app = reader.app /\ e.kind \in ListedKinds /\ admits(e)
    /\ \A e, f \in reader.listed : e.kind = f.kind /\ e.key = f.key => e = f
    /\ Cardinality(reader.listed) <= AlwaysTopK

MemoryInv == MemoryTypeOK /\ StoreRows /\ WriterFound /\ ListingInScope /\ AnswerInScope

LEMMA MemoryInvInit == ASSUME MemoryInit PROVE MemoryInv
  <1>1. IsFiniteSet({}) /\ Cardinality({}) = 0
    BY FS_EmptySet
  <1>2. 0 <= AlwaysTopK /\ 0 <= TopK
    BY MemoriesAssumption
  <1>3. StoreRows /\ WriterFound
    BY <1>1 DEF MemoryInit, StoreRows, WriterFound
  <1>4. ListingInScope /\ AnswerInScope
    BY <1>1, <1>2 DEF MemoryInit, ListingInScope, AnswerInScope
  <1>5. QED
    BY MemoryTypedInit, <1>3, <1>4 DEF MemoryInv

\* A put gives the row it writes a stamp and a name of its own.
LEMMA PutRows ==
    ASSUME MemoryTypeOK, StoreRows, NEW app \in Apps, NEW c \in Candidate,
           NEW auto \in BOOLEAN, Put(app, c, auto)
    PROVE  StoreRows'
  <1> DEFINE r == MemoryRow(app, c, auto, puts')
             kept == {f \in entries : ~(In(f, app, c.kind) /\ f.key = c.key)}
  <1>1. /\ entries' = kept \cup {r} /\ puts' = puts + 1 /\ puts' \in Nat /\ puts \in Nat
    BY PutTyped DEF MemoryTypeOK
  <1>2. r.app = app /\ r.kind = c.kind /\ r.key = c.key /\ r.at = puts'
    BY <1>1, RowTyped
  <1> HIDE DEF r
  <1>3. IsFiniteSet(entries')
    BY <1>1, FS_Subset, FS_AddElement DEF StoreRows
  <1>4. \A e \in kept : e \in entries /\ e.at \in Nat /\ e.at <= puts
    BY EntryParts DEF MemoryTypeOK, StoreRows
  <1>5. \A e \in kept : e.at # r.at /\ ~(e.app = r.app /\ e.kind = r.kind /\ e.key = r.key)
    BY <1>1, <1>2, <1>4 DEF In
  <1>6. \A e \in entries' : e.at <= puts'
    BY <1>1, <1>2, <1>4
  <1>7. \A e, f \in entries' : e.at = f.at => e = f
    BY <1>1, <1>4, <1>5 DEF StoreRows
  <1>8. \A e, f \in entries' : e.app = f.app /\ e.kind = f.kind /\ e.key = f.key => e = f
    BY <1>1, <1>4, <1>5 DEF StoreRows
  <1>9. QED
    BY <1>3, <1>6, <1>7, <1>8 DEF StoreRows

\* A listing is inside its budget and holds no memory twice.
LEMMA ListedInScope ==
    ASSUME MemoryTypeOK, StoreRows, NEW app \in Apps
    PROVE  /\ \A e \in listed_memories(app) :
                 e \in Entry /\ e.app = app /\ e.kind \in ListedKinds /\ admits(e)
           /\ \A e, f \in listed_memories(app) : e.kind = f.kind /\ e.key = f.key => e = f
           /\ Cardinality(listed_memories(app)) <= AlwaysTopK
  <1>1. \A e \in listed_memories(app) :
           e \in entries /\ e.app = app /\ e.kind \in ListedKinds /\ admits(e)
    BY ListedRows
  <1>2. \A e, f \in listed_memories(app) : e.kind = f.kind /\ e.key = f.key => e = f
    BY <1>1 DEF StoreRows
  <1> DEFINE found == {e \in UNION {list_all(app, k, AlwaysTopK) : k \in ListedKinds} : admits(e)}
  <1>3. found \subseteq entries
    BY DEF list_all, NewestOf
  <1>4. IsFiniteSet(found)
    BY <1>3, FS_Subset DEF StoreRows
  <1>5. /\ \A e \in found : e.at \in Nat
        /\ \A e, f \in found : e.at = f.at => e = f
    BY <1>3, EntryParts DEF StoreRows, MemoryTypeOK
  <1>6. listed_memories(app) = NewestOf(found, AlwaysTopK)
    BY DEF listed_memories
  <1> HIDE DEF found
  <1>7. AlwaysTopK \in Nat
    BY MemoriesAssumption
  <1>8. Cardinality(listed_memories(app)) <= AlwaysTopK
    BY <1>4, <1>5, <1>6, <1>7, NewestBounded
  <1>9. QED
    BY <1>1, <1>2, <1>8 DEF MemoryTypeOK

-----------------------------------------------------------------------------
(* Memories: every step keeps it.                                           *)

LEMMA RememberKeeps ==
    ASSUME MemoryInv, NEW app \in Apps, NEW c \in Candidate, Remember(app, c)
    PROVE  MemoryInv'
  <1>1. Put(app, c, FALSE) /\ UNCHANGED <<tombs, writer, reader, answer>>
    BY DEF Remember
  <1>2. MemoryTypeOK'
    BY <1>1, PutTyped DEF MemoryInv, MemoryTypeOK
  <1>3. StoreRows'
    BY <1>1, PutRows DEF MemoryInv
  <1>4. WriterFound'
    BY <1>1 DEF MemoryInv, WriterFound
  <1>5. ListingInScope' /\ AnswerInScope'
    BY <1>1 DEF MemoryInv, ListingInScope, AnswerInScope, admits
  <1>6. QED
    BY <1>2, <1>3, <1>4, <1>5 DEF MemoryInv

LEMMA TombstoneKeeps ==
    ASSUME MemoryInv, NEW e \in entries, Tombstone(e)
    PROVE  MemoryInv'
  <1> DEFINE mark == <<e.app, e.kind, e.content>>
  <1>1. MemoryTypeOK'
    BY TypedTombstone DEF MemoryInv
  <1>2. StoreRows'
    BY DEF MemoryInv, StoreRows, Tombstone
  <1>3. WriterFound'
    <2>1. /\ writer'.open = writer.open /\ writer'.left = writer.left
          /\ writer'.app = writer.app /\ writer'.dead = writer.dead
      BY DEF MemoryInv, MemoryTypeOK, Tombstone
    <2>2. writer.open => tombs' \ writer'.late \subseteq tombs \ writer.late
      <3>1. CASE writer.open /\ mark \notin tombs
        <4>1. writer'.late = writer.late \cup {mark}
          BY <3>1 DEF MemoryInv, MemoryTypeOK, Tombstone
        <4>2. QED
          BY <4>1 DEF Tombstone
      <3>2. CASE mark \in tombs
        BY <3>2 DEF Tombstone
      <3>3. QED
        BY <3>1, <3>2
    <2>3. QED
      BY <2>1, <2>2 DEF MemoryInv, WriterFound
  <1>4. ListingInScope' /\ AnswerInScope'
    BY DEF MemoryInv, ListingInScope, AnswerInScope, admits, Tombstone
  <1>5. QED
    BY <1>1, <1>2, <1>3, <1>4 DEF MemoryInv

LEMMA DeleteKeeps ==
    ASSUME MemoryInv, NEW e \in entries, DeleteMemory(e)
    PROVE  MemoryInv'
  <1>1. entries' \subseteq entries /\ UNCHANGED <<tombs, writer, puts, reader, answer>>
    BY DEF DeleteMemory
  <1>2. MemoryTypeOK'
    BY <1>1 DEF MemoryInv, MemoryTypeOK
  <1>3. StoreRows'
    BY <1>1, FS_Subset DEF MemoryInv, StoreRows
  <1>4. WriterFound' /\ ListingInScope' /\ AnswerInScope'
    BY <1>1 DEF MemoryInv, WriterFound, ListingInScope, AnswerInScope, admits
  <1>5. QED
    BY <1>2, <1>3, <1>4 DEF MemoryInv

LEMMA StartKeeps ==
    ASSUME MemoryInv, NEW app \in Apps, NEW cs \in Candidates, StartWriting(app, cs)
    PROVE  MemoryInv'
  <1>1. MemoryTypeOK'
    BY TypedStart DEF MemoryInv
  <1>2. WriterFound'
    <2>1. cs \in Seq(Candidate) /\ cs # <<>> /\ DOMAIN cs = 1..Len(cs)
      BY CandidateTyped
    <2>2. /\ writer'.left = cs /\ writer'.app = app /\ writer'.late = {} /\ tombs' = tombs
          /\ writer'.dead = {m \in Kinds \X Contents :
                /\ <<app, m[1], m[2]>> \in tombs
                /\ \E i \in DOMAIN cs : <<cs[i].kind, cs[i].content>> = m}
      BY DEF StartWriting
    <2>3. ASSUME NEW i \in 1..Len(cs), <<app, cs[i].kind, cs[i].content>> \in tombs
          PROVE  <<cs[i].kind, cs[i].content>> \in writer'.dead
      <3>1. cs[i] \in Candidate
        BY <2>1
      <3>2. <<cs[i].kind, cs[i].content>> \in Kinds \X Contents
        BY <3>1, CandidateParts
      <3>3. QED
        BY <2>1, <2>2, <2>3, <3>2
    <2>4. QED
      BY <2>1, <2>2, <2>3 DEF WriterFound
  <1>3. StoreRows'
    BY DEF MemoryInv, StoreRows, StartWriting
  <1>4. ListingInScope' /\ AnswerInScope'
    BY DEF MemoryInv, ListingInScope, AnswerInScope, admits, StartWriting
  <1>5. QED
    BY <1>1, <1>2, <1>3, <1>4 DEF MemoryInv

LEMMA WriteKeeps ==
    ASSUME MemoryInv, WriteNext
    PROVE  MemoryInv'
  <1>1. writer.open /\ writer.left # <<>> /\ MemoryTypeOK
    BY DEF MemoryInv, WriterFound, WriteNext
  <1>2. MemoryTypeOK'
    BY <1>1, TypedWrite
  <1>3. StoreRows'
    <2>1. CASE UNCHANGED <<entries, puts>>
      BY <2>1 DEF MemoryInv, StoreRows
    <2>2. CASE Put(writer.app, Head(writer.left), TRUE)
      <3>1. writer.app \in Apps /\ Head(writer.left) \in Candidate
        BY <1>1, LeftTyped DEF MemoryTypeOK
      <3>2. QED
        BY <2>2, <3>1, PutRows DEF MemoryInv
    <2>3. QED
      BY <2>1, <2>2 DEF WriteNext
  <1>4. WriterFound'
    <2>1. CASE Len(writer.left) = 1
      <3>1. ~writer'.open
        BY <1>1, <2>1, DoneTyped DEF WriteNext, Advanced
      <3>2. QED
        BY <3>1 DEF WriterFound
    <2>2. CASE Len(writer.left) # 1
      <3>1. /\ writer'.left = Tail(writer.left) /\ writer'.app = writer.app
            /\ writer'.late = writer.late /\ writer'.dead = writer.dead /\ tombs' = tombs
        BY <1>1, <2>2 DEF WriteNext, Advanced, MemoryTypeOK
      <3>2. /\ Len(Tail(writer.left)) = Len(writer.left) - 1
            /\ \A i \in 1..Len(Tail(writer.left)) :
                  Tail(writer.left)[i] = writer.left[i + 1] /\ i + 1 \in 1..Len(writer.left)
            /\ Len(writer.left) \in Nat \ {0}
        BY <1>1, LeftTyped
      <3>3. Tail(writer.left) # <<>>
        <4>1. Len(Tail(writer.left)) # 0
          BY <3>2, <2>2
        <4>2. Len(<<>>) = 0
          OBVIOUS
        <4>3. QED
          BY <4>1, <4>2
      <3>4. QED
        BY <1>1, <3>1, <3>2, <3>3 DEF MemoryInv, WriterFound
    <2>3. QED
      BY <2>1, <2>2
  <1>5. ListingInScope' /\ AnswerInScope'
    BY DEF MemoryInv, ListingInScope, AnswerInScope, admits, WriteNext
  <1>6. QED
    BY <1>2, <1>3, <1>4, <1>5 DEF MemoryInv

LEMMA FailureKeeps ==
    ASSUME MemoryInv, WriteFails
    PROVE  MemoryInv'
  <1>1. writer' = Done /\ UNCHANGED <<entries, tombs, puts, reader, answer>>
    BY DEF WriteFails
  <1>2. writer' \in Writer /\ ~writer'.open
    BY <1>1, DoneTyped DEF MemoryInv
  <1>3. MemoryTypeOK'
    BY <1>1, <1>2 DEF MemoryInv, MemoryTypeOK, Writer
  <1>4. StoreRows' /\ WriterFound'
    BY <1>1, <1>2 DEF MemoryInv, StoreRows, WriterFound
  <1>5. ListingInScope' /\ AnswerInScope'
    BY <1>1 DEF MemoryInv, ListingInScope, AnswerInScope, admits
  <1>6. QED
    BY <1>3, <1>4, <1>5 DEF MemoryInv

LEMMA ListingKeeps ==
    ASSUME MemoryInv, NEW app \in Apps, StartReading(app)
    PROVE  MemoryInv'
  <1>1. /\ reader' = [open |-> TRUE, app |-> app, listed |-> listed_memories(app)]
        /\ UNCHANGED <<entries, tombs, writer, puts, answer>>
    BY DEF StartReading
  <1>2. reader'.app = app /\ reader'.listed = listed_memories(app)
    BY <1>1
  <1>3. listed_memories(app) \subseteq Entry
    BY ListedInScope DEF MemoryInv
  <1>4. MemoryTypeOK'
    BY <1>1, <1>3 DEF MemoryInv, MemoryTypeOK
  <1>5. ListingInScope'
    BY <1>2, ListedInScope DEF MemoryInv, ListingInScope, admits
  <1>6. StoreRows' /\ WriterFound' /\ AnswerInScope'
    BY <1>1 DEF MemoryInv, StoreRows, WriterFound, AnswerInScope, admits
  <1>7. QED
    BY <1>4, <1>5, <1>6 DEF MemoryInv

LEMMA AnswerKeeps ==
    ASSUME MemoryInv, NEW down \in BOOLEAN, FinishReading(down)
    PROVE  MemoryInv'
  <1>1. MemoryTypeOK'
    BY TypedFinish DEF MemoryInv
  <1>2. StoreRows' /\ WriterFound'
    BY DEF MemoryInv, StoreRows, WriterFound, FinishReading
  <1>3. reader'.listed = {}
    BY DEF MemoryInv, MemoryTypeOK, FinishReading
  <1>4. ListingInScope'
    BY <1>3, FS_EmptySet, MemoriesAssumption DEF ListingInScope
  <1>5. AnswerInScope'
    <2>1. answer'.app = reader.app /\ answer'.listed = reader.listed
      BY FoundRows
    <2>2. \A e \in answer'.ranked :
             /\ e \in entries /\ e.app = reader.app /\ e.kind \in RankedKinds /\ admits(e)
             /\ \A f \in reader.listed : f.key # e.key
      BY FoundRows
    <2>3. \A e, f \in answer'.ranked : e.kind = f.kind /\ e.key = f.key => e = f
      BY <2>2 DEF MemoryInv, StoreRows
    <2>4. Cardinality(answer'.ranked) <= TopK
      <3>1. PICK all \in SUBSET entries :
               Cardinality(answer'.ranked) =
                  IF Cardinality(all) < TopK THEN Cardinality(all) ELSE TopK
        BY FoundRows
      <3>2. Cardinality(all) \in Nat
        BY FS_Subset, FS_CardinalityType DEF MemoryInv, StoreRows
      <3>3. QED
        BY <3>1, <3>2, MemoriesAssumption
    <2>5. ListingInScope
      BY DEF MemoryInv
    <2>6. QED
      BY <2>1, <2>2, <2>3, <2>4, <2>5 DEF AnswerInScope, ListingInScope, admits
  <1>6. QED
    BY <1>1, <1>2, <1>4, <1>5 DEF MemoryInv

LEMMA MemoryInvNext == ASSUME MemoryInv, [MemoryNext]_memoryVars PROVE MemoryInv'
  <1>1. CASE \E app \in Apps, c \in Candidate : Remember(app, c)
    BY <1>1, RememberKeeps
  <1>2. CASE \E e \in entries : Tombstone(e) \/ DeleteMemory(e)
    BY <1>2, TombstoneKeeps, DeleteKeeps
  <1>3. CASE \E app \in Apps, cs \in Candidates : StartWriting(app, cs)
    BY <1>3, StartKeeps
  <1>4. CASE WriteNext \/ WriteFails
    BY <1>4, WriteKeeps, FailureKeeps
  <1>5. CASE \E app \in Apps : StartReading(app)
    BY <1>5, ListingKeeps
  <1>6. CASE \E down \in BOOLEAN : FinishReading(down)
    BY <1>6, AnswerKeeps
  <1>7. CASE UNCHANGED memoryVars
    BY <1>7 DEF memoryVars, MemoryInv, MemoryTypeOK, StoreRows, WriterFound, ListingInScope,
                AnswerInScope, admits
  <1>8. QED
    BY <1>1, <1>2, <1>3, <1>4, <1>5, <1>6, <1>7 DEF MemoryNext

-----------------------------------------------------------------------------
(* Memories: the theorems.                                                  *)

LEMMA MemoryInvAlways == MemorySpec => []MemoryInv
  BY MemoryInvInit, MemoryInvNext, PTL DEF MemorySpec

\* The rows, marks, turns and answers of memory keep their types.
THEOREM MemoryTypeCorrect == MemorySpec => []MemoryTypeOK
  <1>1. MemoryInv => MemoryTypeOK
    BY DEF MemoryInv
  <1>2. QED
    BY <1>1, MemoryInvAlways, PTL

\* Whatever is written, pruned or deleted between the listing and the search, an
\* answer of retrieve_relevant_memories is of the caller's application and of what
\* its scope admits, holds no memory twice and stays inside its two budgets.
THEOREM AnswerAlwaysInScope == MemorySpec => []AnswerInScope
  <1>1. MemoryInv => AnswerInScope
    BY DEF MemoryInv
  <1>2. QED
    BY <1>1, MemoryInvAlways, PTL

\* What was pruned before a turn began to write its candidates is written back by
\* none of its writes, whichever of them fail.
THEOREM PrunedStays == MemorySpec => PrunedBeforeStaysGone
  <1>1. ASSUME MemoryInv, [MemoryNext]_memoryVars
        PROVE  [\A e \in entries' \ entries :
                  e.auto => <<e.app, e.kind, e.content>> \notin tombs \ writer.late]_memoryVars
    <2>1. SUFFICES ASSUME MemoryNext, NEW e \in entries', e \notin entries, e.auto
                   PROVE  <<e.app, e.kind, e.content>> \notin tombs \ writer.late
      BY <1>1
    <2>2. MemoryTypeOK
      BY <1>1 DEF MemoryInv
    <2>3. CASE \E app \in Apps, c \in Candidate : Remember(app, c)
      <3>1. PICK app \in Apps, c \in Candidate : Remember(app, c)
        BY <2>3
      <3>2. Put(app, c, FALSE)
        BY <3>1 DEF Remember
      <3>3. FALSE \in BOOLEAN
        OBVIOUS
      <3>4. e.auto = FALSE
        BY ONLY <2>1, <2>2, <3>2, <3>3, PutNew, Zenon
      <3>5. QED
        BY <2>1, <3>4
    <2>4. CASE WriteNext
      <3> DEFINE c == Head(writer.left)
      <3>1. writer.open /\ writer.left # <<>>
        BY <1>1, <2>4 DEF MemoryInv, WriterFound, WriteNext
      <3>2. <<c.kind, c.content>> \notin writer.dead /\ Put(writer.app, c, TRUE)
        BY <2>1, <2>4 DEF WriteNext
      <3>3. writer.app \in Apps /\ c \in Candidate /\ c = writer.left[1]
            /\ 1 \in 1..Len(writer.left)
        BY <2>2, <3>1, LeftTyped DEF MemoryTypeOK
      <3>4. TRUE \in BOOLEAN
        OBVIOUS
      <3>5. e.app = writer.app /\ e.kind = c.kind /\ e.content = c.content
        BY ONLY <2>1, <2>2, <3>2, <3>3, <3>4, PutNew, Zenon
      <3>6. QED
        BY <1>1, <3>1, <3>2, <3>3, <3>5 DEF MemoryInv, WriterFound
    <2>5. CASE UNCHANGED entries \/ \E f \in entries : DeleteMemory(f)
      BY <2>1, <2>5 DEF DeleteMemory
    <2>6. QED
      BY <2>1, <2>3, <2>4, <2>5 DEF MemoryNext, Tombstone, StartWriting, WriteFails,
                                     StartReading, FinishReading
  <1>2. QED
    BY <1>1, MemoryInvAlways, PTL DEF MemorySpec, PrunedBeforeStaysGone

\* A row is missing from a listing for as many newer rows as the budget has places.
LEMMA MissedForNewer ==
    ASSUME MemoryTypeOK, StoreRows, NEW app \in Apps,
           NEW e \in AdmittedListing(app), e \notin listed_memories(app)
    PROVE  AlwaysTopK <= Cardinality(ListableNewer(app, e))
  <1> DEFINE newer == ListableNewer(app, e)
  <1>1. IsFiniteSet(newer) /\ Cardinality(newer) \in Nat
    BY FS_Subset, FS_CardinalityType DEF StoreRows, ListableNewer
  <1>2. ASSUME NEW S, S \subseteq newer, ~(Cardinality(S) < AlwaysTopK)
        PROVE  AlwaysTopK <= Cardinality(newer)
    <2>1. Cardinality(S) <= Cardinality(newer) /\ Cardinality(S) \in Nat
      BY <1>1, <1>2, FS_Subset, FS_CardinalityType
    <2>2. QED
      BY <1>1, <1>2, <2>1, MemoriesAssumption
  <1>3. e \in entries /\ e.app = app /\ e.kind \in ListedKinds /\ admits(e)
    BY DEF AdmittedListing
  <1> DEFINE ofKind == {f \in entries : In(f, app, e.kind)}
             found == {f \in UNION {list_all(app, k, AlwaysTopK) : k \in ListedKinds} : admits(f)}
  <1>4. CASE e \notin list_all(app, e.kind, AlwaysTopK)
    <2>1. ~(Cardinality({f \in ofKind : f.at > e.at}) < AlwaysTopK)
      BY <1>3, <1>4 DEF list_all, NewestOf, In
    <2>2. {f \in ofKind : f.at > e.at} \subseteq newer
      BY <1>3 DEF In, ListableNewer
    <2>3. QED
      BY <1>2, <2>1, <2>2
  <1>5. CASE e \in list_all(app, e.kind, AlwaysTopK)
    <2>1. e \in found
      BY <1>3, <1>5
    <2>2. ~(Cardinality({f \in found : f.at > e.at}) < AlwaysTopK)
      BY <2>1 DEF listed_memories, NewestOf
    <2>3. \A f \in found : f \in entries /\ f.app = app /\ f.kind \in ListedKinds
      BY DEF list_all, NewestOf, In
    <2>4. {f \in found : f.at > e.at} \subseteq newer
      BY <2>3 DEF ListableNewer
    <2>5. QED
      BY <1>2, <2>2, <2>4
  <1>6. QED
    BY <1>4, <1>5

\* A listing leaves a memory its scope admits out only for newer rows of the
\* always-kinds, as many as its budget; rows the scope does not admit count among
\* them, because _listed_memories filters behind the budget.
THEOREM ListingAlwaysMissesForNewer == MemorySpec => ListingMissesForNewer
  <1>1. ASSUME MemoryInv, [MemoryNext]_memoryVars
        PROVE  [\A app \in Apps : reader'.open /\ ~reader.open /\ reader'.app = app =>
                  \A e \in AdmittedListing(app) \ reader'.listed :
                    AlwaysTopK <= Cardinality(ListableNewer(app, e))]_memoryVars
    <2>1. SUFFICES ASSUME MemoryNext, NEW app \in Apps, reader'.open, ~reader.open,
                          reader'.app = app, NEW e \in AdmittedListing(app),
                          e \notin reader'.listed
                   PROVE  AlwaysTopK <= Cardinality(ListableNewer(app, e))
      BY <1>1
    <2>2. PICK a \in Apps : StartReading(a)
      <3>1. \A down \in BOOLEAN : ~FinishReading(down)
        BY <2>1 DEF FinishReading
      <3>2. UNCHANGED reader => FALSE
        BY <2>1, Zenon
      <3>3. /\ \A b \in Apps, c \in Candidate : ~Remember(b, c)
            /\ \A f \in entries : ~(Tombstone(f) \/ DeleteMemory(f))
            /\ \A b \in Apps, cs \in Candidates : ~StartWriting(b, cs)
            /\ ~(WriteNext \/ WriteFails)
        BY <3>2 DEF Remember, Tombstone, DeleteMemory, StartWriting, WriteNext, WriteFails
      <3>4. QED
        BY <2>1, <3>1, <3>3, Zenon DEF MemoryNext
    <2>3. reader'.app = a /\ reader'.listed = listed_memories(a)
      BY <2>2 DEF StartReading
    <2>4. e \notin listed_memories(app)
      BY <2>1, <2>3
    <2>5. QED
      BY <1>1, <2>1, <2>4, MissedForNewer DEF MemoryInv
  <1>2. QED
    BY <1>1, MemoryInvAlways, PTL DEF MemorySpec, ListingMissesForNewer

-----------------------------------------------------------------------------
(* Sums.  MapThenSumSet is a recursive function on the subsets of its set: *)
(* that there is one, and that the order of its choices is no matter, is   *)
(* shown by the smallest set for which it would fail.                      *)

\* Among subsets of a finite set one is the smallest.
LEMMA SmallestSet ==
    ASSUME NEW S, IsFiniteSet(S), NEW Bad \in SUBSET (SUBSET S), Bad # {}
    PROVE  \E T \in Bad : \A U \in SUBSET S : Cardinality(U) < Cardinality(T) => U \notin Bad
  <1>1. \A T \in SUBSET S : IsFiniteSet(T) /\ Cardinality(T) \in Nat
    BY FS_Subset, FS_CardinalityType
  <1> DEFINE sizes == {Cardinality(T) : T \in Bad}
  <1>2. sizes \in SUBSET Nat /\ sizes # {}
    BY <1>1
  <1>3. PICK i \in sizes : \A j \in sizes : i <= j
    BY <1>2, LeastNumber
  <1>4. PICK T \in Bad : Cardinality(T) = i
    BY <1>3
  <1>5. ASSUME NEW U \in SUBSET S, Cardinality(U) < Cardinality(T), U \in Bad PROVE FALSE
    <2>1. i <= Cardinality(U)
      BY <1>3, <1>5
    <2>2. i \in Nat /\ Cardinality(U) \in Nat
      BY <1>1, <1>2
    <2>3. QED
      BY <1>4, <1>5, <2>1, <2>2
  <1>6. QED
    BY <1>5

Chosen(T) == CHOOSE x \in T : TRUE

LEMMA ChosenIn == ASSUME NEW T, T # {} PROVE Chosen(T) \in T
  BY DEF Chosen

LEMMA Smaller ==
    ASSUME NEW S, IsFiniteSet(S), NEW T \in SUBSET S, NEW x \in T
    PROVE  /\ T \ {x} \in SUBSET S /\ Cardinality(T \ {x}) < Cardinality(T)
           /\ Cardinality(T) = Cardinality(T \ {x}) + 1
           /\ Cardinality(T) \in Nat /\ Cardinality(T \ {x}) \in Nat
  <1>1. IsFiniteSet(T) /\ Cardinality(T) \in Nat
    BY FS_Subset, FS_CardinalityType
  <1>2. IsFiniteSet(T \ {x}) /\ Cardinality(T \ {x}) = Cardinality(T) - 1
    BY <1>1, FS_RemoveElement
  <1>3. Cardinality(T \ {x}) \in Nat
    BY <1>2, FS_CardinalityType
  <1>4. QED
    BY <1>1, <1>2, <1>3

\* g sums f over the sets of D.
SumsOn(g, f, D) ==
    g = [T \in D |-> IF T = {} THEN 0 ELSE f[Chosen(T)] + g[T \ {Chosen(T)}]]

LEMMA TotalOfSums ==
    ASSUME NEW f, NEW S, NEW g, SumsOn(g, f, SUBSET S)
    PROVE  \E h : SumsOn(h, f, SUBSET S) /\ Total(f, S) = h[S]
  BY DEF SumsOn, Chosen, Total, MapThenSumSet, MapThenFoldSet

Upto(S, n) == {T \in SUBSET S : Cardinality(T) <= n}

LEMMA SumsUpto ==
    ASSUME NEW S, IsFiniteSet(S), NEW f, NEW n \in Nat
    PROVE  \E g : SumsOn(g, f, Upto(S, n))
  <1> DEFINE bad == {m \in Nat : ~ \E g : SumsOn(g, f, Upto(S, m))}
  <1>1. SUFFICES ASSUME bad # {} PROVE FALSE
    OBVIOUS
  <1>2. PICK m \in bad : \A k \in bad : m <= k
    BY <1>1, LeastNumber
  <1>3. m \in Nat /\ ~ \E g : SumsOn(g, f, Upto(S, m))
    BY <1>2
  <1>4. CASE m = 0
    <2> DEFINE g == [T \in Upto(S, 0) |-> 0]
    <2>1. ASSUME NEW T \in Upto(S, 0) PROVE T = {}
      <3>1. IsFiniteSet(T) /\ Cardinality(T) \in Nat /\ Cardinality(T) <= 0
        BY FS_Subset, FS_CardinalityType DEF Upto
      <3>2. Cardinality(T) = 0
        BY <3>1
      <3>3. QED
        BY <3>1, <3>2, FS_EmptySet
    <2>2. SumsOn(g, f, Upto(S, 0))
      BY <2>1 DEF SumsOn
    <2>3. QED
      BY <1>3, <1>4, <2>2
  <1>5. CASE m # 0
    <2>1. m - 1 \in Nat /\ m - 1 \notin bad
      BY <1>2, <1>3, <1>5
    <2>2. PICK g : SumsOn(g, f, Upto(S, m - 1))
      BY <2>1
    <2> DEFINE h == [T \in Upto(S, m) |->
                       IF T = {} THEN 0 ELSE f[Chosen(T)] + g[T \ {Chosen(T)}]]
    <2>3. ASSUME NEW T \in Upto(S, m), T # {}
          PROVE  T \ {Chosen(T)} \in Upto(S, m - 1) /\ T \ {Chosen(T)} \in Upto(S, m)
      <3>1. Chosen(T) \in T /\ T \in SUBSET S /\ Cardinality(T) <= m
        BY <2>3, ChosenIn DEF Upto
      <3>2. /\ T \ {Chosen(T)} \in SUBSET S
            /\ Cardinality(T) = Cardinality(T \ {Chosen(T)}) + 1
            /\ Cardinality(T) \in Nat /\ Cardinality(T \ {Chosen(T)}) \in Nat
        BY <3>1, Smaller
      <3>3. QED
        BY <1>3, <3>1, <3>2 DEF Upto
    <2>4. ASSUME NEW T \in Upto(S, m - 1)
          PROVE  T \in Upto(S, m) /\ h[T] = g[T]
      <3>1. Cardinality(T) \in Nat
        BY FS_Subset, FS_CardinalityType DEF Upto
      <3>2. T \in Upto(S, m)
        BY <1>3, <3>1 DEF Upto
      <3>3. g[T] = IF T = {} THEN 0 ELSE f[Chosen(T)] + g[T \ {Chosen(T)}]
        BY <2>2 DEF SumsOn
      <3>4. QED
        BY <3>2, <3>3
    <2>5. ASSUME NEW T \in Upto(S, m), T # {}
          PROVE  g[T \ {Chosen(T)}] = h[T \ {Chosen(T)}]
      BY <2>3, <2>4, <2>5
    <2>6. h = [T \in Upto(S, m) |->
                 IF T = {} THEN 0 ELSE f[Chosen(T)] + h[T \ {Chosen(T)}]]
      BY <2>5
    <2>7. SumsOn(h, f, Upto(S, m))
      BY <2>6 DEF SumsOn
    <2>8. QED
      BY <1>3, <2>7
  <1>6. QED
    BY <1>4, <1>5

LEMMA SumsExist ==
    ASSUME NEW S, IsFiniteSet(S), NEW f
    PROVE  \E g : SumsOn(g, f, SUBSET S)
  <1>1. Cardinality(S) \in Nat
    BY FS_CardinalityType
  <1>2. Upto(S, Cardinality(S)) = SUBSET S
    BY FS_Subset DEF Upto
  <1>3. \E g : SumsOn(g, f, Upto(S, Cardinality(S)))
    BY <1>1, SumsUpto
  <1>4. QED
    BY <1>2, <1>3

SameOn(e, f, S) == \A x \in S : e[x] = f[x]

\* Two such functions agree where their values do.
LEMMA SumsAgree ==
    ASSUME NEW S, NEW R, NEW f, NEW e, NEW g, NEW h, IsFiniteSet(S),
           S \in SUBSET R, SameOn(e, f, S),
           SumsOn(g, e, SUBSET S), SumsOn(h, f, SUBSET R)
    PROVE  g[S] = h[S]
  <1> DEFINE bad == {T \in SUBSET S : g[T] # h[T]}
  <1>1. SUFFICES ASSUME bad # {} PROVE FALSE
    OBVIOUS
  <1>10. bad \in SUBSET (SUBSET S)
    OBVIOUS
  <1> HIDE DEF bad
  <1>2. PICK T \in bad : \A U \in SUBSET S : Cardinality(U) < Cardinality(T) => U \notin bad
    BY <1>1, <1>10, SmallestSet
  <1> USE DEF bad
  <1>3. T \in SUBSET S /\ T \in SUBSET R /\ g[T] # h[T]
    BY <1>2
  <1>4. /\ g[T] = IF T = {} THEN 0 ELSE e[Chosen(T)] + g[T \ {Chosen(T)}]
        /\ h[T] = IF T = {} THEN 0 ELSE f[Chosen(T)] + h[T \ {Chosen(T)}]
    BY <1>3 DEF SumsOn
  <1>5. T # {} /\ Chosen(T) \in T
    BY <1>3, <1>4, ChosenIn
  <1>6. T \ {Chosen(T)} \in SUBSET S /\ Cardinality(T \ {Chosen(T)}) < Cardinality(T)
    BY <1>3, <1>5, Smaller
  <1>7. g[T \ {Chosen(T)}] = h[T \ {Chosen(T)}]
    BY <1>2, <1>6
  <1>8. e[Chosen(T)] = f[Chosen(T)]
    BY <1>3, <1>5 DEF SameOn
  <1>9. QED
    BY <1>3, <1>4, <1>5, <1>7, <1>8

\* What the sum over a set is: nothing of none, and of a set the chosen value and
\* the sum over the others.
LEMMA TotalEmpty == ASSUME NEW f PROVE Total(f, {}) = 0
  <1>1. IsFiniteSet({})
    BY FS_EmptySet
  <1>2. PICK g : SumsOn(g, f, SUBSET {})
    BY <1>1, SumsExist
  <1>3. PICK h : SumsOn(h, f, SUBSET {}) /\ Total(f, {}) = h[{}]
    BY <1>2, TotalOfSums
  <1>4. h[{}] = 0
    BY <1>3 DEF SumsOn
  <1>5. QED
    BY <1>3, <1>4

LEMMA TotalChosen ==
    ASSUME NEW S, IsFiniteSet(S), S # {}, NEW f
    PROVE  Total(f, S) = f[Chosen(S)] + Total(f, S \ {Chosen(S)})
  <1> DEFINE U == S \ {Chosen(S)}
  <1>1. IsFiniteSet(U) /\ U \subseteq S
    BY FS_Subset
  <1>2. PICK h : SumsOn(h, f, SUBSET S) /\ Total(f, S) = h[S]
    BY SumsExist, TotalOfSums
  <1>3. PICK g : SumsOn(g, f, SUBSET U) /\ Total(f, U) = g[U]
    BY <1>1, SumsExist, TotalOfSums
  <1>4. g[U] = h[U]
    <2>1. IsFiniteSet(U) /\ U \in SUBSET S /\ SameOn(f, f, U)
      BY <1>1 DEF SameOn
    <2>2. SumsOn(g, f, SUBSET U) /\ SumsOn(h, f, SUBSET S)
      BY <1>2, <1>3
    <2> HIDE DEF U
    <2>3. QED
      BY ONLY <2>1, <2>2, SumsAgree
  <1>5. h[S] = f[Chosen(S)] + h[U]
    BY <1>2 DEF SumsOn
  <1>6. QED
    BY <1>2, <1>3, <1>4, <1>5

LEMMA TotalAgree ==
    ASSUME NEW S, IsFiniteSet(S), NEW e, NEW f, \A x \in S : e[x] = f[x]
    PROVE  Total(e, S) = Total(f, S)
  <1>1. PICK g : SumsOn(g, e, SUBSET S) /\ Total(e, S) = g[S]
    BY SumsExist, TotalOfSums
  <1>2. PICK h : SumsOn(h, f, SUBSET S) /\ Total(f, S) = h[S]
    BY SumsExist, TotalOfSums
  <1>3. S \in SUBSET S /\ SameOn(e, f, S)
    BY DEF SameOn
  <1>4. g[S] = h[S]
    BY ONLY <1>1, <1>2, <1>3, IsFiniteSet(S), SumsAgree
  <1>5. QED
    BY <1>1, <1>2, <1>4

NatOn(f, S) == \A x \in S : f[x] \in Nat

LEMMA TotalNat ==
    ASSUME NEW S, IsFiniteSet(S), NEW f, NatOn(f, S)
    PROVE  \A T \in SUBSET S : Total(f, T) \in Nat
  <1> DEFINE bad == {T \in SUBSET S : Total(f, T) \notin Nat}
  <1>1. SUFFICES ASSUME bad # {} PROVE FALSE
    OBVIOUS
  <1>2. bad \in SUBSET (SUBSET S)
    OBVIOUS
  <1> HIDE DEF bad
  <1>3. PICK T \in bad : \A U \in SUBSET S : Cardinality(U) < Cardinality(T) => U \notin bad
    BY <1>1, <1>2, SmallestSet
  <1>4. T \in SUBSET S /\ Total(f, T) \notin Nat /\ IsFiniteSet(T)
    BY <1>3, FS_Subset DEF bad
  <1>5. T # {}
    BY <1>4, TotalEmpty
  <1>6. Chosen(T) \in T
    BY <1>5, ChosenIn
  <1>7. Total(f, T) = f[Chosen(T)] + Total(f, T \ {Chosen(T)})
    BY <1>4, <1>5, TotalChosen
  <1>8. T \ {Chosen(T)} \in SUBSET S /\ Cardinality(T \ {Chosen(T)}) < Cardinality(T)
    BY <1>4, <1>6, Smaller
  <1>9. Total(f, T \ {Chosen(T)}) \in Nat
    BY <1>3, <1>8 DEF bad
  <1>10. f[Chosen(T)] \in Nat
    BY <1>4, <1>6 DEF NatOn
  <1>11. QED
    BY <1>4, <1>7, <1>9, <1>10

\* The order of the choices is no matter: any element can be taken out.
LEMMA TotalRemoveIn ==
    ASSUME NEW S, IsFiniteSet(S), NEW f, NatOn(f, S)
    PROVE  \A T \in SUBSET S : \A x \in T : Total(f, T) = f[x] + Total(f, T \ {x})
  <1> DEFINE bad == {T \in SUBSET S : ~ \A x \in T : Total(f, T) = f[x] + Total(f, T \ {x})}
  <1>1. SUFFICES ASSUME bad # {} PROVE FALSE
    OBVIOUS
  <1>2. bad \in SUBSET (SUBSET S)
    OBVIOUS
  <1> HIDE DEF bad
  <1>3. PICK T \in bad : \A U \in SUBSET S : Cardinality(U) < Cardinality(T) => U \notin bad
    BY <1>1, <1>2, SmallestSet
  <1>4. PICK x \in T : Total(f, T) # f[x] + Total(f, T \ {x})
    BY <1>3 DEF bad
  <1>5. T \in SUBSET S /\ IsFiniteSet(T)
    BY <1>3, FS_Subset DEF bad
  <1> DEFINE y == Chosen(T)
  <1>6. y \in T
    BY <1>4, ChosenIn
  <1>7. Total(f, T) = f[y] + Total(f, T \ {y})
    BY <1>5, <1>4, TotalChosen
  <1> HIDE DEF y
  <1>8. x # y
    BY <1>4, <1>7
  <1>9. /\ T \ {y} \in SUBSET S /\ Cardinality(T \ {y}) < Cardinality(T)
        /\ T \ {x} \in SUBSET S /\ Cardinality(T \ {x}) < Cardinality(T)
    BY <1>5, <1>6, Smaller
  <1>10. Total(f, T \ {y}) = f[x] + Total(f, (T \ {y}) \ {x})
    <2>1. T \ {y} \notin bad /\ x \in T \ {y}
      BY <1>3, <1>8, <1>9
    <2>2. QED
      BY <1>9, <2>1 DEF bad
  <1>11. Total(f, T \ {x}) = f[y] + Total(f, (T \ {x}) \ {y})
    <2>1. T \ {x} \notin bad /\ y \in T \ {x}
      BY <1>3, <1>6, <1>8, <1>9
    <2>2. QED
      BY <1>9, <2>1 DEF bad
  <1>12. (T \ {y}) \ {x} = (T \ {x}) \ {y} /\ (T \ {x}) \ {y} \in SUBSET S
    BY <1>5
  <1>13. Total(f, (T \ {x}) \ {y}) \in Nat
    BY <1>12, TotalNat
  <1>14. f[x] \in Nat /\ f[y] \in Nat
    BY <1>5, <1>6 DEF NatOn
  <1> DEFINE rest == Total(f, (T \ {x}) \ {y})
  <1>15. Total(f, T) = f[y] + (f[x] + rest) /\ Total(f, T \ {x}) = f[y] + rest
    BY <1>7, <1>10, <1>11, <1>12
  <1>16. rest \in Nat
    BY <1>13
  <1> HIDE DEF rest
  <1>17. Total(f, T) = f[x] + Total(f, T \ {x})
    BY ONLY <1>14, <1>15, <1>16
  <1>18. QED
    BY <1>4, <1>17

LEMMA TotalRemove ==
    ASSUME NEW S, IsFiniteSet(S), NEW f, NatOn(f, S), NEW x \in S
    PROVE  Total(f, S) = f[x] + Total(f, S \ {x})
  BY TotalRemoveIn

\* A sum grows with its values.
LEMMA TotalGrows ==
    ASSUME NEW S, IsFiniteSet(S), NEW e, NEW f, NatOn(e, S), NatOn(f, S),
           \A x \in S : e[x] <= f[x]
    PROVE  Total(e, S) <= Total(f, S)
  <1> DEFINE bad == {T \in SUBSET S : ~(Total(e, T) <= Total(f, T))}
  <1>1. SUFFICES ASSUME bad # {} PROVE FALSE
    OBVIOUS
  <1>2. bad \in SUBSET (SUBSET S)
    OBVIOUS
  <1> HIDE DEF bad
  <1>3. PICK T \in bad : \A U \in SUBSET S : Cardinality(U) < Cardinality(T) => U \notin bad
    BY <1>1, <1>2, SmallestSet
  <1>4. T \in SUBSET S /\ IsFiniteSet(T) /\ ~(Total(e, T) <= Total(f, T))
    BY <1>3, FS_Subset DEF bad
  <1>5. T # {}
    BY <1>4, TotalEmpty
  <1> DEFINE y == Chosen(T)
  <1>6. y \in T
    BY <1>5, ChosenIn
  <1>7. Total(e, T) = e[y] + Total(e, T \ {y}) /\ Total(f, T) = f[y] + Total(f, T \ {y})
    BY <1>4, <1>5, TotalChosen
  <1> HIDE DEF y
  <1>8. T \ {y} \in SUBSET S /\ Cardinality(T \ {y}) < Cardinality(T)
    BY <1>4, <1>6, Smaller
  <1>9. Total(e, T \ {y}) <= Total(f, T \ {y})
    BY <1>3, <1>8 DEF bad
  <1>10. Total(e, T \ {y}) \in Nat /\ Total(f, T \ {y}) \in Nat
    BY <1>8, TotalNat
  <1>11. e[y] \in Nat /\ f[y] \in Nat /\ e[y] <= f[y]
    BY <1>4, <1>6 DEF NatOn
  <1>12. QED
    BY <1>4, <1>7, <1>9, <1>10, <1>11

-----------------------------------------------------------------------------
(* Quota: the rows of a month.                                              *)

Months == 0..MaxMonth

RowsOf(S, m, payer) == {<<a, m, payer>> : a \in S}

PaidBy(m, payer) == [a \in Applications |-> usage[<<a, m, payer>>]]

LEMMA KeysFinite ==
    /\ IsFiniteSet(UsageKeys)
    /\ \A S \in SUBSET Applications, m \in Months, payer \in Payers :
          RowsOf(S, m, payer) \subseteq UsageKeys /\ IsFiniteSet(RowsOf(S, m, payer))
  <1>1. IsFiniteSet(Months)
    BY FS_Interval, QuotaAssumption DEF Months
  <1>2. IsFiniteSet(Payers)
    <2>1. IsFiniteSet({"deployment"} \cup {"user"})
      BY FS_Singleton, FS_AddElement
    <2>2. Payers = {"deployment"} \cup {"user"}
      BY DEF Payers
    <2>3. QED
      BY <2>1, <2>2
  <1>3. UsageKeys = Applications \X Months \X Payers
    BY DEF UsageKeys, Months
  <1>4. IsFiniteSet(Applications)
    BY QuotaAssumption
  <1>5. IsFiniteSet(Applications \X Months)
    BY <1>1, <1>4, FS_Product
  <1>6. IsFiniteSet((Applications \X Months) \X Payers)
    BY <1>2, <1>5, FS_Product
  <1>7. IsFiniteSet(UsageKeys)
    <2> DEFINE f == [x \in (Applications \X Months) \X Payers |-> <<x[1][1], x[1][2], x[2]>>]
    <2>1. f \in Surjection((Applications \X Months) \X Payers, UsageKeys)
      <3>1. f \in [(Applications \X Months) \X Payers -> UsageKeys]
        BY <1>3
      <3>2. ASSUME NEW k \in UsageKeys
            PROVE  \E x \in (Applications \X Months) \X Payers : f[x] = k
        <4>1. PICK a \in Applications, m \in Months, q \in Payers : k = <<a, m, q>>
          BY <1>3
        <4>2. <<<<a, m>>, q>> \in (Applications \X Months) \X Payers
          OBVIOUS
        <4>3. QED
          BY <4>1, <4>2
      <3>3. QED
        BY <3>1, <3>2 DEF Surjection
    <2> HIDE DEF f
    <2>2. QED
      BY <1>6, <2>1, FS_Surjection
  <1>8. ASSUME NEW S \in SUBSET Applications, NEW m \in Months, NEW payer \in Payers
        PROVE  RowsOf(S, m, payer) \subseteq UsageKeys /\ IsFiniteSet(RowsOf(S, m, payer))
    <2>1. RowsOf(S, m, payer) \subseteq UsageKeys
      BY <1>3 DEF RowsOf
    <2>2. QED
      BY <1>7, <2>1, FS_Subset
  <1>9. QED
    BY <1>7, <1>8

LEMMA UsageNat ==
    ASSUME QuotaTypeOK
    PROVE  /\ NatOn(usage, UsageKeys)
           /\ \A m \in Months, payer \in Payers : NatOn(PaidBy(m, payer), Applications)
  BY DEF QuotaTypeOK, NatOn, PaidBy, UsageKeys, Months

\* A sum over the rows of some applications is the sum over the applications.
LEMMA TotalRows ==
    ASSUME QuotaTypeOK, NEW m \in Months, NEW payer \in Payers
    PROVE  \A S \in SUBSET Applications :
              Total(usage, RowsOf(S, m, payer)) = Total(PaidBy(m, payer), S)
  <1> DEFINE bad == {S \in SUBSET Applications :
                       Total(usage, RowsOf(S, m, payer)) # Total(PaidBy(m, payer), S)}
  <1>1. SUFFICES ASSUME bad # {} PROVE FALSE
    OBVIOUS
  <1>2. bad \in SUBSET (SUBSET Applications) /\ IsFiniteSet(Applications)
    BY QuotaAssumption
  <1> HIDE DEF bad
  <1>3. PICK T \in bad :
           \A U \in SUBSET Applications : Cardinality(U) < Cardinality(T) => U \notin bad
    BY <1>1, <1>2, SmallestSet
  <1>4. /\ T \in SUBSET Applications /\ IsFiniteSet(T)
        /\ Total(usage, RowsOf(T, m, payer)) # Total(PaidBy(m, payer), T)
    BY <1>2, <1>3, FS_Subset DEF bad
  <1>5. T # {}
    <2>1. RowsOf({}, m, payer) = {}
      BY DEF RowsOf
    <2>2. QED
      BY <1>4, <2>1, TotalEmpty
  <1>6. PICK y \in T : TRUE
    BY <1>5
  <1>7. T \ {y} \in SUBSET Applications /\ Cardinality(T \ {y}) < Cardinality(T)
    BY <1>2, <1>4, Smaller
  <1>8. Total(usage, RowsOf(T \ {y}, m, payer)) = Total(PaidBy(m, payer), T \ {y})
    BY <1>3, <1>7 DEF bad
  <1>9. Total(PaidBy(m, payer), T) = PaidBy(m, payer)[y] + Total(PaidBy(m, payer), T \ {y})
    BY <1>2, <1>4, UsageNat, TotalRemoveIn
  <1>10. Total(usage, RowsOf(T, m, payer))
            = usage[<<y, m, payer>>] + Total(usage, RowsOf(T \ {y}, m, payer))
    <2>1. RowsOf(T, m, payer) \in SUBSET UsageKeys /\ IsFiniteSet(UsageKeys)
      BY <1>4, KeysFinite
    <2>2. <<y, m, payer>> \in RowsOf(T, m, payer)
      BY DEF RowsOf
    <2>3. RowsOf(T, m, payer) \ {<<y, m, payer>>} = RowsOf(T \ {y}, m, payer)
      BY DEF RowsOf
    <2>4. NatOn(usage, UsageKeys)
      BY UsageNat
    <2>5. \A x \in RowsOf(T, m, payer) :
             Total(usage, RowsOf(T, m, payer)) = usage[x] + Total(usage, RowsOf(T, m, payer) \ {x})
      BY ONLY <2>1, <2>4, TotalRemoveIn
    <2>6. QED
      BY <2>2, <2>3, <2>5
  <1>11. PaidBy(m, payer)[y] = usage[<<y, m, payer>>]
    BY <1>4 DEF PaidBy
  <1>12. QED
    BY <1>4, <1>8, <1>9, <1>10, <1>11

\* get_period_totals of the deployment's rows is what it spent.
LEMMA PeriodTotals ==
    ASSUME QuotaTypeOK, NEW m \in Months
    PROVE  /\ get_period_totals(m, "deployment") = DeploymentSpend(m)
           /\ DeploymentSpend(m) \in Nat
  <1>1. "deployment" \in Payers
    BY DEF Payers
  <1>2. {k \in UsageKeys : k[2] = m /\ k[3] = "deployment"} = RowsOf(Applications, m, "deployment")
    BY <1>1 DEF UsageKeys, RowsOf, Months
  <1>3. Total(usage, RowsOf(Applications, m, "deployment"))
           = Total(PaidBy(m, "deployment"), Applications)
    BY <1>1, TotalRows
  <1>4. DeploymentSpend(m) = Total(PaidBy(m, "deployment"), Applications)
    BY DEF DeploymentSpend, PaidBy
  <1>5. Total(PaidBy(m, "deployment"), Applications) \in Nat
    BY <1>1, UsageNat, TotalNat, QuotaAssumption
  <1>6. QED
    BY <1>2, <1>3, <1>4, <1>5 DEF get_period_totals

-----------------------------------------------------------------------------
(* Quota: the invariant.                                                    *)

\* A turn has an application from when its cost is added until that is rolled back.
Recording ==
    \A t \in Turns : /\ turn[t].step = "idle" => turn[t].app = NoApp
                     /\ turn[t].step \in {"locked", "waiting"} => turn[t].app \in Applications

\* What an open reading has read, the deployment has paid.
ReadingIsSpend == reading.used <= DeploymentSpend(reading.of)

QuotaInv == QuotaTypeOK /\ Recording /\ SpendCounted /\ ReadingIsSpend /\ CapIsDeployment

CostOf == [t \in Turns |-> turn[t].cost]

Recorded(k) == {t \in Turns : turn[t].step = "done" /\ Key(t) = k}

LEMMA TurnParts ==
    ASSUME QuotaTypeOK, NEW t \in Turns
    PROVE  /\ turn[t] \in Turn
           /\ turn[t].step \in {"idle", "locked", "waiting", "done"}
           /\ turn[t].app \in Applications \cup {NoApp} /\ turn[t].month \in Months
           /\ turn[t].payer \in Payers /\ turn[t].cost \in Nat
  BY DEF QuotaTypeOK, Turn, Months

LEMMA CostNat == ASSUME QuotaTypeOK PROVE NatOn(CostOf, Turns)
  BY TurnParts DEF NatOn, CostOf

LEMMA KeyOfApp ==
    ASSUME QuotaTypeOK, NEW t \in Turns
    PROVE  /\ turn[t].app = NoApp => Key(t) \notin UsageKeys
           /\ turn[t].app \in Applications => Key(t) \in UsageKeys
  BY TurnParts, QuotaAssumption DEF Key, UsageKeys, Months

LEMMA SpendIs ==
    SpendCounted <=> \A k \in UsageKeys : usage[k] = Total(CostOf, Recorded(k))
  BY DEF SpendCounted, CostOf, Recorded

\* A step that records nothing changes no sum.
LEMMA NothingRecorded ==
    ASSUME QuotaTypeOK, SpendCounted, usage' = usage,
           \A t \in Turns : \/ turn'[t] = turn[t]
                            \/ /\ turn[t].step = "done" => Key(t) \notin UsageKeys
                               /\ turn'[t].step = "done" => Key(t)' \notin UsageKeys
    PROVE  SpendCounted'
  <1> SUFFICES ASSUME NEW k \in UsageKeys
               PROVE  usage'[k] = Total(CostOf', Recorded(k)')
    BY DEF SpendCounted, CostOf, Recorded, UsageKeys
  <1>1. Recorded(k)' = Recorded(k)
    BY DEF Recorded, Key
  <1>2. ASSUME NEW t \in Recorded(k) PROVE CostOf'[t] = CostOf[t]
    <2>1. t \in Turns /\ turn[t].step = "done" /\ Key(t) \in UsageKeys
      BY DEF Recorded
    <2>2. turn'[t] = turn[t]
      BY <2>1
    <2>3. QED
      BY <2>1, <2>2 DEF CostOf
  <1>3. IsFiniteSet(Recorded(k))
    BY FS_Subset, QuotaAssumption DEF Recorded
  <1>4. Total(CostOf', Recorded(k)) = Total(CostOf, Recorded(k))
    BY <1>2, <1>3, TotalAgree
  <1>5. usage[k] = Total(CostOf, Recorded(k))
    BY SpendIs
  <1>6. QED
    BY <1>1, <1>4, <1>5

SpentIn(u, m) == Total([a \in Applications |-> u[<<a, m, "deployment">>]], Applications)

LEMMA CoverIs ==
    /\ \A m : DeploymentSpend(m) = SpentIn(usage, m)
    /\ ReadingIsSpend <=> reading.used <= SpentIn(usage, reading.of)
    /\ CapIsDeployment <=> status.used <= SpentIn(usage, status.of)
    /\ ReadingIsSpend' <=> reading'.used <= SpentIn(usage', reading'.of)
    /\ CapIsDeployment' <=> status'.used <= SpentIn(usage', status'.of)
  BY DEF ReadingIsSpend, CapIsDeployment, DeploymentSpend, SpentIn

\* Rows only grow, and with them what the deployment has paid.
LEMMA SpendGrows ==
    ASSUME QuotaTypeOK, QuotaTypeOK', \A k \in UsageKeys : usage[k] <= usage'[k],
           NEW m \in Months
    PROVE  /\ SpentIn(usage, m) <= SpentIn(usage', m)
           /\ SpentIn(usage, m) \in Nat /\ SpentIn(usage', m) \in Nat
  <1> DEFINE e == PaidBy(m, "deployment")
             f == [a \in Applications |-> usage'[<<a, m, "deployment">>]]
  <1>1. "deployment" \in Payers /\ IsFiniteSet(Applications)
    BY QuotaAssumption DEF Payers
  <1>2. NatOn(e, Applications)
    BY <1>1, UsageNat
  <1>3. \A a \in Applications : <<a, m, "deployment">> \in UsageKeys
    BY <1>1 DEF UsageKeys, Months
  <1>4. NatOn(f, Applications)
    BY <1>3 DEF QuotaTypeOK, NatOn
  <1>5. \A a \in Applications : e[a] <= f[a]
    BY <1>3 DEF PaidBy
  <1>6. SpentIn(usage, m) = Total(e, Applications) /\ SpentIn(usage', m) = Total(f, Applications)
    BY DEF SpentIn, PaidBy
  <1> HIDE DEF e, f
  <1>7. Total(e, Applications) <= Total(f, Applications)
    BY <1>1, <1>2, <1>4, <1>5, TotalGrows
  <1>8. Total(e, Applications) \in Nat /\ Total(f, Applications) \in Nat
    BY <1>1, <1>2, <1>4, TotalNat
  <1>9. QED
    BY <1>6, <1>7, <1>8

LEMMA ReadParts ==
    ASSUME QuotaTypeOK
    PROVE  /\ reading.of \in Months /\ reading.used \in Nat
           /\ status.of \in Months /\ status.used \in Nat
  BY DEF QuotaTypeOK, Months

\* Rows only grow: what was read and what was returned are still covered.
LEMMA CoverKept ==
    ASSUME QuotaInv, QuotaTypeOK', \A k \in UsageKeys : usage[k] <= usage'[k],
           UNCHANGED <<reading, status>>
    PROVE  ReadingIsSpend' /\ CapIsDeployment'
  <1>1. reading.of \in Months /\ reading.used \in Nat /\ status.of \in Months /\ status.used \in Nat
    BY ReadParts DEF QuotaInv
  <1>2. /\ SpentIn(usage, reading.of) <= SpentIn(usage', reading.of)
        /\ SpentIn(usage, reading.of) \in Nat /\ SpentIn(usage', reading.of) \in Nat
    BY <1>1, SpendGrows DEF QuotaInv
  <1>3. /\ SpentIn(usage, status.of) <= SpentIn(usage', status.of)
        /\ SpentIn(usage, status.of) \in Nat /\ SpentIn(usage', status.of) \in Nat
    BY <1>1, SpendGrows DEF QuotaInv
  <1>4. reading.used <= SpentIn(usage, reading.of) /\ status.used <= SpentIn(usage, status.of)
    BY CoverIs DEF QuotaInv
  <1>5. reading' = reading /\ status' = status
    OBVIOUS
  <1>6. reading.used <= SpentIn(usage', reading.of) /\ status.used <= SpentIn(usage', status.of)
    BY <1>1, <1>2, <1>3, <1>4
  <1>7. QED
    BY <1>5, <1>6, CoverIs

\* The sum over the turns recorded under a key changes by the cost of the one that is.
LEMMA CommitCounts ==
    ASSUME QuotaTypeOK, Recording, SpendCounted, NEW t \in Turns, CommitCost(t)
    PROVE  SpendCounted'
  <1>1. /\ turn[t].step = "locked" /\ turn[t].app \in Applications /\ Key(t) \in UsageKeys
        /\ usage' = [usage EXCEPT ![Key(t)] = @ + turn[t].cost]
        /\ turn' = [turn EXCEPT ![t].step = "done"]
    BY KeyOfApp DEF CommitCost, Recording
  <1>2. /\ turn'[t].step = "done" /\ \A u \in Turns \ {t} : turn'[u] = turn[u]
        /\ \A u \in Turns : /\ turn'[u].cost = turn[u].cost /\ turn'[u].app = turn[u].app
                            /\ turn'[u].month = turn[u].month /\ turn'[u].payer = turn[u].payer
    BY <1>1, TurnParts DEF QuotaTypeOK, Turn
  <1>3. CostOf' = CostOf /\ \A u \in Turns : Key(u)' = Key(u)
    BY <1>2 DEF CostOf, Key
  <1>4. IsFiniteSet(Turns) /\ NatOn(CostOf, Turns)
    BY CostNat, QuotaAssumption
  <1> SUFFICES ASSUME NEW k \in UsageKeys
               PROVE  usage'[k] = Total(CostOf, Recorded(k)')
    BY <1>3 DEF SpendCounted, CostOf, Recorded, UsageKeys
  <1>5. usage[k] = Total(CostOf, Recorded(k)) /\ usage[k] \in Nat
    BY SpendIs DEF QuotaTypeOK
  <1>6. CASE k = Key(t)
    <2>1. t \in Recorded(k)' /\ Recorded(k)' \ {t} = Recorded(k)
      BY <1>1, <1>2, <1>3, <1>6 DEF Recorded
    <2>2. Recorded(k)' \in SUBSET Turns
      BY DEF Recorded
    <2>3. Total(CostOf, Recorded(k)') = CostOf[t] + Total(CostOf, Recorded(k)' \ {t})
      BY <1>4, <2>1, <2>2, TotalRemoveIn
    <2>4. usage'[k] = usage[k] + turn[t].cost /\ CostOf[t] = turn[t].cost /\ turn[t].cost \in Nat
      BY <1>1, <1>6, TurnParts DEF QuotaTypeOK, CostOf
    <2>5. Total(CostOf, Recorded(k)') = turn[t].cost + usage[k]
      BY <1>5, <2>1, <2>3, <2>4, Zenon
    <2>6. turn[t].cost + usage[k] = usage[k] + turn[t].cost
      BY <1>5, <2>4
    <2>7. QED
      BY <2>4, <2>5, <2>6, Zenon
  <1>7. CASE k # Key(t)
    <2>1. Recorded(k)' = Recorded(k)
      BY <1>1, <1>2, <1>3, <1>7 DEF Recorded
    <2>2. usage'[k] = usage[k]
      BY <1>1, <1>7 DEF QuotaTypeOK
    <2>3. QED
      BY <1>5, <2>1, <2>2
  <1>8. QED
    BY <1>6, <1>7

-----------------------------------------------------------------------------
(* Quota: every step keeps it.                                              *)

LEMMA QuotaTypedInit == ASSUME QuotaInit PROVE QuotaTypeOK
  <1>1. 0 \in 0..MaxMonth /\ 1 \in 0..(MaxMonth + 1)
    BY QuotaAssumption
  <1>2. NoTurn \in Turn
    BY <1>1 DEF NoTurn, Turn, Payers
  <1>3. QED
    BY <1>1, <1>2 DEF QuotaInit, QuotaTypeOK

LEMMA QuotaInvInit == ASSUME QuotaInit PROVE QuotaInv
  <1>1. QuotaTypeOK
    BY QuotaTypedInit
  <1>2. \A t \in Turns : turn[t].step = "idle" /\ turn[t].app = NoApp
    BY DEF QuotaInit, NoTurn
  <1>3. Recording
    BY <1>2 DEF Recording
  <1>4. SpendCounted
    <2>1. SUFFICES ASSUME NEW k \in UsageKeys PROVE usage[k] = Total(CostOf, Recorded(k))
      BY SpendIs
    <2>2. Recorded(k) = {}
      BY <1>2 DEF Recorded
    <2>3. usage[k] = 0
      BY DEF QuotaInit
    <2>4. QED
      BY <2>2, <2>3, TotalEmpty
  <1>5. \A m \in Months : DeploymentSpend(m) \in Nat
    BY <1>1, PeriodTotals
  <1>6. reading.used = 0 /\ status.used = 0
    BY DEF QuotaInit
  <1>7. ReadingIsSpend /\ CapIsDeployment
    BY <1>1, <1>5, <1>6, ReadParts DEF ReadingIsSpend, CapIsDeployment
  <1>8. QED
    BY <1>1, <1>3, <1>4, <1>7 DEF QuotaInv

\* A step that records nothing.
LEMMA TurnMoves ==
    ASSUME QuotaInv, NEW t \in Turns, NEW x \in Turn, turn' = [turn EXCEPT ![t] = x],
           UNCHANGED <<month, usage, reading, status>>,
           turn[t].step # "done",
           \/ x.step \in {"locked", "waiting"} /\ x.app \in Applications
           \/ x.step = "done" /\ x.app = NoApp
    PROVE  QuotaInv'
  <1>1. QuotaTypeOK'
    BY DEF QuotaInv, QuotaTypeOK
  <1>2. turn'[t] = x /\ \A u \in Turns \ {t} : turn'[u] = turn[u]
    BY DEF QuotaInv, QuotaTypeOK
  <1>3. Recording'
    BY <1>2 DEF QuotaInv, Recording
  <1>4. SpendCounted'
    <2>1. x.step = "done" => Key(t)' \notin UsageKeys
      BY <1>2, QuotaAssumption DEF Key, UsageKeys
    <2>2. \A u \in Turns : \/ turn'[u] = turn[u]
                            \/ /\ turn[u].step = "done" => Key(u) \notin UsageKeys
                               /\ turn'[u].step = "done" => Key(u)' \notin UsageKeys
      BY <1>2, <2>1
    <2>3. QED
      BY <2>2, NothingRecorded DEF QuotaInv
  <1>5. ReadingIsSpend' /\ CapIsDeployment'
    BY DEF QuotaInv, ReadingIsSpend, CapIsDeployment, DeploymentSpend
  <1>6. QED
    BY <1>1, <1>3, <1>4, <1>5 DEF QuotaInv

LEMMA AccumulateKeeps ==
    ASSUME QuotaInv, NEW t \in Turns, NEW app \in Applications, NEW payer \in Payers,
           NEW cost \in Costs, Accumulate(t, app, payer, cost)
    PROVE  QuotaInv'
  <1> DEFINE x == [step |-> IF Locked(<<app, current_period_start, payer>>) THEN "waiting"
                            ELSE "locked",
                   app |-> app, month |-> current_period_start, payer |-> payer, cost |-> cost]
  <1>1. turn' = [turn EXCEPT ![t] = x] /\ turn[t].step = "idle"
        /\ UNCHANGED <<month, usage, reading, status>>
    BY DEF Accumulate
  <1>2. x.step \in {"locked", "waiting"} /\ x.app = app
    OBVIOUS
  <1>3. x \in Turn
    BY <1>2, QuotaAssumption DEF QuotaInv, QuotaTypeOK, Turn, current_period_start
  <1> HIDE DEF x
  <1>4. QED
    BY <1>1, <1>2, <1>3, TurnMoves

LEMMA NothingKeeps ==
    ASSUME QuotaInv, NEW t \in Turns, AccumulateNothing(t)
    PROVE  QuotaInv'
  <1> DEFINE x == [turn[t] EXCEPT !.step = "done"]
  <1>1. turn' = [turn EXCEPT ![t] = x] /\ turn[t].step = "idle"
        /\ UNCHANGED <<month, usage, reading, status>>
    BY DEF AccumulateNothing
  <1>2. x.step = "done" /\ x.app = NoApp /\ x \in Turn
    BY <1>1, TurnParts DEF QuotaInv, Recording, Turn
  <1> HIDE DEF x
  <1>3. QED
    BY <1>1, <1>2, TurnMoves

LEMMA ProceedKeeps ==
    ASSUME QuotaInv, NEW t \in Turns, Proceed(t)
    PROVE  QuotaInv'
  <1> DEFINE x == [turn[t] EXCEPT !.step = "locked"]
  <1>1. turn' = [turn EXCEPT ![t] = x] /\ turn[t].step = "waiting"
        /\ UNCHANGED <<month, usage, reading, status>>
    BY DEF Proceed
  <1>2. x.step = "locked" /\ x.app \in Applications /\ x \in Turn
    BY <1>1, TurnParts DEF QuotaInv, Recording, Turn
  <1> HIDE DEF x
  <1>3. QED
    BY <1>1, <1>2, TurnMoves

LEMMA RollBackKeeps ==
    ASSUME QuotaInv, NEW t \in Turns, RollBackCost(t)
    PROVE  QuotaInv'
  <1> DEFINE x == [NoTurn EXCEPT !.step = "done"]
  <1>1. turn' = [turn EXCEPT ![t] = x] /\ turn[t].step \in {"locked", "waiting"}
        /\ UNCHANGED <<month, usage, reading, status>>
    BY DEF RollBackCost
  <1>2. 0 \in 0..MaxMonth
    BY QuotaAssumption
  <1>3. x.step = "done" /\ x.app = NoApp /\ x \in Turn
    BY <1>2 DEF NoTurn, Turn, Payers
  <1> HIDE DEF x
  <1>4. QED
    BY <1>1, <1>3, TurnMoves

LEMMA CommitKeeps ==
    ASSUME QuotaInv, NEW t \in Turns, CommitCost(t)
    PROVE  QuotaInv'
  <1>1. /\ turn[t].step = "locked" /\ turn[t].app \in Applications /\ Key(t) \in UsageKeys
        /\ turn[t].cost \in Nat /\ turn[t] \in Turn
    BY KeyOfApp, TurnParts DEF QuotaInv, CommitCost, Recording
  <1>2. usage[Key(t)] \in Nat /\ \A k \in UsageKeys : usage[k] \in Nat
    BY <1>1 DEF QuotaInv, QuotaTypeOK
  <1>3. \A k \in UsageKeys :
           usage'[k] = IF k = Key(t) THEN usage[k] + turn[t].cost ELSE usage[k]
    BY <1>1 DEF QuotaInv, QuotaTypeOK, CommitCost
  <1>4. QuotaTypeOK'
    <2>1. usage' \in [UsageKeys -> Nat]
      BY <1>1, <1>2 DEF QuotaInv, QuotaTypeOK, CommitCost
    <2>2. [turn[t] EXCEPT !.step = "done"] \in Turn
      BY <1>1 DEF Turn
    <2>3. turn' \in [Turns -> Turn]
      BY <2>2 DEF QuotaInv, QuotaTypeOK, CommitCost
    <2>4. QED
      BY <2>1, <2>3 DEF QuotaInv, QuotaTypeOK, CommitCost
  <1>5. Recording'
    <2>1. turn'[t].step = "done" /\ \A u \in Turns \ {t} : turn'[u] = turn[u]
      BY <1>1 DEF QuotaInv, QuotaTypeOK, CommitCost, Turn
    <2>2. QED
      BY <2>1 DEF QuotaInv, Recording
  <1>6. SpendCounted'
    BY CommitCounts DEF QuotaInv
  <1>7. \A k \in UsageKeys : usage[k] <= usage'[k]
    BY <1>1, <1>2, <1>3
  <1>8. UNCHANGED <<reading, status>>
    BY DEF CommitCost
  <1>9. ReadingIsSpend' /\ CapIsDeployment'
    BY <1>4, <1>7, <1>8, CoverKept
  <1>10. QED
    BY <1>4, <1>5, <1>6, <1>9 DEF QuotaInv

LEMMA ReadKeeps ==
    ASSUME QuotaInv, ReadTotals \/ ReturnStatus \/ MonthEnds
    PROVE  QuotaInv'
  <1>1. UNCHANGED <<usage, turn>>
    BY DEF ReadTotals, ReturnStatus, MonthEnds
  <1>2. Recording' /\ SpendCounted'
    BY <1>1 DEF QuotaInv, Recording, SpendCounted, Key, UsageKeys
  <1>3. month \in Months /\ reading.of \in Months
    BY DEF QuotaInv, QuotaTypeOK, Months
  <1>4. CASE ReadTotals
    <2>1. /\ get_period_totals(month, "deployment") = SpentIn(usage, month)
          /\ SpentIn(usage, month) \in Nat
      BY <1>3, PeriodTotals, CoverIs DEF QuotaInv
    <2>2. /\ reading' = [open |-> TRUE, of |-> month,
                         used |-> get_period_totals(month, "deployment")]
          /\ status' = status /\ month' = month
      BY <1>4 DEF ReadTotals, current_period_start
    <2>3. reading'.of = month /\ reading'.used = SpentIn(usage, month)
      BY <2>1, <2>2
    <2>4. ReadingIsSpend'
      BY <1>1, <2>1, <2>3, CoverIs
    <2>5. CapIsDeployment'
      BY <1>1, <2>2 DEF QuotaInv, CapIsDeployment, DeploymentSpend
    <2>6. QuotaTypeOK'
      BY <1>1, <1>3, <2>1, <2>2 DEF QuotaInv, QuotaTypeOK, Months
    <2>7. QED
      BY <1>2, <2>4, <2>5, <2>6 DEF QuotaInv
  <1>5. CASE ReturnStatus
    <2>1. /\ reading'.of = reading.of /\ reading'.used = reading.used
          /\ status'.of = reading.of /\ status'.used = reading.used
          /\ month' = month
      BY <1>5 DEF QuotaInv, QuotaTypeOK, ReturnStatus
    <2>2. ReadingIsSpend' /\ CapIsDeployment'
      BY <1>1, <2>1, CoverIs DEF QuotaInv
    <2>3. QuotaTypeOK'
      <3>1. month + 1 \in 0..(MaxMonth + 1) /\ reading.used \in Nat
        BY <1>3, QuotaAssumption, ReadParts DEF QuotaInv, Months
      <3>2. status' = [of |-> reading.of, used |-> reading.used, resets |-> month + 1]
        BY <1>5 DEF ReturnStatus, next_period_start
      <3>3. status' \in [of : 0..MaxMonth, used : Nat, resets : 0..(MaxMonth + 1)]
        BY <1>3, <3>1, <3>2 DEF Months
      <3>4. reading' \in [open : BOOLEAN, of : 0..MaxMonth, used : Nat]
        BY <1>5 DEF QuotaInv, QuotaTypeOK, ReturnStatus
      <3>5. QED
        BY <1>1, <2>1, <3>3, <3>4 DEF QuotaInv, QuotaTypeOK
    <2>4. QED
      BY <1>2, <2>2, <2>3 DEF QuotaInv
  <1>6. CASE MonthEnds
    <2>1. QuotaTypeOK'
      BY <1>6, QuotaAssumption DEF QuotaInv, QuotaTypeOK, MonthEnds
    <2>2. ReadingIsSpend' /\ CapIsDeployment'
      BY <1>6 DEF QuotaInv, ReadingIsSpend, CapIsDeployment, DeploymentSpend, MonthEnds
    <2>3. QED
      BY <1>2, <2>1, <2>2 DEF QuotaInv
  <1>7. QED
    BY <1>4, <1>5, <1>6

LEMMA QuotaInvNext == ASSUME QuotaInv, [QuotaNext]_quotaVars PROVE QuotaInv'
  <1>1. CASE \E t \in Turns, app \in Applications, payer \in Payers, cost \in Costs :
                Accumulate(t, app, payer, cost)
    BY <1>1, AccumulateKeeps
  <1>2. CASE \E t \in Turns : AccumulateNothing(t) \/ Proceed(t)
    BY <1>2, NothingKeeps, ProceedKeeps
  <1>3. CASE \E t \in Turns : CommitCost(t) \/ RollBackCost(t)
    BY <1>3, CommitKeeps, RollBackKeeps
  <1>4. CASE ReadTotals \/ ReturnStatus \/ MonthEnds
    BY <1>4, ReadKeeps
  <1>5. CASE UNCHANGED quotaVars
    BY <1>5 DEF quotaVars, QuotaInv, QuotaTypeOK, Recording, SpendCounted, ReadingIsSpend,
                CapIsDeployment, DeploymentSpend, Key, UsageKeys
  <1>6. QED
    BY <1>1, <1>2, <1>3, <1>4, <1>5 DEF QuotaNext

LEMMA QuotaInvAlways == QuotaSpec => []QuotaInv
  BY QuotaInvInit, QuotaInvNext, PTL DEF QuotaSpec

\* The clock, the rows, the turns and the statuses keep their types.
THEOREM QuotaTypeCorrect == QuotaSpec => []QuotaTypeOK
  <1>1. QuotaInv => QuotaTypeOK
    BY DEF QuotaInv
  <1>2. QED
    BY <1>1, QuotaInvAlways, PTL

\* Whatever turns add their cost at once, over whatever ends of months, a row of
\* monthly_usage holds the cost of every turn recorded under its key and of no
\* other, and no status of get_current holds the user to more than the deployment
\* paid in its month.
THEOREM BudgetAlwaysHolds == QuotaSpec => []BudgetHolds
  <1>1. QuotaInv => BudgetHolds
    BY DEF QuotaInv, BudgetHolds
  <1>2. QED
    BY <1>1, QuotaInvAlways, PTL

-----------------------------------------------------------------------------
(* Notebook: the tokens and the ids of rows.                                *)

\* What is summed over fewer elements is no more.
LEMMA TotalShrinks ==
    ASSUME NEW S, IsFiniteSet(S), NEW f, NatOn(f, S), NEW R \in SUBSET S
    PROVE  Total(f, R) <= Total(f, S)
  <1> DEFINE bad == {T \in SUBSET S : ~ \A U \in SUBSET T : Total(f, U) <= Total(f, T)}
  <1>1. SUFFICES ASSUME bad # {} PROVE FALSE
    OBVIOUS
  <1>2. bad \in SUBSET (SUBSET S)
    OBVIOUS
  <1> HIDE DEF bad
  <1>3. PICK T \in bad : \A U \in SUBSET S : Cardinality(U) < Cardinality(T) => U \notin bad
    BY <1>1, <1>2, SmallestSet
  <1>4. T \in SUBSET S
    BY <1>2, <1>3
  <1>5. PICK U \in SUBSET T : ~(Total(f, U) <= Total(f, T))
    BY <1>3 DEF bad
  <1>6. \A V \in SUBSET S : Total(f, V) \in Nat
    BY TotalNat
  <1>7. Total(f, U) \in Nat /\ Total(f, T) \in Nat
    BY <1>4, <1>5, <1>6
  <1>8. U # T
    BY <1>5, <1>7
  <1>9. PICK x \in T : x \notin U
    BY <1>5, <1>8
  <1>10. T \ {x} \in SUBSET S /\ Cardinality(T \ {x}) < Cardinality(T)
    BY <1>4, <1>9, Smaller
  <1>11. T \ {x} \notin bad
    BY <1>3, <1>10
  <1>12. U \in SUBSET (T \ {x})
    BY <1>5, <1>9
  <1>13. Total(f, U) <= Total(f, T \ {x})
    BY <1>10, <1>11, <1>12 DEF bad
  <1>14. Total(f, T) = f[x] + Total(f, T \ {x})
    BY <1>4, <1>9, TotalRemoveIn
  <1>15. f[x] \in Nat /\ Total(f, T \ {x}) \in Nat
    BY <1>4, <1>6, <1>9, <1>10 DEF NatOn
  <1>16. QED
    BY <1>5, <1>7, <1>13, <1>14, <1>15

\* g sums the tokens of rows over the sets of D.
TokensOn(g, D) ==
    g = [T \in D |-> IF T = {} THEN 0 ELSE Chosen(T).tokens + g[T \ {Chosen(T)}]]

TokensOf(R) == [n \in R |-> n.tokens]

LEMMA TokensOfSums ==
    ASSUME NEW S, NEW g, TokensOn(g, SUBSET S)
    PROVE  \E h : TokensOn(h, SUBSET S) /\ Tokens(S) = h[S]
  BY DEF TokensOn, Chosen, Tokens, MapThenSumSet, MapThenFoldSet

LEMMA TokensAreSums ==
    ASSUME NEW S, NEW R, S \in SUBSET R, NEW g
    PROVE  TokensOn(g, SUBSET S) <=> SumsOn(g, TokensOf(R), SUBSET S)
  <1>1. ASSUME NEW T \in SUBSET S, T # {}
        PROVE  TokensOf(R)[Chosen(T)] = Chosen(T).tokens
    BY <1>1, ChosenIn DEF TokensOf
  <1>2. [T \in SUBSET S |-> IF T = {} THEN 0 ELSE Chosen(T).tokens + g[T \ {Chosen(T)}]]
        = [T \in SUBSET S |-> IF T = {} THEN 0 ELSE TokensOf(R)[Chosen(T)] + g[T \ {Chosen(T)}]]
    BY <1>1
  <1>3. QED
    BY <1>2 DEF TokensOn, SumsOn

\* Tokens sums a function on the rows.
LEMMA TokensTotal ==
    ASSUME NEW R, NEW S \in SUBSET R, IsFiniteSet(S)
    PROVE  Tokens(S) = Total(TokensOf(R), S)
  <1>1. PICK g : SumsOn(g, TokensOf(R), SUBSET S)
    BY SumsExist
  <1>2. TokensOn(g, SUBSET S)
    BY <1>1, TokensAreSums
  <1>3. PICK h : TokensOn(h, SUBSET S) /\ Tokens(S) = h[S]
    BY <1>2, TokensOfSums
  <1>4. SumsOn(h, TokensOf(R), SUBSET S)
    BY <1>3, TokensAreSums
  <1>5. PICK k : SumsOn(k, TokensOf(R), SUBSET S) /\ Total(TokensOf(R), S) = k[S]
    BY <1>1, TotalOfSums
  <1>6. S \in SUBSET S /\ SameOn(TokensOf(R), TokensOf(R), S)
    BY DEF SameOn
  <1>7. h[S] = k[S]
    BY ONLY <1>4, <1>5, <1>6, IsFiniteSet(S), SumsAgree
  <1>8. QED
    BY <1>3, <1>5, <1>7

\* A finite set of numbers has its largest.
LEMMA LargestNumber ==
    ASSUME NEW S \in SUBSET Nat, S # {}, IsFiniteSet(S)
    PROVE  Max(S) \in S /\ \A n \in S : n <= Max(S)
  <1> DEFINE bad == {T \in SUBSET S : T # {} /\ ~ \E m \in T : \A n \in T : m >= n}
  <1>1. bad = {}
    <2>1. SUFFICES ASSUME bad # {} PROVE FALSE
      OBVIOUS
    <2>2. bad \in SUBSET (SUBSET S)
      OBVIOUS
    <2> HIDE DEF bad
    <2>3. PICK T \in bad : \A U \in SUBSET S : Cardinality(U) < Cardinality(T) => U \notin bad
      BY <2>1, <2>2, SmallestSet
    <2>4. T \in SUBSET S /\ T # {} /\ ~ \E m \in T : \A n \in T : m >= n
      BY <2>3 DEF bad
    <2>5. PICK x \in T : TRUE
      BY <2>4
    <2>6. T \ {x} \in SUBSET S /\ T \ {x} \notin bad
      BY <2>3, <2>4, <2>5, Smaller
    <2>7. CASE T \ {x} = {}
      BY <2>4, <2>5, <2>7
    <2>8. CASE T \ {x} # {}
      <3>1. PICK m \in T \ {x} : \A n \in T \ {x} : m >= n
        BY <2>6, <2>8 DEF bad
      <3>2. x \in Nat /\ m \in Nat /\ \A n \in T : n \in Nat
        BY <2>4, <2>5
      <3>3. CASE m >= x
        BY <2>4, <3>1, <3>3
      <3>4. CASE ~(m >= x)
        BY <2>4, <2>5, <3>1, <3>2, <3>4
      <3>5. QED
        BY <3>3, <3>4
    <2>9. QED
      BY <2>7, <2>8
  <1>2. \E m \in S : \A n \in S : m >= n
    BY <1>1
  <1>3. Max(S) \in S /\ \A n \in S : Max(S) >= n
    BY <1>2 DEF Max
  <1>4. QED
    BY <1>3

\* The image of a finite set of rows.
LEMMA IdsFinite ==
    ASSUME IsFiniteSet(notes)
    PROVE  IsFiniteSet({n.id : n \in notes} \cup {0})
  <1> DEFINE ids == {n.id : n \in notes}
             f == [n \in notes |-> n.id]
  <1>1. f \in Surjection(notes, ids)
    BY DEF Surjection
  <1>2. IsFiniteSet(ids)
    <2> HIDE DEF f, ids
    <2>1. QED
      BY <1>1, FS_Surjection
  <1>3. QED
    BY <1>2, FS_AddElement

LEMMA NextIdIsNat ==
    ASSUME NotesTypeOK, NEW i \in Nat
    PROVE  NextId(i) \in Nat
  <1> DEFINE ids == {n.id : n \in notes} \cup {0}
  <1>1. ids \in SUBSET Nat /\ ids # {}
    BY DEF NotesTypeOK, NoteRow
  <1>2. IsFiniteSet(ids)
    BY IdsFinite DEF NotesTypeOK
  <1>3. NextId(i) = Max(ids) + i
    BY DEF NextId
  <1> HIDE DEF ids
  <1>4. Max(ids) \in Nat
    BY <1>1, <1>2, LargestNumber
  <1>5. QED
    BY <1>3, <1>4

LEMMA MintedTyped ==
    ASSUME NotesTypeOK, NEW i \in Nat, NEW words \in SUBSET (1..MaxFacts),
           NEW tokens \in Sizes, NEW pinned \in BOOLEAN
    PROVE  MintedRow(i, words, tokens, pinned) \in NoteRow
  <1>1. NextId(i) \in Nat
    BY NextIdIsNat
  <1>2. now \in 1..MaxTime
    BY DEF NotesTypeOK
  <1>3. QED
    BY <1>1, <1>2 DEF MintedRow, NoteRow

-----------------------------------------------------------------------------
(* Notebook: what a compaction writes.                                      *)

LEMMA ResultParts ==
    ASSUME NotesTypeOK, NEW result \in CompactionResults
    PROVE  /\ \E k \in 0..MaxCompacted : DOMAIN result = 1..k
           /\ UNION {result[i].facts : i \in DOMAIN result} = compaction.shown
           /\ \A i \in DOMAIN result :
                 /\ i \in Nat
                 /\ result[i].facts \in SUBSET (1..MaxFacts)
                 /\ result[i].tokens \in Sizes /\ result[i].pinned \in BOOLEAN
  <1>1. PICK k \in 0..MaxCompacted : result \in [1..k -> Written]
    BY DEF CompactionResults
  <1>2. UNION {result[i].facts : i \in DOMAIN result} = compaction.shown
    BY DEF CompactionResults
  <1>3. compaction.shown \in SUBSET (1..MaxFacts)
    BY DEF NotesTypeOK, Compaction
  <1>4. \A w \in Written : /\ w.facts \in SUBSET (1..MaxFacts)
                           /\ w.tokens \in Sizes /\ w.pinned \in BOOLEAN
    BY <1>3 DEF Written
  <1>5. DOMAIN result = 1..k /\ \A i \in 1..k : result[i] \in Written /\ i \in Nat
    BY <1>1, NotebookAssumption
  <1>6. QED
    BY <1>2, <1>4, <1>5

\* The rows of a result: typed, dated by the turn, as many as the agent may write,
\* and with every fact the agent was shown.
LEMMA ResultRows ==
    ASSUME NotesTypeOK, NEW result \in CompactionResults
    PROVE  /\ RowsOfResult(result) \subseteq NoteRow
           /\ \A n \in RowsOfResult(result) : n.at = n.born
           /\ IsFiniteSet(RowsOfResult(result))
           /\ Cardinality(RowsOfResult(result)) <= MaxCompacted
           /\ Facts(RowsOfResult(result)) = compaction.shown
  <1> DEFINE made(i) == MintedRow(i, result[i].facts, result[i].tokens, result[i].pinned)
             R == {made(i) : i \in DOMAIN result}
             f == [i \in DOMAIN result |-> made(i)]
  <1>1. R = RowsOfResult(result)
    BY DEF RowsOfResult
  <1>2. PICK k \in 0..MaxCompacted : DOMAIN result = 1..k
    BY ResultParts
  <1>3. \A i \in DOMAIN result : made(i) \in NoteRow
    BY ResultParts, MintedTyped
  <1>4. \A i \in DOMAIN result : made(i).at = made(i).born /\ made(i).facts = result[i].facts
    BY DEF MintedRow
  <1>5. IsFiniteSet(DOMAIN result) /\ Cardinality(DOMAIN result) = k
    BY <1>2, FS_Interval, NotebookAssumption
  <1>6. f \in Surjection(DOMAIN result, R)
    BY DEF Surjection
  <1>7. IsFiniteSet(R) /\ Cardinality(R) <= Cardinality(DOMAIN result)
    <2> HIDE DEF f, R
    <2>1. QED
      BY <1>5, <1>6, FS_Surjection
  <1>8. Cardinality(R) <= MaxCompacted
    <2>1. Cardinality(R) \in Nat /\ k \in Nat /\ k <= MaxCompacted /\ MaxCompacted \in Nat
      BY <1>2, <1>7, FS_CardinalityType, NotebookAssumption
    <2> HIDE DEF R
    <2>2. QED
      BY <1>5, <1>7, <2>1
  <1>9. Facts(R) = UNION {result[i].facts : i \in DOMAIN result}
    BY <1>4 DEF Facts
  <1>10. Facts(R) = compaction.shown
    BY <1>9, ResultParts
  <1>11. R \subseteq NoteRow /\ \A n \in R : n.at = n.born
    BY <1>3, <1>4
  <1>12. QED
    BY <1>1, <1>7, <1>8, <1>10, <1>11

\* What a listing leaves out is older than as many rows as it may return.
LEMMA ReadsEveryNote ==
    ASSUME NotesTypeOK, Cardinality(Unpinned) <= ReadLimit
    PROVE  NotesToCompact = Unpinned
  <1>1. IsFiniteSet(Unpinned) /\ \A n \in Unpinned : n.id \in Nat
    BY FS_Subset DEF NotesTypeOK, Unpinned, UnpinnedOf, NoteRow
  <1>2. ASSUME NEW n \in Unpinned
        PROVE  Cardinality({m \in Unpinned : m.id > n.id}) < ReadLimit
    <2> DEFINE newer == {m \in Unpinned : m.id > n.id}
    <2>1. newer \in SUBSET (Unpinned \ {n})
      BY <1>1, <1>2
    <2>2. /\ IsFiniteSet(Unpinned \ {n})
          /\ Cardinality(Unpinned \ {n}) = Cardinality(Unpinned) - 1
      BY <1>1, <1>2, FS_RemoveElement
    <2>3. IsFiniteSet(newer) /\ Cardinality(newer) <= Cardinality(Unpinned \ {n})
      BY <2>1, <2>2, FS_Subset
    <2>4. Cardinality(newer) \in Nat /\ Cardinality(Unpinned) \in Nat /\ ReadLimit \in Nat
      BY <1>1, <2>3, FS_CardinalityType, NotebookAssumption
    <2> HIDE DEF newer
    <2>5. Cardinality(newer) < ReadLimit
      BY <2>2, <2>3, <2>4
    <2>6. QED
      BY <2>5 DEF newer
  <1>3. QED
    BY <1>2 DEF NotesToCompact, NewestNotes

-----------------------------------------------------------------------------
(* Notebook: the inductive invariant.                                       *)

\* Every row's time is the turn its words were first written in.
Dated == \A n \in notes : n.at = n.born

NotesInv == NotesTypeOK /\ Dated

\* While the compactor writes, it was shown all that stood.
ShownAll == compaction.phase = "run" => compaction.stood \subseteq compaction.shown

\* No more notes stand unpinned than a listing returns.
ReadsAll == Cardinality(Unpinned) <= ReadLimit

LEMMA NotesInvInit == ASSUME NotesInit PROVE NotesInv /\ ShownAll
  <1>1. IsFiniteSet({})
    BY FS_EmptySet
  <1>2. 0 \in 0..MaxFacts /\ 0 \in 0..MaxRuns /\ 1 \in 1..MaxTime
    BY NotebookAssumption
  <1>3. QED
    BY <1>1, <1>2 DEF NotesInit, NotesInv, NotesTypeOK, Dated, ShownAll, NoCompaction, Compaction

\* Rows that are typed and dated, and a compaction that stays or ends.
LEMMA RowsKeep ==
    ASSUME NotesInv, notes' \subseteq NoteRow, IsFiniteSet(notes'),
           \A n \in notes' : n.at = n.born,
           now' \in 1..MaxTime, facts' \in 0..MaxFacts, compaction' \in Compaction
    PROVE  NotesInv'
  BY DEF NotesInv, NotesTypeOK, Dated

LEMMA NoRunTyped ==
    ASSUME NEW r \in 0..MaxRuns
    PROVE  NoCompaction(r) \in Compaction
  BY DEF NoCompaction, Compaction

LEMMA FactsTyped ==
    ASSUME NEW S, S \subseteq NoteRow
    PROVE  Facts(S) \in SUBSET (1..MaxFacts)
  BY DEF Facts, NoteRow

\* A row is replaced by another.
LEMMA SwapKeeps ==
    ASSUME NotesInv, NEW n \in notes, NEW m \in NoteRow, m.at = n.at, m.born = n.born,
           notes' = (notes \ {n}) \cup {m}
    PROVE  /\ notes' \subseteq NoteRow /\ IsFiniteSet(notes')
           /\ \A k \in notes' : k.at = k.born
  <1>1. IsFiniteSet(notes \ {n})
    BY FS_RemoveElement DEF NotesInv, NotesTypeOK
  <1>2. IsFiniteSet((notes \ {n}) \cup {m})
    BY <1>1, FS_AddElement
  <1>3. QED
    BY <1>2 DEF NotesInv, NotesTypeOK, Dated

LEMMA NotesInvNext == ASSUME NotesInv, [NotesNext]_noteVars PROVE NotesInv'
  <1>1. /\ notes \subseteq NoteRow /\ IsFiniteSet(notes) /\ \A n \in notes : n.at = n.born
        /\ now \in 1..MaxTime /\ facts \in 0..MaxFacts /\ compaction \in Compaction
        /\ NotesTypeOK
    BY DEF NotesInv, NotesTypeOK, Dated
  <1>2. ASSUME NEW tokens \in Sizes, NEW pinned \in BOOLEAN, Note(tokens, pinned)
        PROVE  NotesInv'
    <2> DEFINE n == MintedRow(1, {facts + 1}, tokens, pinned)
    <2>1. facts + 1 \in 1..MaxFacts /\ facts + 1 \in 0..MaxFacts
      BY <1>1, <1>2, NotebookAssumption DEF Note
    <2>2. n \in NoteRow
      BY <1>1, <2>1, MintedTyped
    <2>3. n.at = n.born
      BY DEF MintedRow
    <2>4. notes' = notes \cup {n} /\ facts' = facts + 1 /\ UNCHANGED <<now, compaction>>
      BY <1>2 DEF Note, WriteNotes
    <2> HIDE DEF n
    <2>5. IsFiniteSet(notes \cup {n})
      BY <1>1, FS_AddElement
    <2>6. QED
      BY <1>1, <2>1, <2>2, <2>3, <2>4, <2>5, RowsKeep
  <1>3. ASSUME NEW n \in notes, NEW tokens \in Sizes, UpdateNote(n, tokens)
        PROVE  NotesInv'
    <2> DEFINE m == [n EXCEPT !.facts = {facts + 1}, !.tokens = tokens]
    <2>1. facts + 1 \in 1..MaxFacts /\ facts + 1 \in 0..MaxFacts
      BY <1>1, <1>3, NotebookAssumption DEF UpdateNote
    <2>2. n \in NoteRow
      BY <1>1
    <2>3. m \in NoteRow /\ m.at = n.at /\ m.born = n.born
      BY <1>3, <2>1, <2>2 DEF NoteRow
    <2>4. notes' = (notes \ {n}) \cup {m} /\ facts' = facts + 1 /\ UNCHANGED <<now, compaction>>
      BY <1>3 DEF UpdateNote, WriteNotes
    <2> HIDE DEF m
    <2>5. /\ notes' \subseteq NoteRow /\ IsFiniteSet(notes')
          /\ \A k \in notes' : k.at = k.born
      BY <2>3, <2>4, SwapKeeps
    <2>6. QED
      BY <1>1, <2>1, <2>4, <2>5, RowsKeep
  <1>4. ASSUME NEW n \in notes, DeleteNote(n)
        PROVE  NotesInv'
    <2>1. notes' = notes \ {n} /\ UNCHANGED <<now, facts, compaction>>
      BY <1>4 DEF DeleteNote, WriteNotes
    <2>2. IsFiniteSet(notes \ {n})
      BY <1>1, FS_RemoveElement
    <2>3. QED
      BY <1>1, <2>1, <2>2, RowsKeep
  <1>5. ASSUME NEW n \in notes, NEW pinned \in BOOLEAN, SetPin(n, pinned)
        PROVE  NotesInv'
    <2> DEFINE m == [n EXCEPT !.pinned = pinned]
    <2>1. n \in NoteRow
      BY <1>1
    <2>2. m \in NoteRow /\ m.at = n.at /\ m.born = n.born
      BY <1>5, <2>1 DEF NoteRow
    <2>3. notes' = (notes \ {n}) \cup {m} /\ UNCHANGED <<now, facts, compaction>>
      BY <1>5 DEF SetPin, WriteNotes
    <2> HIDE DEF m
    <2>4. /\ notes' \subseteq NoteRow /\ IsFiniteSet(notes')
          /\ \A k \in notes' : k.at = k.born
      BY <2>2, <2>3, SwapKeeps
    <2>5. QED
      BY <1>1, <2>3, <2>4, RowsKeep
  <1>6. CASE OpenGate
    <2>1. compaction.runs + 1 \in 0..MaxRuns
      BY <1>1, <1>6, NotebookAssumption DEF OpenGate, Compaction
    <2>2. compaction' \in Compaction
      BY <1>6, <2>1, NoRunTyped DEF OpenGate, Compaction, NoCompaction
    <2>3. QED
      BY <1>1, <1>6, <2>2, RowsKeep DEF OpenGate
  <1>7. CASE ReadNotes
    <2>1. Facts(NotesToCompact) \in SUBSET (1..MaxFacts)
      BY <1>1, FactsTyped DEF NotesToCompact, NewestNotes, Unpinned, UnpinnedOf
    <2>2. Facts(Unpinned) \in SUBSET (1..MaxFacts)
      BY <1>1, FactsTyped DEF Unpinned, UnpinnedOf
    <2>3. compaction' \in Compaction
      BY <1>1, <1>7, <2>1, <2>2 DEF ReadNotes, Compaction
    <2>4. QED
      BY <1>1, <1>7, <2>3, RowsKeep DEF ReadNotes
  <1>8. CASE FailCompaction
    <2>1. compaction' \in Compaction
      BY <1>1, <1>8, NoRunTyped DEF FailCompaction, Compaction
    <2>2. QED
      BY <1>1, <1>8, <2>1, RowsKeep DEF FailCompaction
  <1>9. ASSUME NEW result \in CompactionResults, CommitCompaction(RowsOfResult(result))
        PROVE  NotesInv'
    <2> DEFINE R == RowsOfResult(result)
    <2>1. R \subseteq NoteRow /\ IsFiniteSet(R) /\ \A n \in R : n.at = n.born
      BY <1>1, ResultRows
    <2>2. notes' = (notes \ Unpinned) \cup R
      BY <1>9 DEF CommitCompaction, ReplaceNonPinned
    <2>3. compaction' \in Compaction
      BY <1>1, <1>9, NoRunTyped DEF CommitCompaction, Compaction
    <2> HIDE DEF R
    <2>4. IsFiniteSet(notes \ Unpinned)
      BY <1>1, FS_Subset
    <2>5. IsFiniteSet((notes \ Unpinned) \cup R)
      BY <2>1, <2>4, FS_Union
    <2>6. QED
      BY <1>1, <1>9, <2>1, <2>2, <2>3, <2>5, RowsKeep DEF CommitCompaction
  <1>10. CASE NextTurn
    <2>1. now' \in 1..MaxTime
      BY <1>1, <1>10, NotebookAssumption DEF NextTurn
    <2>2. QED
      BY <1>1, <1>10, <2>1, RowsKeep DEF NextTurn
  <1>11. ASSUME NEW k \in 1..(MaxTime + 1), ForkNotes(k) \/ RevertNotes(k)
         PROVE  NotesInv'
    <2>1. notes' = Before(k) /\ UNCHANGED <<now, facts, compaction>>
      BY <1>11 DEF ForkNotes, RevertNotes, Copy
    <2>2. Before(k) \in SUBSET notes
      BY DEF Before
    <2>3. IsFiniteSet(Before(k))
      BY <1>1, <2>2, FS_Subset
    <2>4. QED
      BY <1>1, <2>1, <2>2, <2>3, RowsKeep
  <1>12. CASE UNCHANGED noteVars
    BY <1>1, <1>12, RowsKeep DEF noteVars
  <1>13. QED
    BY <1>2, <1>3, <1>4, <1>5, <1>6, <1>7, <1>8, <1>9, <1>10, <1>11, <1>12 DEF NotesNext

\* The read shows the compactor what stands, and nothing but a read or an end
\* changes what it was shown.
LEMMA ShownNext ==
    ASSUME NotesInv, ShownAll, ReadsAll, [NotesNext]_noteVars
    PROVE  ShownAll'
  <1>1. CASE ReadNotes
    <2>1. NotesToCompact = Unpinned
      BY ReadsEveryNote DEF NotesInv, ReadsAll
    <2>2. compaction'.stood = compaction'.shown
      BY <1>1, <2>1 DEF ReadNotes, NotesInv, NotesTypeOK, Compaction
    <2>3. QED
      BY <2>2 DEF ShownAll
  <1>2. CASE compaction' = compaction
    BY <1>2 DEF ShownAll
  <1>3. CASE compaction'.phase # "run"
    BY <1>3 DEF ShownAll
  <1>4. ASSUME OpenGate \/ FailCompaction
                \/ \E result \in CompactionResults : CommitCompaction(RowsOfResult(result))
        PROVE  compaction'.phase # "run"
    BY <1>4 DEF OpenGate, FailCompaction, CommitCompaction, NoCompaction
  <1>5. QED
    BY <1>1, <1>2, <1>3, <1>4
       DEF NotesNext, Note, UpdateNote, DeleteNote, SetPin, WriteNotes, NextTurn,
           ForkNotes, RevertNotes, noteVars

-----------------------------------------------------------------------------
(* Notebook: what a compaction and a revert keep.                           *)

\* A compaction that wrote is the commit of what the agent made of it.
LEMMA CommittedIs ==
    ASSUME NotesInv, [NotesNext]_noteVars, Committed
    PROVE  \E result \in CompactionResults : CommitCompaction(RowsOfResult(result))
  BY DEF NotesNext, Committed, Note, UpdateNote, DeleteNote, SetPin, WriteNotes, OpenGate,
         ReadNotes, FailCompaction, NextTurn, ForkNotes, RevertNotes, noteVars

LEMMA CommitKeepsNotes ==
    ASSUME NotesInv, ShownAll, [NotesNext]_noteVars, Committed
    PROVE  /\ {n \in notes : n.pinned} \subseteq notes'
           /\ compaction.stood \cap Facts(notes) \subseteq Facts(notes')
  <1>1. PICK result \in CompactionResults : CommitCompaction(RowsOfResult(result))
    BY CommittedIs
  <1>2. notes' = (notes \ Unpinned) \cup RowsOfResult(result)
    BY <1>1 DEF CommitCompaction, ReplaceNonPinned
  <1>3. compaction.stood \subseteq compaction.shown
    BY DEF ShownAll, Committed
  <1>4. Facts(RowsOfResult(result)) = compaction.shown
    BY ResultRows DEF NotesInv
  <1>5. Facts(RowsOfResult(result)) \subseteq Facts(notes')
    BY <1>2 DEF Facts
  <1>6. {n \in notes : n.pinned} \subseteq notes'
    BY <1>2 DEF Unpinned, UnpinnedOf
  <1>7. QED
    BY <1>3, <1>4, <1>5, <1>6

LEMMA CommitClosesGate ==
    ASSUME NotesInv, [NotesNext]_noteVars, Committed
    PROVE  ~OverCeiling'
  <1>1. PICK result \in CompactionResults : CommitCompaction(RowsOfResult(result))
    BY CommittedIs
  <1> DEFINE R == RowsOfResult(result)
             U == UnpinnedOf(R)
  <1>2. notes' = (notes \ Unpinned) \cup R /\ Tokens(R) <= TokenCeiling
    BY <1>1 DEF CommitCompaction, ReplaceNonPinned, WithinBudget
  <1>3. R \subseteq NoteRow /\ IsFiniteSet(R) /\ Cardinality(R) <= MaxCompacted
    BY ResultRows DEF NotesInv
  <1>4. Unpinned' = U
    BY <1>2 DEF Unpinned, UnpinnedOf
  <1>5. U \in SUBSET R
    BY DEF UnpinnedOf
  <1> HIDE DEF R, U
  <1>6. IsFiniteSet(U) /\ Cardinality(U) <= Cardinality(R)
    BY <1>3, <1>5, FS_Subset
  <1>7. Cardinality(U) <= CountCeiling
    <2>1. Cardinality(U) \in Nat /\ Cardinality(R) \in Nat
      BY <1>3, <1>6, FS_CardinalityType
    <2>2. MaxCompacted \in Nat /\ CountCeiling \in Nat /\ MaxCompacted <= CountCeiling
      BY NotebookAssumption
    <2>3. QED
      BY <1>3, <1>6, <2>1, <2>2
  <1>8. Tokens(U) <= TokenCeiling
    <2>1. NatOn(TokensOf(R), R)
      BY <1>3, NotebookAssumption DEF NatOn, TokensOf, NoteRow
    <2>2. Tokens(R) = Total(TokensOf(R), R) /\ Tokens(U) = Total(TokensOf(R), U)
      BY <1>3, <1>5, <1>6, TokensTotal
    <2>3. Total(TokensOf(R), U) <= Total(TokensOf(R), R)
      BY <1>3, <1>5, <2>1, TotalShrinks
    <2>4. Total(TokensOf(R), U) \in Nat /\ Total(TokensOf(R), R) \in Nat
      BY <1>3, <1>5, <2>1, TotalNat
    <2>5. TokenCeiling \in Nat
      BY NotebookAssumption
    <2>6. QED
      BY <1>2, <2>2, <2>3, <2>4, <2>5
  <1>9. OverCeiling' <=> (Cardinality(U) > CountCeiling \/ Tokens(U) > TokenCeiling)
    BY <1>4 DEF OverCeiling
  <1>10. Cardinality(U) \in Nat /\ CountCeiling \in Nat
    BY <1>6, FS_CardinalityType, NotebookAssumption
  <1>11. Tokens(U) \in Nat /\ TokenCeiling \in Nat
    <2>1. NatOn(TokensOf(R), R)
      BY <1>3, NotebookAssumption DEF NatOn, TokensOf, NoteRow
    <2>2. Tokens(U) = Total(TokensOf(R), U)
      BY <1>5, <1>6, TokensTotal
    <2>3. QED
      BY <1>3, <1>5, <2>1, <2>2, TotalNat, NotebookAssumption
  <1>12. QED
    BY <1>7, <1>8, <1>9, <1>10, <1>11

LEMMA RevertKeepsOlder ==
    ASSUME NotesInv, NEW k \in 1..now, RevertNotes(k)
    PROVE  notes' = {n \in notes : n.born < k}
  BY DEF NotesInv, Dated, RevertNotes, Before

-----------------------------------------------------------------------------
(* Notebook: the theorems.                                                  *)

LEMMA NotesInvAlways == NotesSpec => []NotesInv
  BY NotesInvInit, NotesInvNext, PTL DEF NotesSpec

\* The rows of a notebook and the compaction keep their types.
THEOREM NotesTypeCorrect == NotesSpec => []NotesTypeOK
  <1>1. NotesInv => NotesTypeOK
    BY DEF NotesInv
  <1>2. QED
    BY <1>1, NotesInvAlways, PTL

\* Whatever is written, pinned or unpinned while the compactor writes, the notes a
\* compaction leaves are under both ceilings, for any count ceiling no lower than the
\* notes an agent may answer with; and a revert cuts by the turn a note was first
\* written in, in a fork as in its source.
THEOREM GateClosesAndRevertCuts == NotesSpec => GateCloses /\ RevertCuts
  <1>1. ASSUME NotesInv, [NotesNext]_noteVars
        PROVE  [Committed => ~OverCeiling']_noteVars
    BY <1>1, CommitClosesGate
  <1>2. ASSUME NotesInv, [NotesNext]_noteVars
        PROVE  [\A k \in 1..now : RevertNotes(k) => notes' = {n \in notes : n.born < k}]_noteVars
    BY <1>2, RevertKeepsOlder
  <1>3. QED
    BY <1>1, <1>2, NotesInvAlways, PTL DEF NotesSpec, GateCloses, RevertCuts

\* As long as no more notes stand unpinned than one listing returns (a thousand,
\* where the gate opens at fifty), a compaction keeps every note that is pinned when
\* it commits and every fact that stood when it read and stands when it writes.
THEOREM NotesAlwaysKept == NotesSpec /\ []ReadsAll => NotesKept
  <1>1. NotesSpec /\ []ReadsAll => []ShownAll
    BY NotesInvInit, NotesInvAlways, ShownNext, PTL DEF NotesSpec
  <1>2. ASSUME NotesInv, ShownAll, [NotesNext]_noteVars
        PROVE  [Committed =>
                  /\ {n \in notes : n.pinned} \subseteq notes'
                  /\ compaction.stood \cap Facts(notes) \subseteq Facts(notes')]_noteVars
    BY <1>2, CommitKeepsNotes
  <1>3. NotesSpec /\ []ReadsAll => KeepsWhatStood
    BY <1>1, <1>2, NotesInvAlways, PTL DEF NotesSpec, KeepsWhatStood
  <1>4. QED
    BY <1>3, GateClosesAndRevertCuts DEF NotesKept

-----------------------------------------------------------------------------
(* Threads: the tree of forks, the fork points and the owners of messages.  *)

\* The history of a thread is a line of threads that were there before it.
Lines ==
    \A t \in used :
        /\ line[t] \subseteq used
        /\ t \notin line[t]
        /\ \A a \in line[t] : line[a] \subseteq line[t]

\* No deletion missed the thread or one it was forked under.
Clean(t) == (line[t] \cup {t}) \cap raced = {}

\* Of the threads `t` was forked under, `p` is the nearest that is still there.
PlacedUnder(t, p) ==
    IF p = NoThread THEN line[t] \cap live = {}
    ELSE line[t] \cap live \subseteq line[p] \cup {p}

Placed == \A t \in live : Clean(t) => PlacedUnder(t, row[t].parent)

\* What a request has read of its thread or of its parent.
Reads(r) ==
    /\ req[r].op \in {"create", "delete", "moved"} =>
          /\ req[r].parent \in used \cup {NoThread}
          /\ req[r].at # NoMessage =>
                /\ req[r].parent # NoThread
                /\ req[r].parent \in live => message[req[r].at].thread = req[r].parent
    /\ req[r].op \in {"delete", "moved"} =>
          /\ req[r].thread \in used
          /\ req[r].parent # NoThread => req[r].parent \in line[req[r].thread]
          /\ Clean(req[r].thread) => PlacedUnder(req[r].thread, req[r].parent)

\* What a request has updated waits for it unchanged.
Holds(r) ==
    req[r].op = "moved" =>
        /\ req[r].rows \subseteq live
        /\ \A c \in req[r].rows : row[c].parent = req[r].thread
        /\ req[r].rows # {} => req[r].parent \in live \cup {NoThread}

\* A thread under one a request removes is held or removed by that request, or
\* was forked too late for it.
Gathers(r) ==
    \A c \in live :
        /\ req[r].op = "moved" /\ row[c].parent = req[r].thread =>
              c \in req[r].rows \/ ~Clean(c)
        /\ req[r].op = "cascade" /\ row[c].parent \in req[r].rows =>
              c \in req[r].rows \/ ~Clean(c)

\* No row is updated by two requests.
UpdatesApart ==
    \A r, u \in Requests : r # u => Updated(r) \cap Updated(u) = {}

ThreadsInv ==
    /\ TypeOK
    /\ Lines
    /\ ParentAbove
    /\ ForkPoint
    /\ Placed
    /\ UpdatesApart
    /\ \A r \in Requests : Reads(r) /\ Holds(r) /\ Gathers(r)

-----------------------------------------------------------------------------
(* Types.                                                                   *)

LEMMA ThreadsInitTyped == Init => TypeOK
  BY DEF Init, TypeOK, NoRow, Row, Absent, Idle, Request

LEMMA DescendantsLive == ASSUME NEW t PROVE Descendants(t) \subseteq live
  BY DEF Descendants

LEMMA RemovesLive == ASSUME NEW r PROVE Removes(r) \subseteq live
  BY DEF Removes

\* A request at rest and one that starts are requests.
LEMMA RequestIdleTyped == Idle \in Request
  BY DEF Idle, Request

LEMMA BecomeTyped ==
    ASSUME TypeOK, NEW r \in Requests, NEW x \in Request, Become(r, x)
    PROVE  req' \in [Requests -> Request]
  BY DEF TypeOK, Become

\* Each part of a request and of a row is of its type.
LEMMA RequestParts ==
    ASSUME TypeOK, NEW r \in Requests
    PROVE  /\ req[r] \in Request
           /\ req[r].thread \in ThreadIds \cup {NoThread}
           /\ req[r].parent \in ThreadIds \cup {NoThread}
           /\ req[r].at \in MessageIds \cup {NoMessage}
           /\ req[r].rows \subseteq ThreadIds
  BY DEF TypeOK, Request

LEMMA RowParts ==
    ASSUME TypeOK, NEW t \in ThreadIds
    PROVE  /\ row[t] \in Row
           /\ row[t].parent \in ThreadIds \cup {NoThread}
           /\ row[t].at \in MessageIds \cup {NoMessage}
  BY DEF TypeOK, Row

LEMMA UnlinkedTyped ==
    ASSUME TypeOK, NEW t \in ThreadIds, NEW gone
    PROVE  Unlinked(t, gone) \in Row
  <1>1. CASE t \in gone
    BY <1>1 DEF Unlinked, NoRow, Row
  <1>2. CASE t \notin gone
    <2>1. Unlinked(t, gone) =
            [row[t] EXCEPT !.parent = IF @ \in gone THEN NoThread ELSE @,
                           !.at = IF Dropped(@, gone) THEN NoMessage ELSE @]
      BY <1>2 DEF Unlinked
    <2>2. QED
      BY <2>1, RowParts DEF Row
  <1>3. QED
    BY <1>1, <1>2

LEMMA ThreadsNextTyped == ASSUME TypeOK, [Next]_vars PROVE TypeOK'
  <1>1. ASSUME NEW r \in Requests, NEW p \in live \cup {NoThread},
               NEW m \in MessageIds \cup {NoMessage}, Create(r, p, m)
        PROVE  TypeOK'
    <2>1. [Idle EXCEPT !.op = "create", !.parent = p, !.at = m] \in Request
      BY DEF Idle, Request, TypeOK
    <2>2. QED
      BY <1>1, <2>1, BecomeTyped DEF Create, TypeOK
  <1>2. ASSUME NEW r \in Requests, NEW t \in ThreadIds, Delete(r, t)
        PROVE  TypeOK'
    <2>1. [Idle EXCEPT !.op = "delete", !.thread = t, !.parent = row[t].parent,
                       !.at = row[t].at] \in Request
      BY RowParts DEF Idle, Request
    <2>2. QED
      BY <1>2, <2>1, BecomeTyped DEF Delete, TypeOK
  <1>3. ASSUME NEW r \in Requests, NEW t \in ThreadIds, Cascade(r, t)
        PROVE  TypeOK'
    <2>1. Descendants(t) \subseteq ThreadIds
      BY DescendantsLive DEF TypeOK
    <2>2. [Idle EXCEPT !.op = "cascade", !.thread = t, !.rows = Descendants(t)] \in Request
      BY <2>1 DEF Idle, Request
    <2>3. QED
      BY <1>3, <2>2, BecomeTyped DEF Cascade, TypeOK
  <1>4. ASSUME NEW r \in Requests, NEW t \in ThreadIds, InsertThread(r, t)
        PROVE  TypeOK'
    <2>1. req' \in [Requests -> Request]
      BY <1>4, RequestIdleTyped, BecomeTyped DEF InsertThread
    <2>2. CASE live' = live
      BY <1>4, <2>1, <2>2 DEF InsertThread, TypeOK
    <2>3. CASE live' # live
      <3> DEFINE p == req[r].parent
      <3>1. /\ p # NoThread => p \in live
            /\ live' = live \cup {t}
            /\ used' = used \cup {t}
            /\ row' = [row EXCEPT ![t] = [parent |-> p, at |-> req[r].at]]
            /\ line' = [line EXCEPT ![t] = IF p = NoThread THEN {} ELSE line[p] \cup {p}]
            /\ raced' = raced \cup {t} \/ raced' = raced
            /\ message' = message
        BY <1>4, <2>3 DEF InsertThread
      <3>2. [parent |-> p, at |-> req[r].at] \in Row
        BY RequestParts DEF Row
      <3>3. (IF p = NoThread THEN {} ELSE line[p] \cup {p}) \in SUBSET ThreadIds
        BY <3>1 DEF TypeOK
      <3> HIDE DEF p
      <3>4. row' \in [ThreadIds -> Row]
        BY <3>1, <3>2 DEF TypeOK
      <3>5. line' \in [ThreadIds -> SUBSET ThreadIds]
        BY <3>1, <3>3 DEF TypeOK
      <3>6. QED
        BY <2>1, <3>1, <3>4, <3>5 DEF TypeOK
    <2>4. QED
      BY <2>2, <2>3
  <1>5. ASSUME NEW r \in Requests, MoveChildren(r)
        PROVE  TypeOK'
    <2>1. Children(req[r].thread) \subseteq ThreadIds
      BY DEF Children, TypeOK
    <2>2. [req[r] EXCEPT !.op = "moved", !.rows = Children(req[r].thread)] \in Request
      BY <2>1, RequestParts DEF Request
    <2>3. \/ Become(r, Idle)
          \/ req' = [req EXCEPT ![r] =
                       [req[r] EXCEPT !.op = "moved", !.rows = Children(req[r].thread)]]
      BY <1>5 DEF MoveChildren
    <2>4. req' \in [Requests -> Request]
      BY <2>2, <2>3, RequestIdleTyped, BecomeTyped DEF TypeOK
    <2>5. QED
      BY <1>5, <2>4 DEF MoveChildren, TypeOK
  <1>6. ASSUME NEW r \in Requests, RemoveThread(r)
        PROVE  TypeOK'
    <2>1. req' \in [Requests -> Request]
      BY <1>6, RequestIdleTyped, BecomeTyped DEF RemoveThread
    <2>2. row' \in [ThreadIds -> Row]
      <3>1. ASSUME NEW t \in ThreadIds
            PROVE  [row[t] EXCEPT !.parent = req[r].parent, !.at = req[r].at] \in Row
        BY RowParts, RequestParts DEF Row
      <3>2. QED
        BY <1>6, <3>1, UnlinkedTyped DEF RemoveThread
    <2>3. QED
      BY <1>6, <2>1, <2>2 DEF RemoveThread, Without, Absent, TypeOK
  <1>7. ASSUME NEW r \in Requests, RemoveSubtree(r)
        PROVE  TypeOK'
    <2>1. req' \in [Requests -> Request]
      BY <1>7, RequestIdleTyped, BecomeTyped DEF RemoveSubtree
    <2>2. row' \in [ThreadIds -> Row]
      BY <1>7, UnlinkedTyped DEF RemoveSubtree
    <2>3. QED
      BY <1>7, <2>1, <2>2 DEF RemoveSubtree, Without, Absent, TypeOK
  <1>8. ASSUME NEW r \in Requests, BreakDeadlock(r)
        PROVE  TypeOK'
    BY <1>8, RequestIdleTyped, BecomeTyped DEF BreakDeadlock, TypeOK
  <1>9. ASSUME NEW m \in MessageIds, NEW t \in ThreadIds,
               InsertMessage(m, t) \/ UpsertMessage(m, t)
        PROVE  TypeOK'
    BY <1>9 DEF InsertMessage, UpsertMessage, TypeOK
  <1>10. CASE UNCHANGED vars
    BY <1>10 DEF vars, TypeOK
  <1>11. QED
    BY <1>1, <1>2, <1>3, <1>4, <1>5, <1>6, <1>7, <1>8, <1>9, <1>10 DEF Next, Finish

\* Every variable of the threads keeps its type, whatever requests overlap.
THEOREM ThreadsTypeCorrect == Spec => []TypeOK
  BY ThreadsInitTyped, ThreadsNextTyped, PTL DEF Spec

-----------------------------------------------------------------------------
(* The tree.                                                                *)

\* A thread has one nearest ancestor.
LEMMA OneNearest ==
    ASSUME TypeOK, Lines, NEW t \in used, NEW p, NEW q,
           p = NoThread \/ p \in line[t] \cap live,
           q = NoThread \/ q \in line[t] \cap live,
           PlacedUnder(t, p), PlacedUnder(t, q)
    PROVE  p = q
  <1>1. NoThread \notin live
    BY ThreadsAssumption DEF TypeOK
  <1>2. CASE p = NoThread \/ q = NoThread
    BY <1>1, <1>2 DEF PlacedUnder
  <1>3. CASE p # NoThread /\ q # NoThread
    <2>1. /\ p \in used /\ q \in used
          /\ p \in line[q] \cup {q} /\ q \in line[p] \cup {p}
      BY <1>3 DEF PlacedUnder, TypeOK
    <2>2. ASSUME p # q PROVE FALSE
      <3>1. p \in line[q] /\ q \in line[p]
        BY <2>1, <2>2
      <3>2. line[q] \subseteq line[p]
        BY <2>1, <3>1 DEF Lines
      <3>3. QED
        BY <2>1, <3>1, <3>2 DEF Lines
    <2>3. QED
      BY <2>2
  <1>4. QED
    BY <1>2, <1>3

\* The ancestors of a thread no deletion missed were not missed either.
LEMMA CleanAbove ==
    ASSUME Lines, NEW t \in used, Clean(t), NEW a \in line[t]
    PROVE  Clean(a)
  BY DEF Lines, Clean

\* The parent of a thread is a thread that is there, and not itself.
LEMMA ParentKnown ==
    ASSUME TypeOK, Lines, ParentAbove, NEW t \in live
    PROVE  /\ t \in used /\ t \in ThreadIds /\ t # NoThread
           /\ row[t].parent # NoThread =>
                 row[t].parent \in live /\ row[t].parent \in line[t] /\ row[t].parent # t
  BY ThreadsAssumption DEF TypeOK, Lines, ParentAbove

\* Losing threads leaves a nearest ancestor that stays where it is.
LEMMA PlacedAfter ==
    ASSUME NEW t, NEW p, PlacedUnder(t, p), live' \subseteq live, line' = line
    PROVE  PlacedUnder(t, p)'
  BY DEF PlacedUnder

-----------------------------------------------------------------------------
(* Steps that change a request and nothing else.                            *)

LEMMA RequestStep ==
    ASSUME ThreadsInv, TypeOK', NEW r \in Requests, NEW x, Become(r, x),
           UNCHANGED <<live, used, row, message, line, raced>>,
           (Reads(r) /\ Holds(r) /\ Gathers(r))',
           \A u \in Requests : u # r => (Updated(r) \cap Updated(u) = {})'
    PROVE  ThreadsInv'
  <1>1. \A u \in Requests : u # r => req'[u] = req[u]
    BY DEF Become, ThreadsInv, TypeOK
  <1>2. (Lines /\ ParentAbove /\ ForkPoint /\ Placed)'
    BY DEF ThreadsInv, Lines, ParentAbove, ForkPoint, Placed, PlacedUnder, Clean
  <1>3. ASSUME NEW u \in Requests, u # r
        PROVE  (Reads(u) /\ Holds(u) /\ Gathers(u))'
    <2>1. Reads(u) /\ Holds(u) /\ Gathers(u)
      BY DEF ThreadsInv
    <2>2. req'[u] = req[u]
      BY <1>1, <1>3
    <2>3. QED
      BY <2>1, <2>2 DEF Reads, Holds, Gathers, PlacedUnder, Clean
  <1>4. UpdatesApart'
    <2>1. ASSUME NEW u \in Requests, NEW v \in Requests, u # v
          PROVE  (Updated(u) \cap Updated(v) = {})'
      <3>1. CASE u = r \/ v = r
        BY <2>1, <3>1
      <3>2. CASE u # r /\ v # r
        BY <1>1, <2>1, <3>2 DEF ThreadsInv, UpdatesApart, Updated
      <3>3. QED
        BY <3>1, <3>2
    <2>2. QED
      BY <2>1 DEF UpdatesApart
  <1>5. QED
    BY <1>2, <1>3, <1>4 DEF ThreadsInv

\* A request that has updated nothing and reads nothing.
LEMMA IdleStep ==
    ASSUME ThreadsInv, TypeOK', NEW r \in Requests, Become(r, Idle),
           UNCHANGED <<live, used, row, message, line, raced>>
    PROVE  ThreadsInv'
  <1>1. req'[r] = Idle
    BY DEF Become, ThreadsInv, TypeOK
  <1>2. (Reads(r) /\ Holds(r) /\ Gathers(r) /\ Updated(r) = {})'
    BY <1>1 DEF Reads, Holds, Gathers, Updated, Idle
  <1>3. QED
    BY <1>2, RequestStep

LEMMA CreateKeeps ==
    ASSUME ThreadsInv, TypeOK', NEW r \in Requests, NEW p \in live \cup {NoThread},
           NEW m \in MessageIds \cup {NoMessage}, Create(r, p, m)
    PROVE  ThreadsInv'
  <1> DEFINE x == [Idle EXCEPT !.op = "create", !.parent = p, !.at = m]
  <1>1. x.op = "create" /\ x.parent = p /\ x.at = m
    BY DEF Idle
  <1>2. Become(r, x) /\ UNCHANGED <<live, used, row, message, line, raced>>
    BY DEF Create
  <1> HIDE DEF x
  <1>3. req'[r] = x
    BY <1>2 DEF Become, ThreadsInv, TypeOK
  <1>4. (Holds(r) /\ Gathers(r) /\ Updated(r) = {})'
    BY <1>1, <1>3 DEF Holds, Gathers, Updated
  <1>5. Reads(r)'
    <2>1. p \in used \cup {NoThread}
      BY DEF ThreadsInv, TypeOK
    <2>2. m # NoMessage => p # NoThread /\ message[m].thread = p
      BY DEF Create
    <2>3. QED
      BY <1>1, <1>2, <1>3, <2>1, <2>2 DEF Reads
  <1>6. QED
    BY <1>2, <1>4, <1>5, RequestStep

LEMMA DeleteThreadKeeps ==
    ASSUME ThreadsInv, TypeOK', NEW r \in Requests, NEW t \in ThreadIds, Delete(r, t)
    PROVE  ThreadsInv'
  <1> DEFINE x == [Idle EXCEPT !.op = "delete", !.thread = t,
                               !.parent = row[t].parent, !.at = row[t].at]
  <1>1. x.op = "delete" /\ x.thread = t /\ x.parent = row[t].parent /\ x.at = row[t].at
    BY DEF Idle
  <1>2. Become(r, x) /\ UNCHANGED <<live, used, row, message, line, raced>> /\ t \in live
    BY DEF Delete
  <1> HIDE DEF x
  <1>3. req'[r] = x
    BY <1>2 DEF Become, ThreadsInv, TypeOK
  <1>4. (Holds(r) /\ Gathers(r) /\ Updated(r) = {})'
    BY <1>1, <1>3 DEF Holds, Gathers, Updated
  <1>5. Reads(r)'
    <2>1. /\ t \in used
          /\ row[t].parent # NoThread => row[t].parent \in live /\ row[t].parent \in line[t]
      BY <1>2, ParentKnown DEF ThreadsInv
    <2>2. live \subseteq used
      BY DEF ThreadsInv, TypeOK
    <2>3. row[t].at # NoMessage =>
            row[t].parent # NoThread /\ message[row[t].at].thread = row[t].parent
      BY <1>2 DEF ThreadsInv, ForkPoint
    <2>4. Clean(t) => PlacedUnder(t, row[t].parent)
      BY <1>2 DEF ThreadsInv, Placed
    <2>5. Clean(t)' => PlacedUnder(t, row[t].parent)'
      BY <1>2, <2>4 DEF Clean, PlacedUnder
    <2>6. QED
      BY <1>1, <1>2, <1>3, <2>1, <2>2, <2>3, <2>5 DEF Reads, Clean, PlacedUnder
  <1>6. QED
    BY <1>2, <1>4, <1>5, RequestStep

\* The threads under a descendant are descendants.
LEMMA DescendantsClosed ==
    ASSUME NEW t, NEW c \in live, row[c].parent \in Descendants(t)
    PROVE  c \in Descendants(t)
  BY DEF Descendants

LEMMA CascadeKeeps ==
    ASSUME ThreadsInv, TypeOK', NEW r \in Requests, NEW t \in ThreadIds, Cascade(r, t)
    PROVE  ThreadsInv'
  <1> DEFINE x == [Idle EXCEPT !.op = "cascade", !.thread = t, !.rows = Descendants(t)]
  <1>1. x.op = "cascade" /\ x.rows = Descendants(t)
    BY DEF Idle
  <1>2. Become(r, x) /\ UNCHANGED <<live, used, row, message, line, raced>>
    BY DEF Cascade
  <1> HIDE DEF x
  <1>3. req'[r] = x
    BY <1>2 DEF Become, ThreadsInv, TypeOK
  <1>4. (Reads(r) /\ Holds(r) /\ Updated(r) = {})'
    BY <1>1, <1>3 DEF Reads, Holds, Updated
  <1>5. Gathers(r)'
    BY <1>1, <1>2, <1>3, DescendantsClosed DEF Gathers
  <1>6. QED
    BY <1>2, <1>4, <1>5, RequestStep

\* No other request has updated a child of the thread, and the parent that was
\* read is there, or the request ends.
LEMMA MoveKeeps ==
    ASSUME ThreadsInv, TypeOK', NEW r \in Requests, MoveChildren(r)
    PROVE  ThreadsInv'
  <1> DEFINE d    == req[r].thread
             kids == Children(d)
             x    == [req[r] EXCEPT !.op = "moved", !.rows = kids]
  <1>0. req[r].op = "delete" /\ UNCHANGED <<live, used, row, message, line, raced>>
    BY DEF MoveChildren
  <1>1. CASE Become(r, Idle)
    BY <1>0, <1>1, IdleStep
  <1>2. CASE ~Become(r, Idle)
    <2>1. /\ Become(r, x)
          /\ kids = {} \/ req[r].parent = NoThread \/ req[r].parent \in live
      BY <1>2 DEF MoveChildren, Become, ThreadsInv, TypeOK
    <2>2. /\ x.op = "moved" /\ x.rows = kids /\ x.thread = d
          /\ x.parent = req[r].parent /\ x.at = req[r].at
      BY RequestParts DEF ThreadsInv, Request
    <2>3. \A u \in Requests : u # r => kids \cap Updated(u) = {}
      BY <1>0 DEF MoveChildren, Clear, Blocks, Updates
    <2>4. kids = {c \in live : row[c].parent = d}
      BY DEF Children
    <2>5. Reads(r)
      BY DEF ThreadsInv
    <2> HIDE DEF x, kids
    <2>6. req'[r] = x /\ \A u \in Requests : u # r => req'[u] = req[u]
      BY <2>1 DEF Become, ThreadsInv, TypeOK
    <2>7. Reads(r)'
      BY <1>0, <2>2, <2>5, <2>6 DEF Reads, Clean, PlacedUnder
    <2>8. Holds(r)'
      BY <1>0, <2>1, <2>2, <2>4, <2>6 DEF Holds
    <2>9. Gathers(r)'
      BY <1>0, <2>2, <2>4, <2>6 DEF Gathers
    <2>10. \A u \in Requests : u # r => (Updated(r) \cap Updated(u) = {})'
      BY <2>2, <2>3, <2>6 DEF Updated
    <2>11. QED
      BY <1>0, <2>1, <2>7, <2>8, <2>9, <2>10, RequestStep
  <1>3. QED
    BY <1>1, <1>2

-----------------------------------------------------------------------------
(* A thread is inserted.                                                    *)

LEMMA InsertKeeps ==
    ASSUME ThreadsInv, TypeOK', NEW r \in Requests, NEW t \in ThreadIds, InsertThread(r, t)
    PROVE  ThreadsInv'
  <1> DEFINE p == req[r].parent
  <1>0. req[r].op = "create" /\ t \notin used /\ Become(r, Idle) /\ message' = message
    BY DEF InsertThread
  <1>1. CASE UNCHANGED <<live, used, row, line, raced>>
    BY <1>0, <1>1, IdleStep
  <1>2. CASE ~UNCHANGED <<live, used, row, line, raced>>
    <2>1. /\ p # NoThread => p \in live
          /\ live' = live \cup {t}
          /\ used' = used \cup {t}
          /\ row' = [row EXCEPT ![t] = [parent |-> p, at |-> req[r].at]]
          /\ line' = [line EXCEPT ![t] = IF p = NoThread THEN {} ELSE line[p] \cup {p}]
          /\ raced' = IF Deleting(p) THEN raced \cup {t} ELSE raced
      BY <1>2 DEF InsertThread
    <2>2. /\ row'[t] = [parent |-> p, at |-> req[r].at]
          /\ line'[t] = IF p = NoThread THEN {} ELSE line[p] \cup {p}
          /\ \A c \in ThreadIds : c # t => row'[c] = row[c] /\ line'[c] = line[c]
      BY <2>1 DEF ThreadsInv, TypeOK
    <2>3. /\ live \subseteq used /\ used \subseteq ThreadIds
          /\ t # NoThread /\ t \notin live
      BY <1>0, ThreadsAssumption DEF ThreadsInv, TypeOK
    <2>4. /\ req'[r] = Idle
          /\ \A u \in Requests : u # r => req'[u] = req[u]
      BY <1>0 DEF Become, ThreadsInv, TypeOK
    <2>5. \A c \in used : c # t /\ line[c] \subseteq used /\ t \notin line[c]
      BY <1>0 DEF ThreadsInv, Lines
    <2>6. Lines'
      <3>1. ASSUME NEW c \in used
            PROVE  /\ line'[c] \subseteq used' /\ c \notin line'[c]
                   /\ \A a \in line'[c] : line'[a] \subseteq line'[c]
        BY <2>1, <2>2, <2>3, <2>5 DEF ThreadsInv, Lines
      <3>2. /\ line'[t] \subseteq used' /\ t \notin line'[t]
            /\ \A a \in line'[t] : line'[a] \subseteq line'[t]
        <4>1. CASE p = NoThread
          BY <2>2, <4>1
        <4>2. CASE p # NoThread
          <5>1. p \in used /\ line'[t] = line[p] \cup {p}
            BY <2>1, <2>2, <2>3, <4>2
          <5>2. line[p] \subseteq used /\ \A a \in line[p] : line[a] \subseteq line[p]
            BY <5>1 DEF ThreadsInv, Lines
          <5>3. \A a \in line'[t] : line'[a] = line[a]
            BY <2>2, <2>3, <2>5, <5>1, <5>2
          <5>4. QED
            BY <2>1, <2>5, <5>1, <5>2, <5>3
        <4>3. QED
          BY <4>1, <4>2
      <3>3. QED
        BY <2>1, <3>1, <3>2 DEF Lines
    <2>7. ParentAbove'
      BY <2>1, <2>2, <2>3 DEF ThreadsInv, ParentAbove
    <2>8. ForkPoint'
      <3>1. req[r].at # NoMessage => p # NoThread /\ message[req[r].at].thread = p
        BY <1>0, <2>1 DEF ThreadsInv, Reads
      <3>2. QED
        BY <1>0, <2>1, <2>2, <2>3, <3>1 DEF ThreadsInv, ForkPoint
    <2>9. \A c \in used : Clean(c)' => Clean(c)
      BY <2>1, <2>2, <2>3, <2>5 DEF Clean
    <2>10. Placed'
      <3>1. ASSUME NEW c \in live, Clean(c)'
            PROVE  PlacedUnder(c, row[c].parent)'
        <4>1. c \in used /\ row'[c] = row[c] /\ row[c].parent \in used \cup {NoThread}
          BY <2>2, <2>3, <2>5 DEF ThreadsInv, ParentAbove
        <4>2. PlacedUnder(c, row[c].parent)
          BY <2>9, <3>1, <4>1 DEF ThreadsInv, Placed
        <4>3. QED
          BY <2>1, <2>2, <2>3, <2>5, <4>1, <4>2 DEF PlacedUnder
      <3>2. PlacedUnder(t, row[t].parent)'
        <4>1. CASE p = NoThread
          BY <2>2, <4>1 DEF PlacedUnder
        <4>2. CASE p # NoThread
          BY <2>1, <2>2, <2>3, <4>2 DEF PlacedUnder
        <4>3. QED
          BY <4>1, <4>2
      <3>3. QED
        BY <2>1, <3>1, <3>2 DEF Placed
    <2>11. ASSUME NEW u \in Requests
           PROVE  (Reads(u) /\ Holds(u) /\ Gathers(u))'
      <3>1. CASE u = r
        BY <2>4, <3>1 DEF Reads, Holds, Gathers, Idle
      <3>2. CASE u # r
        <4>0. req'[u] = req[u] /\ Reads(u) /\ Holds(u) /\ Gathers(u)
          BY <2>4, <3>2 DEF ThreadsInv
        <4>1. Reads(u)'
          <5>1. ASSUME req[u].op \in {"create", "delete", "moved"}
                PROVE  /\ req[u].parent \in used' \cup {NoThread}
                       /\ req[u].at # NoMessage =>
                             /\ req[u].parent # NoThread
                             /\ req[u].parent \in live' =>
                                   message'[req[u].at].thread = req[u].parent
            BY <1>0, <2>1, <2>3, <4>0, <5>1 DEF Reads
          <5>2. ASSUME req[u].op \in {"delete", "moved"}
                PROVE  /\ req[u].thread \in used'
                       /\ req[u].parent # NoThread => req[u].parent \in line'[req[u].thread]
            BY <2>1, <2>2, <2>3, <2>5, <4>0, <5>2 DEF Reads
          <5>3. ASSUME req[u].op \in {"delete", "moved"}, Clean(req[u].thread)'
                PROVE  PlacedUnder(req[u].thread, req[u].parent)'
            <6>1. /\ req[u].thread \in used /\ req[u].parent \in used \cup {NoThread}
                  /\ Clean(req[u].thread) => PlacedUnder(req[u].thread, req[u].parent)
              BY <4>0, <5>3 DEF Reads
            <6>2. Clean(req[u].thread)
              BY <2>1, <2>2, <2>3, <2>5, <4>0, <5>3, <6>1 DEF Clean
            <6>3. QED
              BY <2>1, <2>2, <2>3, <2>5, <4>0, <6>1, <6>2 DEF PlacedUnder
          <5>4. QED
            BY <4>0, <5>1, <5>2, <5>3 DEF Reads, Clean, PlacedUnder
        <4>2. Holds(u)'
          BY <2>1, <2>2, <2>3, <4>0 DEF Holds
        <4>3. Gathers(u)'
          <5>1. ASSUME NEW c \in live
                PROVE  /\ req[u].op = "moved" /\ row'[c].parent = req[u].thread =>
                             c \in req[u].rows \/ ~Clean(c)'
                       /\ req[u].op = "cascade" /\ row'[c].parent \in req[u].rows =>
                             c \in req[u].rows \/ ~Clean(c)'
            <6>1. row'[c] = row[c] /\ (Clean(c)' => Clean(c))
              BY <2>2, <2>3, <2>9
            <6>2. QED
              BY <4>0, <6>1 DEF Gathers
          <5>2. /\ req[u].op = "moved" /\ p = req[u].thread => ~Clean(t)'
                /\ req[u].op = "cascade" /\ p \in req[u].rows => ~Clean(t)'
            BY <2>1 DEF Deleting, Clean
          <5>3. QED
            BY <2>1, <2>2, <4>0, <5>1, <5>2 DEF Gathers, Clean
        <4>4. QED
          BY <4>1, <4>2, <4>3
      <3>3. QED
        BY <3>1, <3>2
    <2>12. UpdatesApart'
      BY <2>4 DEF ThreadsInv, UpdatesApart, Updated, Idle
    <2>13. QED
      BY <2>6, <2>7, <2>8, <2>10, <2>11, <2>12 DEF ThreadsInv
  <1>3. QED
    BY <1>1, <1>2

-----------------------------------------------------------------------------
(* Threads are removed.                                                     *)

Removal(r) == RemoveThread(r) \/ RemoveSubtree(r)

\* What a removal does to the rows, in one form for both.
LEMMA RemovalEffect ==
    ASSUME TypeOK, NEW r \in Requests, Removal(r)
    PROVE  /\ live' = live \ Removes(r)
           /\ message' = [m \in MessageIds |-> IF message[m].thread \in Removes(r) THEN Absent
                                               ELSE message[m]]
           /\ \A t \in ThreadIds :
                 row'[t] = IF t \in Updated(r)
                           THEN [row[t] EXCEPT !.parent = req[r].parent, !.at = req[r].at]
                           ELSE Unlinked(t, Removes(r))
           /\ UNCHANGED <<used, line, raced>>
           /\ req'[r] = Idle
           /\ \A u \in Requests : u # r => req'[u] = req[u]
  <1>1. CASE RemoveThread(r)
    BY <1>1 DEF RemoveThread, Without, Updated, Become, TypeOK
  <1>2. CASE RemoveSubtree(r)
    BY <1>2 DEF RemoveSubtree, Without, Updated, Become, TypeOK
  <1>3. QED
    BY <1>1, <1>2 DEF Removal

\* What the locks of another request keep a removal from.
LEMMA RemovalSpares ==
    ASSUME TypeOK, NEW r \in Requests, Removal(r), NEW u \in Requests, u # r
    PROVE  /\ Removes(r) \cap (Updated(u) \cup Pinned(u)) = {}
           /\ \A c \in live \ Removes(r) :
                 row[c].parent \in Removes(r) /\ c \notin Updated(r) => c \notin Updated(u)
  <1>1. ~Blocks(u, r) /\ req[r].op # "delete"
    BY DEF Removal, RemoveThread, RemoveSubtree, Clear
  <1>2. Updates(r) \cap Updated(u) = {} /\ Removes(r) \cap (Updated(u) \cup Pinned(u)) = {}
    BY <1>1 DEF Blocks
  <1>3. Updates(r) = {c \in live \ Removes(r) : row[c].parent \in Removes(r)} \ Updated(r)
    BY <1>1 DEF Updates
  <1>4. QED
    BY <1>2, <1>3

\* The threads a removal moves up: they hang under the thread it removes, and the
\* parent it read is another thread they were forked under.
LEMMA MovesUp ==
    ASSUME ThreadsInv, NEW r \in Requests, Removal(r), NEW t \in Updated(r)
    PROVE  /\ req[r].op = "moved"
           /\ t \in live \ Removes(r)
           /\ row[t].parent = req[r].thread
           /\ req[r].thread \in live
           /\ req[r].thread \in line[t]
           /\ Removes(r) = {req[r].thread}
           /\ req[r].parent # NoThread =>
                 /\ req[r].parent \in live \ Removes(r)
                 /\ req[r].parent \in line[req[r].thread]
                 /\ req[r].parent \in line[t]
  <1> DEFINE d == req[r].thread
             p == req[r].parent
  <1>1. req[r].op = "moved" /\ t \in req[r].rows
    BY DEF Updated
  <1>2. t \in live /\ row[t].parent = d /\ p \in live \cup {NoThread}
    BY <1>1 DEF ThreadsInv, Holds
  <1>3. d \in used /\ d # NoThread /\ (p # NoThread => p \in line[d])
    BY <1>1, ThreadsAssumption DEF ThreadsInv, Reads, TypeOK
  <1>4. d \in live /\ d \in line[t] /\ d # t /\ t \in used
    BY <1>2, <1>3, ParentKnown DEF ThreadsInv
  <1>5. Removes(r) = {d}
    BY <1>1, <1>4 DEF Removes
  <1>6. d \notin line[d] /\ line[d] \subseteq line[t]
    BY <1>3, <1>4 DEF ThreadsInv, Lines
  <1>7. QED
    BY <1>1, <1>2, <1>3, <1>4, <1>5, <1>6

\* One no deletion missed hung under a thread that was under the parent the
\* removal read.
LEMMA MovesUpOne ==
    ASSUME ThreadsInv, NEW r \in Requests, Removal(r), NEW t \in Updated(r), Clean(t)
    PROVE  /\ Clean(req[r].thread)
           /\ row[req[r].thread].parent = req[r].parent
           /\ PlacedUnder(req[r].thread, req[r].parent)
  <1> DEFINE d == req[r].thread
             p == req[r].parent
  <1>1. /\ req[r].op = "moved" /\ t \in live /\ d \in live /\ d \in line[t]
        /\ p = NoThread \/ p \in line[d] \cap live
    BY MovesUp
  <1>2. t \in used /\ d \in used
    BY <1>1 DEF ThreadsInv, TypeOK
  <1>3. Clean(d)
    BY <1>1, <1>2, CleanAbove DEF ThreadsInv
  <1>4. PlacedUnder(d, p)
    BY <1>1, <1>3 DEF ThreadsInv, Reads
  <1>5. PlacedUnder(d, row[d].parent)
    BY <1>1, <1>3 DEF ThreadsInv, Placed
  <1>6. row[d].parent = NoThread \/ row[d].parent \in line[d] \cap live
    BY <1>1, ParentKnown DEF ThreadsInv
  <1> HIDE DEF d, p
  <1>7. row[d].parent = p
    BY <1>1, <1>2, <1>4, <1>5, <1>6, OneNearest DEF ThreadsInv
  <1>8. QED
    BY <1>3, <1>4, <1>7 DEF d, p

\* Nothing that was not missed loses its parent to a removal without being moved.
LEMMA CleanKeepsParent ==
    ASSUME ThreadsInv, NEW r \in Requests, Removal(r), NEW t \in live \ Removes(r),
           Clean(t), t \notin Updated(r)
    PROVE  row[t].parent \notin Removes(r)
  <1>1. CASE req[r].op = "moved"
    BY <1>1 DEF ThreadsInv, Gathers, Updated, Removes
  <1>2. CASE req[r].op = "cascade"
    BY <1>2 DEF ThreadsInv, Gathers, Removes
  <1>3. QED
    BY <1>1, <1>2 DEF Removal, RemoveThread, RemoveSubtree

LEMMA RemovalKeeps ==
    ASSUME ThreadsInv, TypeOK', NEW r \in Requests, Removal(r)
    PROVE  ThreadsInv'
  <1> DEFINE gone == Removes(r)
             d    == req[r].thread
             p    == req[r].parent
  <1>1. /\ live' = live \ gone
        /\ message' = [m \in MessageIds |-> IF message[m].thread \in gone THEN Absent
                                            ELSE message[m]]
        /\ UNCHANGED <<used, line, raced>>
        /\ req'[r] = Idle
        /\ \A u \in Requests : u # r => req'[u] = req[u]
    BY RemovalEffect DEF ThreadsInv
  <1>2. \A t \in Updated(r) : t \in ThreadIds => row'[t].parent = p /\ row'[t].at = req[r].at
    BY RemovalEffect, RowParts DEF ThreadsInv, Row
  <1>3. ASSUME NEW t \in live', t \notin Updated(r)
        PROVE  /\ row'[t].parent = IF row[t].parent \in gone THEN NoThread ELSE row[t].parent
               /\ row'[t].at = IF Dropped(row[t].at, gone) THEN NoMessage ELSE row[t].at
    <2>1. t \in ThreadIds /\ t \notin gone
      BY <1>1, <1>3 DEF ThreadsInv, TypeOK
    <2>2. row'[t] = [row[t] EXCEPT !.parent = IF @ \in gone THEN NoThread ELSE @,
                                   !.at = IF Dropped(@, gone) THEN NoMessage ELSE @]
      BY <1>3, <2>1, RemovalEffect DEF ThreadsInv, Unlinked
    <2>3. QED
      BY <2>1, <2>2, RowParts DEF ThreadsInv, Row
  <1>4. NoThread \notin live /\ NoThread \notin gone /\ gone \subseteq live
    BY RemovesLive, ThreadsAssumption DEF ThreadsInv, TypeOK
  <1>5. live \subseteq used /\ used \subseteq ThreadIds
    BY DEF ThreadsInv, TypeOK
  <1> HIDE DEF gone
  <1>6. \A t \in Updated(r) : /\ t \in live' /\ row[t].parent = d /\ d \in gone
                              /\ p # NoThread => p \in live' /\ p \in line[t] /\ p \in line[d]
                              /\ gone = {d} /\ d \in line[t] /\ req[r].op = "moved"
    BY <1>1, MovesUp DEF gone
  <1>7. Lines'
    BY <1>1 DEF ThreadsInv, Lines
  <1>8. ParentAbove'
    <2>1. ASSUME NEW t \in live', row'[t].parent # NoThread
          PROVE  row'[t].parent \in live' \cap line'[t]
      <3>1. CASE t \in Updated(r)
        BY <1>1, <1>2, <1>5, <1>6, <2>1, <3>1
      <3>2. CASE t \notin Updated(r)
        BY <1>1, <1>3, <2>1, <3>2 DEF ThreadsInv, ParentAbove
      <3>3. QED
        BY <3>1, <3>2
    <2>2. QED
      BY <2>1 DEF ParentAbove
  <1>9. ForkPoint'
    <2>1. ASSUME NEW t \in live', row'[t].at # NoMessage
          PROVE  /\ row'[t].parent # NoThread
                 /\ message'[row'[t].at].thread = row'[t].parent
      <3>0. row'[t].at \in MessageIds
        BY <1>1, <1>5, <2>1 DEF TypeOK, Row
      <3>1. CASE t \in Updated(r)
        <4>1. row'[t].parent = p /\ row'[t].at = req[r].at /\ req[r].op = "moved"
          BY <1>1, <1>2, <1>5, <1>6, <3>1
        <4>2. p # NoThread /\ p \in live' /\ message[req[r].at].thread = p
          <5>1. p # NoThread
            BY <2>1, <4>1 DEF ThreadsInv, Reads
          <5>2. p \in live'
            BY <1>6, <3>1, <5>1
          <5>3. QED
            BY <1>1, <2>1, <4>1, <5>1, <5>2 DEF ThreadsInv, Reads
        <4>3. QED
          BY <1>1, <3>0, <4>1, <4>2
      <3>2. CASE t \notin Updated(r)
        <4>1. row'[t].at = row[t].at /\ ~Dropped(row[t].at, gone)
          BY <1>3, <2>1, <3>2
        <4>2. row[t].parent # NoThread /\ message[row[t].at].thread = row[t].parent
          BY <1>1, <2>1, <4>1 DEF ThreadsInv, ForkPoint
        <4>3. row[t].parent \notin gone
          BY <2>1, <4>1, <4>2 DEF Dropped
        <4>4. QED
          BY <1>1, <1>3, <3>0, <3>2, <4>1, <4>2, <4>3
      <3>3. QED
        BY <3>1, <3>2
    <2>2. QED
      BY <2>1 DEF ForkPoint
  <1>10. ASSUME NEW t \in live', Clean(t)
         PROVE  IF t \in Updated(r) THEN row'[t].parent = p
                ELSE row'[t].parent = row[t].parent
    <2>1. CASE t \in Updated(r)
      BY <1>1, <1>2, <1>5, <2>1
    <2>2. CASE t \notin Updated(r)
      BY <1>1, <1>3, <1>10, <2>2, CleanKeepsParent DEF gone
    <2>3. QED
      BY <2>1, <2>2
  <1>11. Placed'
    <2>1. ASSUME NEW t \in live', Clean(t)
          PROVE  PlacedUnder(t, row[t].parent)'
      <3>1. PlacedUnder(t, row[t].parent)
        BY <1>1, <2>1 DEF ThreadsInv, Placed
      <3>2. CASE t \in Updated(r)
        <4>1. PlacedUnder(d, p) /\ row'[t].parent = p
          BY <1>10, <2>1, <3>2, MovesUpOne
        <4>2. line[t] \cap live \subseteq line[d] \cup {d}
          BY <1>4, <1>6, <3>1, <3>2 DEF PlacedUnder
        <4>3. QED
          BY <1>1, <1>6, <3>2, <4>1, <4>2 DEF PlacedUnder
      <3>3. CASE t \notin Updated(r)
        BY <1>1, <1>10, <2>1, <3>1, <3>3 DEF PlacedUnder
      <3>4. QED
        BY <3>2, <3>3
    <2>2. QED
      BY <1>1, <2>1 DEF Placed, Clean
  <1>12. ASSUME NEW u \in Requests
         PROVE  (Reads(u) /\ Holds(u) /\ Gathers(u))'
    <2>1. CASE u = r
      BY <1>1, <2>1 DEF Reads, Holds, Gathers, Idle
    <2>2. CASE u # r
      <3>0. req'[u] = req[u] /\ Reads(u) /\ Holds(u) /\ Gathers(u)
        BY <1>1, <2>2 DEF ThreadsInv
      <3>1. Reads(u)'
        <4>1. ASSUME req[u].op \in {"create", "delete", "moved"}, req[u].at # NoMessage
              PROVE  /\ req[u].parent # NoThread
                     /\ req[u].parent \in live' => message'[req[u].at].thread = req[u].parent
          <5>1. req[u].at \in MessageIds
            BY <4>1, RequestParts DEF ThreadsInv
          <5>2. QED
            BY <1>1, <3>0, <4>1, <5>1 DEF Reads
        <4>2. ASSUME req[u].op \in {"delete", "moved"}, Clean(req[u].thread)'
              PROVE  PlacedUnder(req[u].thread, req[u].parent)'
          <5>1. PlacedUnder(req[u].thread, req[u].parent)
            BY <1>1, <3>0, <4>2 DEF Reads, Clean
          <5>2. QED
            BY <1>1, <3>0, <5>1 DEF PlacedUnder
        <4>3. QED
          BY <1>1, <3>0, <4>1, <4>2 DEF Reads, Clean, PlacedUnder
      <3>2. Holds(u)'
        <4>1. ASSUME req[u].op = "moved"
              PROVE  /\ req[u].rows \subseteq live'
                     /\ \A c \in req[u].rows : row'[c].parent = req[u].thread
                     /\ req[u].rows # {} => req[u].parent \in live' \cup {NoThread}
          <5>1. Updated(u) = req[u].rows
            BY <4>1 DEF Updated
          <5>2. gone \cap req[u].rows = {} /\ gone \cap Pinned(u) = {}
            BY <2>2, <5>1, RemovalSpares DEF ThreadsInv, gone
          <5>3. req[u].rows \subseteq live'
            BY <1>1, <3>0, <4>1, <5>2 DEF Holds
          <5>4. ASSUME NEW c \in req[u].rows
                PROVE  row'[c].parent = req[u].thread
            <6>1. c \in live' /\ row[c].parent = req[u].thread
              BY <3>0, <4>1, <5>3 DEF Holds
            <6>2. c \notin Updated(r)
              BY <2>2, <5>1 DEF ThreadsInv, UpdatesApart
            <6>3. row[c].parent \notin gone
              BY <1>1, <2>2, <5>1, <6>1, <6>2, RemovalSpares DEF ThreadsInv, gone
            <6>4. QED
              BY <1>3, <6>1, <6>2, <6>3
          <5>5. req[u].rows # {} => req[u].parent \in live' \cup {NoThread}
            BY <1>1, <3>0, <4>1, <5>1, <5>2 DEF Holds, Pinned
          <5>6. QED
            BY <5>3, <5>4, <5>5
        <4>2. QED
          BY <3>0, <4>1 DEF Holds
      <3>3. Gathers(u)'
        <4>1. ASSUME NEW c \in live', Clean(c)
              PROVE  /\ req[u].op = "moved" /\ row'[c].parent = req[u].thread =>
                           c \in req[u].rows
                     /\ req[u].op = "cascade" /\ row'[c].parent \in req[u].rows =>
                           c \in req[u].rows
          <5>1. CASE c \notin Updated(r)
            BY <1>1, <1>10, <3>0, <4>1, <5>1 DEF Gathers
          <5>2. CASE c \in Updated(r)
            <6>1. /\ Clean(d) /\ row[d].parent = p /\ row'[c].parent = p
                  /\ d \in gone /\ d \in live /\ row[c].parent = d /\ c \in live
              BY <1>1, <1>4, <1>6, <1>10, <4>1, <5>2, MovesUpOne
            <6>2. ASSUME req[u].op = "moved", p = req[u].thread
                  PROVE  FALSE
              <7>1. d \in req[u].rows
                BY <3>0, <6>1, <6>2 DEF Gathers
              <7>2. QED
                BY <2>2, <6>1, <6>2, <7>1, RemovalSpares DEF ThreadsInv, Updated, gone
            <6>3. ASSUME req[u].op = "cascade", p \in req[u].rows
                  PROVE  c \in req[u].rows
              <7>1. d \in req[u].rows
                BY <3>0, <6>1, <6>3 DEF Gathers
              <7>2. QED
                BY <3>0, <4>1, <6>1, <6>3, <7>1 DEF Gathers
            <6>4. QED
              BY <6>1, <6>2, <6>3
          <5>3. QED
            BY <5>1, <5>2
        <4>2. QED
          BY <1>1, <3>0, <4>1 DEF Gathers, Clean
      <3>4. QED
        BY <3>1, <3>2, <3>3
    <2>3. QED
      BY <2>1, <2>2
  <1>13. UpdatesApart'
    BY <1>1 DEF ThreadsInv, UpdatesApart, Updated, Idle
  <1>14. QED
    BY <1>7, <1>8, <1>9, <1>11, <1>12, <1>13 DEF ThreadsInv

-----------------------------------------------------------------------------
(* Messages, and the invariant.                                             *)

LEMMA MessageKeeps ==
    ASSUME ThreadsInv, TypeOK', NEW m \in MessageIds, NEW t \in ThreadIds,
           InsertMessage(m, t) \/ UpsertMessage(m, t)
    PROVE  ThreadsInv'
  <1>1. UNCHANGED <<live, used, row, req, line, raced>>
    BY DEF InsertMessage, UpsertMessage
  <1>2. \A n \in MessageIds : message[n].thread # NoThread =>
            message'[n].thread = message[n].thread
    BY DEF InsertMessage, UpsertMessage, ThreadsInv, TypeOK
  <1>3. NoThread \notin live
    BY ThreadsAssumption DEF ThreadsInv, TypeOK
  <1>4. (Lines /\ ParentAbove /\ Placed /\ UpdatesApart)'
    BY <1>1 DEF ThreadsInv, Lines, ParentAbove, Placed, PlacedUnder, Clean, UpdatesApart, Updated
  <1>5. ForkPoint'
    <2>1. ASSUME NEW c \in live, row[c].at # NoMessage
          PROVE  row[c].parent # NoThread /\ message'[row[c].at].thread = row[c].parent
      <3>1. row[c].at \in MessageIds
        BY <2>1, RowParts DEF ThreadsInv, TypeOK
      <3>2. row[c].parent # NoThread /\ message[row[c].at].thread = row[c].parent
        BY <2>1 DEF ThreadsInv, ForkPoint
      <3>3. QED
        BY <1>2, <3>1, <3>2
    <2>2. QED
      BY <1>1, <2>1 DEF ForkPoint
  <1>6. ASSUME NEW r \in Requests
        PROVE  (Reads(r) /\ Holds(r) /\ Gathers(r))'
    <2>1. Reads(r) /\ Holds(r) /\ Gathers(r)
      BY DEF ThreadsInv
    <2>2. ASSUME req[r].op \in {"create", "delete", "moved"}, req[r].at # NoMessage,
                 req[r].parent \in live
          PROVE  message'[req[r].at].thread = req[r].parent
      <3>1. req[r].at \in MessageIds
        BY <2>2, RequestParts DEF ThreadsInv
      <3>2. message[req[r].at].thread = req[r].parent
        BY <2>1, <2>2 DEF Reads
      <3>3. QED
        BY <1>2, <1>3, <2>2, <3>1, <3>2
    <2>3. QED
      BY <1>1, <2>1, <2>2 DEF Reads, Holds, Gathers, Clean, PlacedUnder
  <1>7. QED
    BY <1>4, <1>5, <1>6 DEF ThreadsInv

LEMMA InitThreadsInv == Init => ThreadsInv
  BY ThreadsInitTyped DEF Init, ThreadsInv, Lines, ParentAbove, ForkPoint, Placed, UpdatesApart, Updated,
     Reads, Holds, Gathers, Idle

LEMMA NextThreadsInv == ASSUME ThreadsInv, [Next]_vars PROVE ThreadsInv'
  <1>1. TypeOK'
    BY ThreadsNextTyped DEF ThreadsInv
  <1>2. ASSUME NEW r \in Requests, NEW p \in live \cup {NoThread},
               NEW m \in MessageIds \cup {NoMessage}, Create(r, p, m)
        PROVE  ThreadsInv'
    BY <1>1, <1>2, CreateKeeps
  <1>3. ASSUME NEW r \in Requests, NEW t \in ThreadIds, Delete(r, t)
        PROVE  ThreadsInv'
    BY <1>1, <1>3, DeleteThreadKeeps
  <1>4. ASSUME NEW r \in Requests, NEW t \in ThreadIds, Cascade(r, t)
        PROVE  ThreadsInv'
    BY <1>1, <1>4, CascadeKeeps
  <1>5. ASSUME NEW r \in Requests, NEW t \in ThreadIds, InsertThread(r, t)
        PROVE  ThreadsInv'
    BY <1>1, <1>5, InsertKeeps
  <1>6. ASSUME NEW r \in Requests, MoveChildren(r)
        PROVE  ThreadsInv'
    BY <1>1, <1>6, MoveKeeps
  <1>7. ASSUME NEW r \in Requests, RemoveThread(r) \/ RemoveSubtree(r)
        PROVE  ThreadsInv'
    BY <1>1, <1>7, RemovalKeeps DEF Removal
  <1>8. ASSUME NEW r \in Requests, BreakDeadlock(r)
        PROVE  ThreadsInv'
    BY <1>1, <1>8, IdleStep DEF BreakDeadlock
  <1>9. ASSUME NEW m \in MessageIds, NEW t \in ThreadIds,
               InsertMessage(m, t) \/ UpsertMessage(m, t)
        PROVE  ThreadsInv'
    BY <1>1, <1>9, MessageKeeps
  <1>10. CASE UNCHANGED vars
    BY <1>10 DEF vars, ThreadsInv, TypeOK, Lines, ParentAbove, ForkPoint, Placed, PlacedUnder,
       Clean, UpdatesApart, Updated, Reads, Holds, Gathers
  <1>11. QED
    BY <1>2, <1>3, <1>4, <1>5, <1>6, <1>7, <1>8, <1>9, <1>10 DEF Next, Finish

\* The invariant of the statements: what requests have read, updated and collected.
THEOREM ThreadsInvariance == Spec => []ThreadsInv
  BY InitThreadsInv, NextThreadsInv, PTL DEF Spec

-----------------------------------------------------------------------------
(* The properties.                                                          *)

\* The parent the invariant gives a thread is the ancestor KeepsPlace chooses.
LEMMA PlacedIsNearest == ThreadsInv => KeepsPlace
  <1> SUFFICES ASSUME ThreadsInv, NEW t \in live, Clean(t)
               PROVE  row[t].parent = Nearest(t)
    BY DEF KeepsPlace, Clean
  <1> DEFINE above == line[t] \cap live
             p     == row[t].parent
  <1>1. t \in used /\ (p = NoThread \/ p \in above) /\ PlacedUnder(t, p)
    BY ParentKnown DEF ThreadsInv, Placed
  <1>2. CASE p = NoThread
    BY <1>1, <1>2 DEF PlacedUnder, Nearest
  <1>3. CASE p # NoThread
    <2>1. p \in above /\ above \subseteq line[p] \cup {p}
      BY <1>1, <1>3 DEF PlacedUnder
    <2>2. PICK a : /\ a = Nearest(t)
                   /\ a \in above /\ above \subseteq line[a] \cup {a}
      BY <2>1 DEF Nearest
    <2>3. a # NoThread
      BY <2>2, ThreadsAssumption DEF ThreadsInv, TypeOK
    <2>4. PlacedUnder(t, a)
      BY <2>2, <2>3 DEF PlacedUnder
    <2>5. p = a
      BY <1>1, <2>1, <2>2, <2>4, OneNearest DEF ThreadsInv
    <2>6. QED
      BY <2>2, <2>5
  <1>4. QED
    BY <1>2, <1>3

\* "Without cascade the direct children move up to the deleted node's parent":
\* however many deletions overlap, every thread none of them missed keeps its place.
THEOREM KeepsPlaceAlways == Spec => []KeepsPlace
  BY PlacedIsNearest, ThreadsInvariance, PTL

\* A message never holds what a turn of another thread wrote.
LEMMA OwnMetadataAlways == Spec => []OwnMetadata
  <1>1. Init => OwnMetadata
    BY DEF Init, OwnMetadata, Absent
  <1>2. TypeOK /\ OwnMetadata /\ [Next]_vars => OwnMetadata'
    <2> SUFFICES ASSUME TypeOK, OwnMetadata, [Next]_vars PROVE OwnMetadata'
      OBVIOUS
    <2>1. CASE message' = message
      BY <2>1 DEF OwnMetadata
    <2>2. ASSUME NEW r \in Requests, Removal(r) PROVE OwnMetadata'
      <3>1. message' = [m \in MessageIds |-> IF message[m].thread \in Removes(r) THEN Absent
                                            ELSE message[m]]
        BY <2>2, RemovalEffect
      <3>2. QED
        BY <3>1 DEF OwnMetadata, Absent
    <2>3. ASSUME NEW m \in MessageIds, NEW t \in ThreadIds,
                 InsertMessage(m, t) \/ UpsertMessage(m, t)
          PROVE  OwnMetadata'
      <3>1. CASE message' = message
        BY <3>1 DEF OwnMetadata
      <3>2. CASE message' = [message EXCEPT ![m] = [thread |-> t, meta |-> NoThread]]
        BY <3>2 DEF OwnMetadata, TypeOK
      <3>3. CASE message' = [message EXCEPT ![m] = [thread |-> t, meta |-> t]]
        BY <3>3 DEF OwnMetadata, TypeOK
      <3>4. QED
        BY <2>3, <3>1, <3>2, <3>3 DEF InsertMessage, UpsertMessage
    <2>4. QED
      BY <2>1, <2>2, <2>3 DEF Next, Finish, vars, Create, Delete, Cascade, InsertThread,
         MoveChildren, BreakDeadlock, Removal
  <1>3. QED
    BY <1>1, <1>2, ThreadsTypeCorrect, PTL DEF Spec

\* A thread hangs under a thread that is there and that it was forked under, for
\* any number of deletions between each other's statements: no thread is lost and
\* no cycle is closed.  The message it was forked at stays a message of the thread
\* it hangs under, and a message keeps what its own thread wrote.
THEOREM ReferencesAlways == Spec => []ReferencesHold
  <1>1. ThreadsInv => ParentAbove /\ ForkPoint
    BY DEF ThreadsInv
  <1>2. ParentAbove /\ ForkPoint /\ OwnMetadata => ReferencesHold
    BY DEF ReferencesHold
  <1>3. QED
    BY <1>1, <1>2, ThreadsInvariance, OwnMetadataAlways, PTL

================================================================================
