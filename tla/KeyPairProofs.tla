--------------------------- MODULE KeyPairProofs ---------------------------
(* Proofs about KeyPair for any number of handlers, keys and rotations, and *)
(* any lives of keys and tokens.                                            *)
EXTENDS KeyPair, FiniteSetTheorems, WellFoundedInduction, TLAPS

\* A row is left for every key that handlers under way may create.
Pending == Cardinality(Creating) + Cardinality(Twice)
RoomInv == count + Pending <= MaxKeys

\* A handler is where its purpose takes it.
PlaceInv ==
  \A w \in Workers :
    /\ pc[w] = "idle" => op[w] = "none"
    /\ pc[w] \in {"find", "generate", "use"} => op[w] \in {"sign", "resolve", "profile"}
    /\ pc[w] \in {"expire", "rotate"} => op[w] = "rotate"

\* Tokens are signed with keys that have a row.
TokenInv ==
  /\ \A t \in tokens : t[1] \in 1..count
  /\ \A w \in Workers : shown[w] # NoToken => shown[w][1] \in 1..count

\* Keys run out in the order they were made, by a rotation or by themselves.
AgeInv ==
  /\ \A j, k \in Rows : j <= k => /\ born[j] <= born[k]
                                  /\ status[k] = "expired" => status[j] = "expired"
  /\ \A k \in Rows : /\ born[k] <= now
                     /\ status[k] = "active" => to[k] = born[k] + KeyLife

IInv == TypeOK /\ RoomInv /\ PlaceInv /\ TokenInv /\ AgeInv /\ RefusedMeansSuperseded

-----------------------------------------------------------------------------
\* A set of numbers with an upper bound has a greatest member.
LEMMA MaxIsGreatest ==
  ASSUME NEW n \in Nat, NEW S \in SUBSET (1..n), S # {}
  PROVE  Max(S) \in S /\ \A x \in S : x <= Max(S)
<1> DEFINE T == {n - x : x \in S}
<1>1. T \subseteq Nat /\ T # {}
  <2>1. \A x \in S : n - x \in Nat
    OBVIOUS
  <2>2. PICK x \in S : TRUE
    OBVIOUS
  <2>3. n - x \in T
    BY <2>2
  <2> QED
    BY <2>1, <2>3
<1>2. PICK d \in T : \A e \in T : ~ (<<e, d>> \in OpToRel(<, Nat))
  <2> HIDE DEF T
  <2> QED
    BY <1>1, NatLessThanWellFounded, WFMin, Zenon
<1>3. \A e \in T : d <= e
  <2>1. ASSUME NEW e \in T, e < d PROVE FALSE
    <3>1. e \in Nat /\ d \in Nat
      BY <1>1
    <3>2. <<e, d>> \in OpToRel(<, Nat)
      BY <2>1, <3>1 DEF OpToRel
    <3> QED
      BY <1>2, <3>2
  <2> QED
    BY <1>1, <2>1
<1>4. PICK m \in S : d = n - m
  BY <1>2
<1>5. \A x \in S : m >= x
  BY <1>3, <1>4
<1> QED
  BY <1>4, <1>5 DEF Max

\* What handler w alone has still to create counts for Pending.
Load(w) ==
  (IF pc[w] \in {"find", "generate", "expire", "rotate"} THEN 1 ELSE 0)
    + (IF op[w] = "profile" THEN 1 ELSE 0)

LEMMA PendingIsANumber == Pending \in Nat
<1>1. Creating \subseteq Workers /\ Twice \subseteq Workers
  BY DEF Creating, Twice
<1> QED
  BY <1>1, KeyPairAssumption, FS_Subset, FS_CardinalityType DEF KeyPairAssumption, Pending

\* A handler that moves changes it by its own load.
LEMMA PendingMoves ==
  ASSUME NEW w \in Workers, NEW p, NEW o,
         pc \in [Workers -> Steps], op \in [Workers -> Ops],
         pc' = [pc EXCEPT ![w] = p], op' = [op EXCEPT ![w] = o]
  PROVE  Pending' = Pending + Load(w)' - Load(w)
<1> DEFINE Awaits == {"find", "generate", "expire", "rotate"}
<1>1. /\ IsFiniteSet(Creating) /\ IsFiniteSet(Twice)
      /\ Cardinality(Creating) \in Nat /\ Cardinality(Twice) \in Nat
  <2>1. Creating \subseteq Workers /\ Twice \subseteq Workers
    BY DEF Creating, Twice
  <2> QED
    BY <2>1, KeyPairAssumption, FS_Subset, FS_CardinalityType DEF KeyPairAssumption
<1>2. Creating' = IF p \in Awaits THEN Creating \cup {w} ELSE Creating \ {w}
  BY DEF Creating
<1>3. Twice' = IF o = "profile" THEN Twice \cup {w} ELSE Twice \ {w}
  BY DEF Twice
<1>4. Cardinality(Creating') = Cardinality(Creating)
        + (IF p \in Awaits THEN 1 ELSE 0) - (IF pc[w] \in Awaits THEN 1 ELSE 0)
  <2>1. w \in Creating <=> pc[w] \in Awaits
    BY DEF Creating
  <2>2. Cardinality(Creating \cup {w}) = IF w \in Creating THEN Cardinality(Creating) ELSE Cardinality(Creating) + 1
    BY <1>1, FS_AddElement
  <2>3. Cardinality(Creating \ {w}) = IF w \in Creating THEN Cardinality(Creating) - 1 ELSE Cardinality(Creating)
    BY <1>1, FS_RemoveElement
  <2> QED
    BY <1>1, <1>2, <2>1, <2>2, <2>3
<1>5. Cardinality(Twice') = Cardinality(Twice)
        + (IF o = "profile" THEN 1 ELSE 0) - (IF op[w] = "profile" THEN 1 ELSE 0)
  <2>1. w \in Twice <=> op[w] = "profile"
    BY DEF Twice
  <2>2. Cardinality(Twice \cup {w}) = IF w \in Twice THEN Cardinality(Twice) ELSE Cardinality(Twice) + 1
    BY <1>1, FS_AddElement
  <2>3. Cardinality(Twice \ {w}) = IF w \in Twice THEN Cardinality(Twice) - 1 ELSE Cardinality(Twice)
    BY <1>1, FS_RemoveElement
  <2> QED
    BY <1>1, <1>3, <2>1, <2>2, <2>3
<1> QED
  BY <1>1, <1>4, <1>5 DEF Pending, Load

-----------------------------------------------------------------------------
LEMMA InitHolds == Init => IInv
<1> SUFFICES ASSUME Init PROVE IInv
  OBVIOUS
<1>1. TypeOK
  <2>1. MaxKeys \in Nat /\ MaxTime \in Nat /\ MaxAborts \in Nat /\ KeyLife \in Nat
    BY KeyPairAssumption DEF KeyPairAssumption
  <2>2. crowded \in BOOLEAN
    BY DEF Init
  <2> QED
    BY <2>1, <2>2 DEF Init, TypeOK, Keys, Times, Steps, Ops, NoToken
<1>2. RoomInv
  <2>1. Creating = {} /\ Twice = {}
    BY DEF Init, Creating, Twice
  <2> QED
    BY <2>1, FS_EmptySet, KeyPairAssumption DEF Init, RoomInv, Pending, KeyPairAssumption
<1>3. PlaceInv /\ TokenInv /\ AgeInv /\ RefusedMeansSuperseded
  BY DEF Init, PlaceInv, TokenInv, AgeInv, RefusedMeansSuperseded, Rows
<1> QED
  BY <1>1, <1>2, <1>3 DEF IInv

\* The new row: it is the youngest, and all that has been shown before is older.
LEMMA CreateKeyAges ==
  ASSUME IInv, CreateKey, count < MaxKeys, UNCHANGED now
  PROVE  /\ AgeInv'
         /\ count' \in 0..MaxKeys
         /\ status' \in [Keys -> {"none", "active", "expired"}]
         /\ \A k \in Keys : status'[k] = "none" <=> k > count'
         /\ born' \in [Keys -> Times]
         /\ to' \in [Keys -> 0..(MaxTime + KeyLife)]
<1>1. count + 1 \in Keys /\ count \in Nat /\ MaxKeys \in Nat /\ now \in Times /\ MaxTime \in Nat
      /\ KeyLife \in Nat
  BY KeyPairAssumption DEF IInv, TypeOK, Keys, KeyPairAssumption
<1>2. status \in [Keys -> {"none", "active", "expired"}] /\ born \in [Keys -> Times]
      /\ to \in [Keys -> 0..(MaxTime + KeyLife)]
  BY DEF IInv, TypeOK
<1>3. now \in Nat /\ now + KeyLife \in 0..(MaxTime + KeyLife)
  BY <1>1 DEF Times
<1>4. \A k \in Rows' : k = count + 1 \/ k \in Rows
  BY <1>1 DEF CreateKey, Rows
<1>5. \A k \in Rows : k \in Keys /\ k # count + 1 /\ k < count + 1
  BY <1>1 DEF Rows, Keys
<1>6. /\ status'[count + 1] = "active" /\ born'[count + 1] = now
      /\ to'[count + 1] = now + KeyLife
      /\ \A k \in Rows : status'[k] = status[k] /\ born'[k] = born[k] /\ to'[k] = to[k]
  BY <1>1, <1>2, <1>5 DEF CreateKey
<1>7. AgeInv'
  <2>1. \A k \in Rows' : /\ born'[k] <= now'
                         /\ status'[k] = "active" => to'[k] = born'[k] + KeyLife
    BY <1>3, <1>4, <1>6 DEF IInv, AgeInv
  <2>2. ASSUME NEW j \in Rows', NEW k \in Rows', j <= k
        PROVE  born'[j] <= born'[k] /\ (status'[k] = "expired" => status'[j] = "expired")
    <3>1. CASE k = count + 1
      BY <2>1, <3>1, <1>6
    <3>2. CASE k # count + 1
      <4>1. k \in Rows /\ j \in Int /\ k \in Int /\ k < count + 1
        BY <1>1, <1>4, <2>2, <3>2 DEF CreateKey, Rows
      <4>2. j # count + 1
        BY <1>1, <2>2, <4>1
      <4>3. j \in Rows
        BY <1>4, <2>2, <4>2
      <4> QED
        BY <1>6, <2>2, <4>1, <4>3 DEF IInv, AgeInv
    <3> QED
      BY <3>1, <3>2
  <2> QED
    BY <2>1, <2>2 DEF AgeInv
<1>8. \A k \in Keys : status'[k] = "none" <=> k > count'
  BY <1>1, <1>2 DEF CreateKey, IInv, TypeOK, Keys
<1> QED
  BY <1>1, <1>2, <1>3, <1>7, <1>8 DEF CreateKey, Keys, Times

\* The key getActiveKeyPair finds is never older than any row: an older one is
\* demoted with it, and runs out before it.
LEMMA NewestIsFound ==
  ASSUME IInv, Candidates # {}, NEW k \in Rows
  PROVE  Max(Candidates) \in Rows /\ Max(Candidates) >= k
<1> DEFINE m == Max(Candidates)
<1>1. count \in Nat /\ Candidates \in SUBSET (1..count)
  BY DEF IInv, TypeOK, Candidates, Rows
<1>2. m \in Candidates /\ \A x \in Candidates : x <= m
  BY <1>1, MaxIsGreatest
<1>3. m \in Rows /\ status[m] = "active" /\ now <= to[m]
  BY <1>2 DEF Candidates
<1>4. ASSUME m < k PROVE FALSE
  <2>1. /\ k \notin Candidates /\ m <= k
        /\ k \in Keys /\ ~(k > count)
    <3>1. m \in Int /\ k \in Int /\ k <= count /\ 1 <= k
      BY <1>1, <1>3 DEF Rows
    <3>2. count <= MaxKeys /\ MaxKeys \in Nat
      BY KeyPairAssumption DEF IInv, TypeOK, KeyPairAssumption
    <3> QED
      BY <1>1, <1>2, <1>4, <3>1, <3>2 DEF Keys
  <2>2. status[k] = "active"
    <3>1. status[k] # "expired"
      BY <1>3, <2>1 DEF IInv, AgeInv
    <3>2. status[k] \in {"none", "active", "expired"} /\ status[k] # "none"
      BY <2>1 DEF IInv, TypeOK
    <3> QED
      BY <3>1, <3>2
  <2>3. born[m] <= born[k] /\ born[k] <= now /\ to[m] = born[m] + KeyLife /\ to[k] = born[k] + KeyLife
    BY <1>3, <2>1, <2>2 DEF IInv, AgeInv
  <2>4. born[m] \in Nat /\ born[k] \in Nat /\ KeyLife \in Nat /\ now \in Nat
    BY <1>3, <2>1, KeyPairAssumption DEF IInv, TypeOK, Times, Rows, Keys, KeyPairAssumption
  <2>5. now <= to[k]
    BY <1>3, <2>3, <2>4
  <2> QED
    BY <2>1, <2>2, <2>3, <2>5 DEF Candidates
<1> QED
  BY <1>1, <1>3, <1>4 DEF Rows

-----------------------------------------------------------------------------
\* What a step of handler w may do to the locals and to the load.
LocalsFit(w) ==
  /\ pc'[w] \in Steps /\ key'[w] \in 0..MaxKeys /\ op'[w] \in Ops
  /\ shown'[w] \in (Keys \X Times) \union {NoToken}
  /\ shown'[w] # NoToken => shown'[w][1] \in 1..count'
  /\ pc'[w] = "use" => /\ key'[w] \in 1..count'
                       /\ shown'[w] # NoToken => key'[w] >= shown'[w][1]
  /\ pc'[w] = "idle" => op'[w] = "none"
  /\ pc'[w] \in {"find", "generate", "use"} => op'[w] \in {"sign", "resolve", "profile"}
  /\ pc'[w] \in {"expire", "rotate"} => op'[w] = "rotate"

\* The handlers' part of the invariant.
HandlersInv ==
  /\ pc \in [Workers -> Steps] /\ key \in [Workers -> 0..MaxKeys]
  /\ shown \in [Workers -> (Keys \X Times) \union {NoToken}] /\ op \in [Workers -> Ops]
  /\ \A v \in Workers : pc[v] = "use" => key[v] \in 1..count
  /\ RoomInv /\ PlaceInv /\ RefusedMeansSuperseded
  /\ \A v \in Workers : shown[v] # NoToken => shown[v][1] \in 1..count

LEMMA HandlerMoves ==
  ASSUME IInv, NEW w \in Workers, LocalsFit(w), NEW p, NEW k, NEW t, NEW o,
         Goto(w, p), Locals(w, k, t, o),
         count' \in Nat, count' >= count, count' <= MaxKeys,
         count' + Load(w)' <= count + Load(w) \/ count' + Pending' <= MaxKeys
  PROVE  HandlersInv'
<1>1. /\ pc \in [Workers -> Steps] /\ key \in [Workers -> 0..MaxKeys]
      /\ shown \in [Workers -> (Keys \X Times) \union {NoToken}] /\ op \in [Workers -> Ops]
      /\ count \in Nat
  BY DEF IInv, TypeOK
<1>2. /\ pc' = [pc EXCEPT ![w] = p] /\ key' = [key EXCEPT ![w] = k]
      /\ shown' = [shown EXCEPT ![w] = t] /\ op' = [op EXCEPT ![w] = o]
  BY DEF Goto, Locals
<1>3. /\ p \in Steps /\ k \in 0..MaxKeys /\ o \in Ops
      /\ t \in (Keys \X Times) \union {NoToken}
  BY <1>1, <1>2 DEF LocalsFit
<1>4. \A v \in Workers \ {w} :
        pc'[v] = pc[v] /\ key'[v] = key[v] /\ shown'[v] = shown[v] /\ op'[v] = op[v]
  BY <1>1, <1>2
<1>5. RoomInv'
  <2>1. Pending' = Pending + Load(w)' - Load(w)
    BY <1>1, <1>2, PendingMoves
  <2>2. Load(w) \in Int /\ Load(w)' \in Int /\ Pending \in Int /\ MaxKeys \in Int
    BY PendingIsANumber, KeyPairAssumption DEF Load, KeyPairAssumption
  <2> QED
    BY <1>1, <2>1, <2>2 DEF IInv, RoomInv
<1>6. \A v \in Workers :
        /\ pc'[v] = "use" => key'[v] \in 1..count'
        /\ shown'[v] # NoToken => shown'[v][1] \in 1..count'
  <2>1. \A n \in 1..count : n \in 1..count'
    BY <1>1
  <2> QED
    BY <1>4, <2>1 DEF LocalsFit, IInv, TypeOK, TokenInv
<1>7. PlaceInv' /\ RefusedMeansSuperseded'
  BY <1>4 DEF LocalsFit, IInv, PlaceInv, RefusedMeansSuperseded
<1> QED
  BY <1>1, <1>2, <1>3, <1>5, <1>6, <1>7 DEF HandlersInv

\* What the handlers' part leaves, when the rows and the clock stay.
LEMMA RowsStay ==
  ASSUME IInv, UNCHANGED <<now, rows>>
  PROVE  AgeInv' /\ count' = count
  BY DEF IInv, AgeInv, rows, Rows

\* Where handlers start, what for and with which token.
Starts(p, t, o) ==
  /\ \/ p = "find" /\ o \in {"sign", "resolve", "profile"}
     \/ p = "expire" /\ o = "rotate"
  /\ t = NoToken \/ t \in tokens

LEMMA StartKeeps ==
  ASSUME IInv, NEW w \in Workers, NEW p, NEW t, NEW o, Start(w, p, t, o), Starts(p, t, o),
         crowded' \in BOOLEAN
  PROVE  IInv'
<1>1. /\ pc \in [Workers -> Steps] /\ op \in [Workers -> Ops] /\ key \in [Workers -> 0..MaxKeys]
      /\ shown \in [Workers -> (Keys \X Times) \union {NoToken}]
      /\ count \in Nat /\ count <= MaxKeys /\ MaxKeys \in Nat
      /\ tokens \subseteq Keys \X Times
  BY KeyPairAssumption DEF IInv, TypeOK, KeyPairAssumption
<1>2. UNCHANGED <<now, rows, tokens, aborts>> /\ Goto(w, p) /\ Locals(w, 0, t, o)
  BY DEF Start
<1>3. AgeInv' /\ count' = count
  BY <1>2, RowsStay
<1>4. LocalsFit(w)
  BY <1>1, <1>2, <1>3 DEF Goto, Locals, LocalsFit, Steps, Ops, IInv, TokenInv, Starts
<1>5. count' + Pending' <= MaxKeys
  <2>1. Pending' = Pending + Load(w)' - Load(w)
    BY <1>1, <1>2, PendingMoves DEF Goto, Locals
  <2>2. Load(w) = 0 /\ Load(w)' = IF o = "profile" THEN 2 ELSE 1
    BY <1>1, <1>2 DEF Load, Goto, Locals, Start, Starts, IInv, PlaceInv
  <2>3. count + Pending + (IF o = "profile" THEN 2 ELSE 1) <= MaxKeys
    <3>1. Cardinality(Creating) \in Nat /\ Cardinality(Twice) \in Nat
      <4>1. Creating \subseteq Workers /\ Twice \subseteq Workers
        BY DEF Creating, Twice
      <4> QED
        BY <4>1, KeyPairAssumption, FS_Subset, FS_CardinalityType DEF KeyPairAssumption
    <3> QED
      BY <1>1, <3>1 DEF Start, Pending
  <2> QED
    BY <1>1, <1>3, <2>1, <2>2, <2>3, PendingIsANumber
<1>6. HandlersInv'
  BY <1>1, <1>2, <1>3, <1>4, <1>5, HandlerMoves
<1>7. TypeOK'
  BY <1>2, <1>6 DEF IInv, TypeOK, rows, HandlersInv
<1>8. TokenInv'
  BY <1>2, <1>3, <1>6 DEF IInv, TokenInv, HandlersInv
<1> QED
  BY <1>3, <1>6, <1>7, <1>8 DEF IInv, HandlersInv

LEMMA FindKeeps ==
  ASSUME IInv, NEW w \in Workers, Find(w)
  PROVE  IInv'
<1>1. /\ pc \in [Workers -> Steps] /\ op \in [Workers -> Ops] /\ key \in [Workers -> 0..MaxKeys]
      /\ shown \in [Workers -> (Keys \X Times) \union {NoToken}]
      /\ count \in Nat /\ count <= MaxKeys /\ MaxKeys \in Nat
  BY KeyPairAssumption DEF IInv, TypeOK, KeyPairAssumption
<1>2. UNCHANGED <<now, rows, tokens, shown, op, aborts, crowded>> /\ pc[w] = "find"
  BY DEF Find
<1>3. AgeInv' /\ count' = count
  BY <1>2, RowsStay
<1>4. PICK p \in {"generate", "use"}, k \in 0..MaxKeys :
        /\ Goto(w, p) /\ key' = [key EXCEPT ![w] = k]
        /\ p = "use" => k \in 1..count /\ (shown[w] # NoToken => k >= shown[w][1])
  <2>1. CASE Candidates = {}
    BY <1>1, <2>1 DEF Find
  <2>2. CASE Candidates # {}
    <3> DEFINE m == Max(Candidates)
    <3>1. Candidates \in SUBSET (1..count)
      BY DEF Candidates, Rows
    <3>2. m \in 1..count
      BY <1>1, <2>2, <3>1, MaxIsGreatest
    <3>3. shown[w] # NoToken => m >= shown[w][1]
      BY <2>2, NewestIsFound DEF IInv, TokenInv, Rows
    <3>4. m \in 0..MaxKeys
      BY <1>1, <3>2
    <3> QED
      BY <2>2, <3>2, <3>3, <3>4 DEF Find
  <2> QED
    BY <2>1, <2>2
<1>5. Locals(w, k, shown[w], op[w])
  BY <1>1, <1>2, <1>4 DEF Locals
<1>6. LocalsFit(w)
  BY <1>1, <1>2, <1>3, <1>4 DEF Goto, LocalsFit, Steps, Ops, IInv, TokenInv, PlaceInv
<1>7. count' + Load(w)' <= count + Load(w)
  BY <1>1, <1>2, <1>3, <1>4 DEF Goto, Load
<1>8. HandlersInv'
  BY <1>1, <1>3, <1>4, <1>5, <1>6, <1>7, HandlerMoves
<1>9. TypeOK'
  BY <1>2, <1>8 DEF IInv, TypeOK, rows, HandlersInv
<1>10. TokenInv'
  BY <1>2, <1>3, <1>8 DEF IInv, TokenInv, HandlersInv
<1> QED
  BY <1>3, <1>8, <1>9, <1>10 DEF IInv, HandlersInv

\* There is room for the key that a handler has announced.
LEMMA RoomForKey ==
  ASSUME IInv, NEW w \in Workers, Load(w) > 0
  PROVE  count < MaxKeys
<1>1. /\ IsFiniteSet(Creating) /\ IsFiniteSet(Twice)
      /\ Cardinality(Creating) \in Nat /\ Cardinality(Twice) \in Nat
  <2>1. Creating \subseteq Workers /\ Twice \subseteq Workers
    BY DEF Creating, Twice
  <2> QED
    BY <2>1, KeyPairAssumption, FS_Subset, FS_CardinalityType DEF KeyPairAssumption
<1>2. w \in Creating \/ w \in Twice
  BY DEF Load, Creating, Twice
<1>3. Cardinality(Creating) # 0 \/ Cardinality(Twice) # 0
  BY <1>1, <1>2, FS_EmptySet
<1>4. count \in Nat /\ MaxKeys \in Nat
  BY KeyPairAssumption DEF IInv, TypeOK, KeyPairAssumption
<1> QED
  BY <1>1, <1>3, <1>4 DEF IInv, RoomInv, Pending

LEMMA GenerateKeeps ==
  ASSUME IInv, NEW w \in Workers, Generate(w)
  PROVE  IInv'
<1>1. /\ pc \in [Workers -> Steps] /\ op \in [Workers -> Ops] /\ key \in [Workers -> 0..MaxKeys]
      /\ shown \in [Workers -> (Keys \X Times) \union {NoToken}]
      /\ count \in Nat /\ count <= MaxKeys /\ MaxKeys \in Nat
      /\ tokens \subseteq Keys \X Times /\ now \in Times
  BY KeyPairAssumption DEF IInv, TypeOK, KeyPairAssumption
<1>2. /\ CreateKey /\ UNCHANGED <<now, tokens, shown, op, aborts, crowded>>
      /\ pc[w] = "generate" /\ Goto(w, "use") /\ Locals(w, count + 1, shown[w], op[w])
  BY <1>1 DEF Generate, Locals
<1>3. Load(w) \in {1, 2} /\ count < MaxKeys
  BY <1>2, RoomForKey DEF Load
<1>4. /\ AgeInv' /\ count' = count + 1
      /\ status' \in [Keys -> {"none", "active", "expired"}]
      /\ \A k \in Keys : status'[k] = "none" <=> k > count'
      /\ born' \in [Keys -> Times] /\ to' \in [Keys -> 0..(MaxTime + KeyLife)]
  BY <1>2, <1>3, CreateKeyAges DEF CreateKey
<1>5. LocalsFit(w)
  <2>1. shown[w] # NoToken => shown[w][1] \in 1..count
    BY DEF IInv, TokenInv
  <2>2. shown[w] # NoToken => shown[w][1] \in 1..count' /\ count + 1 >= shown[w][1]
    BY <1>1, <1>4, <2>1
  <2>3. count + 1 \in 0..MaxKeys /\ count + 1 \in 1..count'
    BY <1>1, <1>3, <1>4
  <2> QED
    BY <1>1, <1>2, <2>2, <2>3 DEF Goto, Locals, Return, LocalsFit, Steps, Ops, IInv, PlaceInv
<1>6. count' + Load(w)' <= count + Load(w)
  BY <1>1, <1>2, <1>4 DEF Goto, Locals, Load
<1>7. HandlersInv'
  <2>1. count' \in Nat /\ count' >= count /\ count' <= MaxKeys
    BY <1>1, <1>3, <1>4
  <2> QED
    BY <1>2, <1>5, <1>6, <2>1, HandlerMoves
<1>8. TypeOK'
  BY <1>1, <1>2, <1>3, <1>4, <1>7 DEF IInv, TypeOK, HandlersInv
<1>9. TokenInv'
  BY <1>1, <1>2, <1>4, <1>7 DEF IInv, TokenInv, HandlersInv
<1> QED
  BY <1>4, <1>7, <1>8, <1>9 DEF IInv, HandlersInv

LEMMA CreateRotatedKeeps ==
  ASSUME IInv, NEW w \in Workers, CreateRotated(w)
  PROVE  IInv'
<1>1. /\ pc \in [Workers -> Steps] /\ op \in [Workers -> Ops] /\ key \in [Workers -> 0..MaxKeys]
      /\ shown \in [Workers -> (Keys \X Times) \union {NoToken}]
      /\ count \in Nat /\ count <= MaxKeys /\ MaxKeys \in Nat
      /\ tokens \subseteq Keys \X Times /\ now \in Times
  BY KeyPairAssumption DEF IInv, TypeOK, KeyPairAssumption
<1>2. /\ CreateKey /\ UNCHANGED <<now, tokens, aborts, crowded>>
      /\ pc[w] = "rotate" /\ Goto(w, "idle") /\ Locals(w, 0, NoToken, "none")
  BY DEF CreateRotated, Return
<1>3. Load(w) = 1 /\ count < MaxKeys
  <2>1. Load(w) = 1
    BY <1>2 DEF Load, IInv, PlaceInv
  <2> QED
    BY <2>1, RoomForKey
<1>4. /\ AgeInv' /\ count' = count + 1
      /\ status' \in [Keys -> {"none", "active", "expired"}]
      /\ \A k \in Keys : status'[k] = "none" <=> k > count'
      /\ born' \in [Keys -> Times] /\ to' \in [Keys -> 0..(MaxTime + KeyLife)]
  BY <1>2, <1>3, CreateKeyAges DEF CreateKey
<1>5. LocalsFit(w)
  BY <1>1, <1>2 DEF Goto, Locals, Return, LocalsFit, Steps, Ops
<1>6. count' + Load(w)' <= count + Load(w)
  BY <1>1, <1>2, <1>3, <1>4 DEF Goto, Locals, Load
<1>7. HandlersInv'
  <2>1. count' \in Nat /\ count' >= count /\ count' <= MaxKeys
    BY <1>1, <1>3, <1>4
  <2> QED
    BY <1>2, <1>5, <1>6, <2>1, HandlerMoves
<1>8. TypeOK'
  BY <1>1, <1>2, <1>3, <1>4, <1>7 DEF IInv, TypeOK, HandlersInv
<1>9. TokenInv'
  BY <1>1, <1>2, <1>4, <1>7 DEF IInv, TokenInv, HandlersInv
<1> QED
  BY <1>4, <1>7, <1>8, <1>9 DEF IInv, HandlersInv

\* The step ends the handler, or lets the profile ask once more.
LEMMA EndKeeps ==
  ASSUME IInv, NEW w \in Workers, UNCHANGED <<now, rows, crowded>>, aborts' \in 0..MaxAborts,
         \A t \in tokens' : t \in tokens \/ (t \in Keys \X Times /\ t[1] \in 1..count),
         Return(w) \/ (Goto(w, "find") /\ Locals(w, 0, shown[w], "resolve") /\ op[w] = "profile")
  PROVE  IInv'
<1>1. /\ pc \in [Workers -> Steps] /\ op \in [Workers -> Ops] /\ key \in [Workers -> 0..MaxKeys]
      /\ shown \in [Workers -> (Keys \X Times) \union {NoToken}]
      /\ count \in Nat /\ count <= MaxKeys /\ MaxKeys \in Nat
      /\ tokens \subseteq Keys \X Times /\ now \in Times
  BY KeyPairAssumption DEF IInv, TypeOK, KeyPairAssumption
<1>2. AgeInv' /\ count' = count
  BY RowsStay
<1>3. ASSUME Return(w) PROVE HandlersInv'
  <2>1. LocalsFit(w)
    BY <1>1, <1>3 DEF Goto, Locals, Return, LocalsFit, Steps, Ops
  <2>2. count' + Load(w)' <= count + Load(w)
    BY <1>1, <1>2, <1>3 DEF Goto, Locals, Return, Load
  <2> QED
    BY <1>1, <1>2, <1>3, <2>1, <2>2, HandlerMoves DEF Return
<1>4. ASSUME Goto(w, "find"), Locals(w, 0, shown[w], "resolve"), op[w] = "profile"
      PROVE  HandlersInv'
  <2>1. LocalsFit(w)
    BY <1>1, <1>2, <1>4 DEF Goto, Locals, Return, LocalsFit, Steps, Ops, IInv, TokenInv
  <2>2. count' + Load(w)' <= count + Load(w)
    BY <1>1, <1>2, <1>4 DEF Goto, Locals, Load
  <2> QED
    BY <1>1, <1>2, <1>4, <2>1, <2>2, HandlerMoves
<1>5. HandlersInv'
  BY <1>3, <1>4
<1>6. TypeOK'
  BY <1>1, <1>5 DEF IInv, TypeOK, rows, HandlersInv
<1>7. TokenInv'
  BY <1>2, <1>5 DEF IInv, TokenInv, HandlersInv
<1> QED
  BY <1>2, <1>5, <1>6, <1>7 DEF IInv, HandlersInv

LEMMA GiveTokenKeeps ==
  ASSUME IInv, NEW w \in Workers, GiveToken(w)
  PROVE  IInv'
<1>1. key[w] \in 1..count /\ count \in 0..MaxKeys /\ now \in Times
  BY DEF GiveToken, IInv, TypeOK
<1>2. key[w] \in Keys
  BY <1>1, KeyPairAssumption DEF Keys, KeyPairAssumption
<1>3. tokens' \subseteq tokens \union {<<key[w], now>>} /\ UNCHANGED <<now, rows, aborts, crowded>> /\ Return(w)
  BY DEF GiveToken
<1>4. \A t \in tokens' : t \in tokens \/ (t \in Keys \X Times /\ t[1] \in 1..count)
  BY <1>1, <1>2, <1>3
<1>5. aborts' \in 0..MaxAborts
  BY <1>3 DEF IInv, TypeOK
<1> QED
  BY <1>3, <1>4, <1>5, EndKeeps

LEMMA VerifyKeeps ==
  ASSUME IInv, NEW w \in Workers, Verify(w)
  PROVE  IInv'
  BY EndKeeps DEF Verify, IInv, TypeOK

LEMMA AbortKeeps ==
  ASSUME IInv, NEW w \in Workers, Abort(w)
  PROVE  IInv'
<1>1. aborts' \in 0..MaxAborts
  BY KeyPairAssumption DEF Abort, IInv, TypeOK, KeyPairAssumption
<1> QED
  BY <1>1, EndKeeps DEF Abort

LEMMA ExpireActiveKeeps ==
  ASSUME IInv, NEW w \in Workers, ExpireActive(w)
  PROVE  IInv'
<1>1. /\ pc \in [Workers -> Steps] /\ op \in [Workers -> Ops] /\ key \in [Workers -> 0..MaxKeys]
      /\ shown \in [Workers -> (Keys \X Times) \union {NoToken}]
      /\ count \in Nat /\ count <= MaxKeys /\ MaxKeys \in Nat
      /\ tokens \subseteq Keys \X Times /\ now \in Times
  BY KeyPairAssumption DEF IInv, TypeOK, KeyPairAssumption
<1>2. /\ pc[w] = "expire" /\ Goto(w, "rotate") /\ UNCHANGED <<now, count, born, tokens, call, aborts, crowded>>
      /\ status' = [k \in Keys |-> IF status[k] = "active" THEN "expired" ELSE status[k]]
      /\ to' = [k \in Keys |-> IF status[k] = "active" THEN now ELSE to[k]]
  BY DEF ExpireActive
<1>4. Locals(w, key[w], shown[w], op[w])
  BY <1>1, <1>2 DEF Locals, call
<1>5. LocalsFit(w)
  BY <1>1, <1>2 DEF Goto, call, LocalsFit, Steps, Ops, IInv, PlaceInv, TokenInv
<1>6. count' + Load(w)' <= count + Load(w)
  BY <1>1, <1>2 DEF Goto, call, Load
<1>7. HandlersInv'
  BY <1>1, <1>2, <1>4, <1>5, <1>6, HandlerMoves
<1>8. Rows \subseteq Keys
  BY <1>1 DEF Rows, Keys
<1>9. /\ status \in [Keys -> {"none", "active", "expired"}] /\ to \in [Keys -> 0..(MaxTime + KeyLife)]
      /\ now \in 0..(MaxTime + KeyLife)
  BY <1>1, KeyPairAssumption DEF IInv, TypeOK, Times, KeyPairAssumption
<1>10. \A k \in Rows : status'[k] = "expired"
  BY <1>1, <1>2, <1>8 DEF IInv, TypeOK, Rows
<1>11. AgeInv'
  BY <1>2, <1>10 DEF IInv, AgeInv, Rows
<1>12. TypeOK'
  <2>1. \A k \in Keys : status'[k] = "none" <=> status[k] = "none"
    BY <1>2
  <2>2. status' \in [Keys -> {"none", "active", "expired"}] /\ to' \in [Keys -> 0..(MaxTime + KeyLife)]
    BY <1>2, <1>9
  <2> QED
    BY <1>2, <1>7, <2>1, <2>2 DEF IInv, TypeOK, HandlersInv
<1>13. TokenInv'
  BY <1>2, <1>7 DEF IInv, TokenInv, HandlersInv
<1> QED
  BY <1>7, <1>11, <1>12, <1>13 DEF IInv, HandlersInv

LEMMA TickKeeps ==
  ASSUME IInv, Tick
  PROVE  IInv'
<1>1. now' \in Times /\ now \in Nat /\ now' = now + 1 /\ tokens' \subseteq tokens
  BY KeyPairAssumption DEF Tick, IInv, TypeOK, Times, KeyPairAssumption
<1>2. UNCHANGED <<rows, pc, call, aborts>> /\ crowded' \in BOOLEAN
  BY DEF Tick
<1>3. TypeOK' /\ TokenInv' /\ PlaceInv' /\ RefusedMeansSuperseded'
  BY <1>1, <1>2 DEF IInv, TypeOK, TokenInv, PlaceInv, RefusedMeansSuperseded, rows, call
<1>4. RoomInv'
  BY <1>2 DEF IInv, RoomInv, Pending, Creating, Twice, rows, call
<1>5. AgeInv'
  <2>1. ASSUME NEW k \in Rows PROVE born[k] <= now'
    <3>1. k \in Keys
      BY KeyPairAssumption DEF IInv, TypeOK, Rows, Keys, KeyPairAssumption
    <3>2. born[k] \in Nat /\ born[k] <= now
      BY <3>1 DEF IInv, AgeInv, TypeOK, Times
    <3> QED
      BY <1>1, <3>2
  <2> QED
    BY <1>2, <2>1 DEF IInv, AgeInv, rows, Rows
<1> QED
  BY <1>3, <1>4, <1>5 DEF IInv

LEMMA NextKeeps == IInv /\ [Next]_vars => IInv'
<1> SUFFICES ASSUME IInv, [Next]_vars PROVE IInv'
  OBVIOUS
<1>1. CASE Tick
  BY <1>1, TickKeeps
<1>2. ASSUME NEW w \in Workers, Arrive(w)
      PROVE  IInv'
  <2>1. CASE Sign(w)
    <3>1. Start(w, "find", NoToken, "sign") /\ Starts("find", NoToken, "sign") /\ crowded' \in BOOLEAN
      BY <2>1 DEF Sign, Starts, IInv, TypeOK
    <3> QED
      BY <3>1, StartKeeps, Zenon
  <2>2. ASSUME NEW t \in tokens, NEW o \in {"resolve", "profile"}, Resolve(w, t, o)
        PROVE  IInv'
    <3>1. Start(w, "find", t, o) /\ Starts("find", t, o) /\ crowded' \in BOOLEAN
      BY <2>2 DEF Resolve, Starts, IInv, TypeOK
    <3> QED
      BY <3>1, StartKeeps, Zenon
  <2>3. CASE Rotate(w)
    <3>1. Start(w, "expire", NoToken, "rotate") /\ Starts("expire", NoToken, "rotate") /\ crowded' \in BOOLEAN
      BY <2>3 DEF Rotate, Starts
    <3> QED
      BY <3>1, StartKeeps, Zenon
  <2> QED
    BY <1>2, <2>1, <2>2, <2>3 DEF Arrive
<1>3. ASSUME NEW w \in Workers, Continue(w)
      PROVE  IInv'
  BY <1>3, FindKeeps, GenerateKeeps, GiveTokenKeeps, VerifyKeeps, ExpireActiveKeeps, CreateRotatedKeeps
     DEF Continue
<1>4. ASSUME NEW w \in Workers, Abort(w)
      PROVE  IInv'
  BY <1>4, AbortKeeps
<1>5. CASE UNCHANGED vars
  BY <1>5 DEF vars, rows, call, IInv, TypeOK, RoomInv, Pending, Creating, Twice, PlaceInv, TokenInv,
              AgeInv, Rows, RefusedMeansSuperseded
<1> QED
  BY <1>1, <1>2, <1>3, <1>4, <1>5 DEF Next

LEMMA IInvHolds == Spec => []IInv
  BY InitHolds, NextKeeps, PTL DEF Spec

\* The variables of the key service stay within their types: in particular the
\* model always has a row left for the keys that handlers under way may make.
THEOREM TypeCorrect == Spec => []TypeOK
<1>1. IInv => TypeOK
  BY DEF IInv
<1> QED
  BY IInvHolds, <1>1, PTL

\* resolveUserId never verifies a token with an older key than it was signed with.
THEOREM RefusalsAreExplained == Spec => []RefusedMeansSuperseded
<1>1. IInv => RefusedMeansSuperseded
  BY DEF IInv
<1> QED
  BY IInvHolds, <1>1, PTL

-----------------------------------------------------------------------------
(* How many keys may be born within the life of a token.                   *)

Handlers == Cardinality(Workers)

\* The keys a rotation may bring about, besides the one that each handler may be at.
PerRotation == IF Handlers > 1 THEN Handlers - 1 ELSE 1

\* The JWKS has room for the keys of MaxRecent rotations, and for the handlers that
\* may find no active key after each of them or when a key runs out.
JwksSuffices ==
  /\ TokenLife <= KeyLife
  /\ JwksSize > PerRotation * MaxRecent + Handlers

Expiring == {w \in Workers : pc[w] = "expire"}

\* The keys that are recent or may become so before another rotation starts: each
\* rotation to come may send all other handlers to make a key of their own.
Crowd ==
  Cardinality(Recent) + PerRotation * Cardinality(Expiring)
    + (IF Candidates = {} THEN Handlers ELSE Cardinality(Makers))

CrowdInv ==
  /\ Cardinality(Rotators) <= MaxRecent
  /\ Crowd <= PerRotation * MaxRecent + Handlers

\* Keys that are newer than a token's are not older than the token.
LaterInv ==
  /\ \A t \in tokens : /\ t[2] <= now /\ UnexpiredAt(t, now)
                       /\ \A k \in Rows : k > t[1] => born[k] >= t[2]
  /\ \A w \in Workers : pc[w] = "use" => \A k \in Rows : k > key[w] => born[k] >= now

LEMMA HandlerSets ==
  ASSUME NEW A \in SUBSET Workers
  PROVE  /\ IsFiniteSet(A) /\ Cardinality(A) \in Nat /\ Cardinality(A) <= Handlers
         /\ Handlers \in Nat
         /\ \A w : w \notin A => Cardinality(A \union {w}) = Cardinality(A) + 1
         /\ \A w : w \in A => Cardinality(A \ {w}) = Cardinality(A) - 1
         /\ \A B : B \subseteq A => Cardinality(B) <= Cardinality(A)
<1>1. IsFiniteSet(Workers) /\ IsFiniteSet(A)
  BY FS_Subset, KeyPairAssumption DEF KeyPairAssumption
<1> QED
  BY <1>1, FS_Subset, FS_CardinalityType, FS_AddElement, FS_RemoveElement DEF Handlers

LEMMA RowSets ==
  ASSUME NEW n \in Nat, NEW A \in SUBSET (1..n)
  PROVE  /\ IsFiniteSet(A) /\ Cardinality(A) \in Nat
         /\ Cardinality(A \union {n + 1}) = Cardinality(A) + 1
         /\ \A B : B \subseteq A => Cardinality(B) <= Cardinality(A)
<1>1. IsFiniteSet(A)
  <2>1. IsFiniteSet(1..n)
    BY FS_Interval
  <2> QED
    BY <2>1, FS_Subset
<1>2. n + 1 \notin A
  OBVIOUS
<1> QED
  BY <1>1, <1>2, FS_Subset, FS_CardinalityType, FS_AddElement

\* Products of the bound.
LEMMA Products ==
  ASSUME NEW m \in Nat, NEW a \in Nat, NEW b \in Nat
  PROVE  /\ m * a \in Nat
         /\ m * (a + 1) = m * a + m
         /\ a <= b => m * a <= m * b
<1>1. m * a \in Nat /\ m * (a + 1) = m * a + m
  OBVIOUS
<1>2. ASSUME a <= b PROVE m * a <= m * b
  <2>1. PICK c \in Nat : b = a + c
    <3>1. b - a \in Nat /\ b = a + (b - a)
      BY <1>2
    <3> QED
      BY <3>1
  <2>2. m * b = m * a + m * c /\ m * c \in Nat /\ m * a \in Nat
    BY <2>1
  <2> QED
    BY <2>2
<1> QED
  BY <1>1, <1>2

Sizes ==
  /\ Handlers \in Nat /\ PerRotation \in Nat /\ PerRotation >= 1 /\ MaxRecent \in Nat
  /\ Cardinality(Recent) \in Nat /\ Cardinality(Expiring) \in Nat
  /\ Cardinality(Rotators) \in Nat /\ Cardinality(Makers) \in Nat
  /\ Cardinality(Makers) <= Handlers /\ Cardinality(Expiring) <= Cardinality(Rotators)
  /\ PerRotation * Cardinality(Expiring) \in Nat
  /\ PerRotation * MaxRecent \in Nat
  /\ Crowd \in Nat /\ Cardinality(Recent) <= Crowd

LEMMA SizesHold == ASSUME IInv PROVE Sizes
<1>1. /\ Rotators \in SUBSET Workers /\ Makers \in SUBSET Workers /\ Expiring \in SUBSET Workers
      /\ Expiring \subseteq Rotators
  BY DEF Rotators, Makers, Expiring
<1>2. /\ Handlers \in Nat
      /\ Cardinality(Expiring) \in Nat /\ Cardinality(Rotators) \in Nat /\ Cardinality(Makers) \in Nat
      /\ Cardinality(Makers) <= Handlers /\ Cardinality(Expiring) <= Cardinality(Rotators)
  BY <1>1, HandlerSets
<1>3. Cardinality(Recent) \in Nat
  <2>1. count \in Nat /\ Recent \in SUBSET (1..count)
    BY DEF IInv, TypeOK, Recent, Born, Rows
  <2> QED
    BY <2>1, RowSets
<1>4. PerRotation \in Nat /\ MaxRecent \in Nat /\ PerRotation >= 1
  BY <1>2, KeyPairAssumption DEF KeyPairAssumption, PerRotation
<1>5. PerRotation * Cardinality(Expiring) \in Nat /\ PerRotation * MaxRecent \in Nat
  BY <1>2, <1>4, Products
<1>6. Crowd \in Nat /\ Cardinality(Recent) <= Crowd
  BY <1>2, <1>3, <1>5 DEF Crowd
<1> QED
  BY <1>2, <1>3, <1>4, <1>5, <1>6 DEF Sizes

LEMMA BothSizesHold ==
  ASSUME IInv, IInv'
  PROVE  Sizes /\ Sizes' /\ Handlers' = Handlers /\ PerRotation' = PerRotation
<1>1. Handlers' = Handlers /\ PerRotation' = PerRotation
  BY DEF Handlers, PerRotation
<1>2. Sizes
  BY SizesHold
<1>3. Sizes'
  BY SizesHold, PTL
<1> QED
  BY <1>1, <1>2, <1>3

-----------------------------------------------------------------------------
\* A step after which there is no more to come than before.
LEMMA CrowdShrinks ==
  ASSUME IInv, IInv', CrowdInv,
         Recent' \subseteq Recent, Rotators' \subseteq Rotators, Expiring' \subseteq Expiring,
         (Candidates = {}) <=> (Candidates' = {}),
         Candidates' # {} => Makers' \subseteq Makers
  PROVE  CrowdInv'
<1>1. Sizes /\ Sizes' /\ Handlers' = Handlers /\ PerRotation' = PerRotation
  BY BothSizesHold
<1>2. /\ Recent \in SUBSET (1..count) /\ count \in Nat
      /\ Rotators \in SUBSET Workers /\ Expiring \in SUBSET Workers /\ Makers \in SUBSET Workers
  BY DEF IInv, TypeOK, Recent, Born, Rows, Rotators, Expiring, Makers
<1>3. /\ Cardinality(Recent') <= Cardinality(Recent)
      /\ Cardinality(Rotators') <= Cardinality(Rotators)
      /\ Cardinality(Expiring') <= Cardinality(Expiring)
      /\ Candidates' # {} => Cardinality(Makers') <= Cardinality(Makers)
  BY <1>2, HandlerSets, RowSets
<1>4. PerRotation * Cardinality(Expiring') <= PerRotation * Cardinality(Expiring)
  BY <1>1, <1>3, Products DEF Sizes
<1>5. Crowd' <= Crowd
  BY <1>1, <1>3, <1>4 DEF Sizes, Crowd
<1> QED
  BY <1>1, <1>3, <1>5 DEF Sizes, CrowdInv

\* The rows stay, and a handler goes where no key is made from.
LEMMA QuietCrowd ==
  ASSUME IInv, IInv', CrowdInv, UNCHANGED <<now, rows>>,
         NEW w \in Workers, NEW p, Goto(w, p),
         p \in {"idle", "find", "use"} \/ (p = "generate" /\ Candidates = {})
  PROVE  CrowdInv'
<1>1. Recent' = Recent /\ Candidates' = Candidates
  BY DEF Recent, Born, Candidates, Rows, rows
<1>2. pc \in [Workers -> Steps]
  BY DEF IInv, TypeOK
<1>3. Rotators' \subseteq Rotators /\ Expiring' \subseteq Expiring
  BY <1>2 DEF Rotators, Expiring, Goto
<1>4. Candidates' # {} => Makers' \subseteq Makers
  BY <1>1, <1>2 DEF Makers, Goto
<1> QED
  BY <1>1, <1>3, <1>4, CrowdShrinks

\* A rotation that does not crowd leaves room for what it may bring about.
LEMMA RotateCrowd ==
  ASSUME IInv, IInv', CrowdInv, NEW w \in Workers, Rotate(w), ~crowded'
  PROVE  CrowdInv'
<1>1. Sizes /\ Sizes' /\ Handlers' = Handlers /\ PerRotation' = PerRotation
  BY BothSizesHold
<1>2. /\ Cardinality(Recent) + Cardinality(Rotators) < MaxRecent
      /\ UNCHANGED <<now, rows>> /\ pc[w] = "idle" /\ Goto(w, "expire")
  <2>1. Cardinality(Recent) \in Nat /\ Cardinality(Rotators) \in Nat /\ MaxRecent \in Nat
    BY <1>1 DEF Sizes
  <2>2. ~(Cardinality(Recent) + Cardinality(Rotators) >= MaxRecent)
    BY DEF Rotate
  <2>3. UNCHANGED <<now, rows>> /\ pc[w] = "idle" /\ Goto(w, "expire")
    BY DEF Rotate, Start
  <2> QED
    BY <2>1, <2>2, <2>3
<1>3. Recent' = Recent
  BY <1>2 DEF Recent, Born, Rows, rows
<1>4. /\ Rotators' = Rotators \union {w} /\ w \notin Rotators
      /\ Expiring' = Expiring \union {w} /\ w \notin Expiring
      /\ Rotators \in SUBSET Workers /\ Expiring \in SUBSET Workers
  <2>1. pc \in [Workers -> Steps]
    BY DEF IInv, TypeOK
  <2> QED
    BY <1>2, <2>1 DEF Rotators, Expiring, Goto
<1>5. /\ Cardinality(Rotators') = Cardinality(Rotators) + 1
      /\ Cardinality(Expiring') = Cardinality(Expiring) + 1
  BY <1>4, HandlerSets
<1> DEFINE m == PerRotation
           r == Cardinality(Recent)
           e == Cardinality(Expiring')
<1>6. r + e <= MaxRecent /\ r \in Nat /\ e \in Nat /\ m \in Nat /\ m >= 1
  BY <1>1, <1>2, <1>5 DEF Sizes
<1>7. m * e + r <= m * MaxRecent
  <2> HIDE DEF m, r, e
  <2>1. /\ m * (e + r) = m * e + m * r /\ m * r >= r
        /\ m * e \in Nat /\ m * r \in Nat
    <3>1. m * e \in Nat /\ m * r \in Nat /\ m * (e + r) = m * e + m * r
      BY <1>6, Products
    <3>2. m * r >= r
      <4>1. r * m >= r * 1
        BY <1>6, Products
      <4> QED
        BY <1>6, <4>1
    <3> QED
      BY <3>1, <3>2
  <2>2. m * (e + r) <= m * MaxRecent /\ m * MaxRecent \in Nat
    <3>1. e + r \in Nat /\ MaxRecent \in Nat /\ e + r <= MaxRecent
      BY <1>6, <1>1 DEF Sizes
    <3> QED
      BY <1>6, <3>1, Products
  <2> QED
    BY <1>6, <2>1, <2>2
<1>8. Crowd' <= r + m * e + Handlers
  BY <1>1, <1>3 DEF Crowd, Sizes
<1> QED
  <2> HIDE DEF m, r, e
  <2>1. /\ m * MaxRecent = PerRotation * MaxRecent /\ m * e \in Nat
        /\ Crowd' \in Nat /\ Handlers \in Nat /\ m * MaxRecent \in Nat
    BY <1>1, <1>6, Products DEF Sizes, m
  <2>2. Crowd' <= PerRotation * MaxRecent + Handlers
    BY <1>6, <1>7, <1>8, <2>1
  <2> QED
    BY <1>1, <1>2, <1>5, <2>2 DEF Sizes, CrowdInv

\* A key that is made is one of those to come.
LEMMA CreateCrowd ==
  ASSUME IInv, IInv', CrowdInv, NEW w \in Workers, pc[w] \in {"generate", "rotate"},
         count < MaxKeys, CreateKey, UNCHANGED now, Goto(w, "use") \/ Goto(w, "idle")
  PROVE  CrowdInv'
<1>1. Sizes /\ Sizes' /\ Handlers' = Handlers /\ PerRotation' = PerRotation
  BY BothSizesHold
<1>2. /\ count \in Nat /\ count' = count + 1 /\ count + 1 \in Keys
      /\ now \in Nat /\ KeyLife \in Nat /\ TokenLife \in Nat
      /\ status \in [Keys -> {"none", "active", "expired"}] /\ born \in [Keys -> Times]
      /\ to \in [Keys -> 0..(MaxTime + KeyLife)] /\ pc \in [Workers -> Steps]
  <2>1. MaxKeys \in Nat /\ KeyLife \in Nat /\ TokenLife \in Nat
    BY KeyPairAssumption DEF KeyPairAssumption
  <2>2. count \in Nat /\ now \in Nat /\ count' = count + 1
    BY KeyPairAssumption DEF CreateKey, IInv, TypeOK, Times, KeyPairAssumption
  <2>3. count + 1 \in Keys
    BY <2>1, <2>2 DEF Keys
  <2> QED
    BY <2>1, <2>2, <2>3 DEF IInv, TypeOK
<1>3. Rows' = Rows \union {count + 1} /\ \A k \in Rows : k \in Keys /\ k # count + 1
  <2>1. Rows' = 1..(count + 1)
    BY <1>2 DEF Rows
  <2>2. MaxKeys \in Nat /\ count + 1 <= MaxKeys
    BY <1>2, KeyPairAssumption DEF KeyPairAssumption, Keys
  <2>3. \A k \in Rows : k \in Keys /\ k # count + 1
    BY <1>2, <2>2 DEF Rows, Keys
  <2>4. 1..(count + 1) = (1..count) \union {count + 1}
    BY <1>2
  <2> QED
    BY <2>1, <2>3, <2>4 DEF Rows
<1>4. Recent' = Recent \union {count + 1} /\ Recent \in SUBSET (1..count)
  <2>1. \A k \in Rows : born'[k] = born[k]
    BY <1>2, <1>3 DEF CreateKey
  <2>2. born'[count + 1] = now
    BY <1>2 DEF CreateKey
  <2> QED
    BY <1>2, <1>3, <2>1, <2>2 DEF Recent, Born, Rows
<1>5. Candidates' # {}
  <2>1. status'[count + 1] = "active" /\ born'[count + 1] = now /\ to'[count + 1] = now + KeyLife
    BY <1>2 DEF CreateKey
  <2>2. count + 1 \in Candidates'
    BY <1>2, <1>3, <2>1 DEF Candidates
  <2> QED
    BY <2>2
<1>6. /\ Makers' = Makers \ {w} /\ w \in Makers /\ Makers \in SUBSET Workers
      /\ Expiring' = Expiring
      /\ Rotators' \subseteq Rotators /\ Rotators \in SUBSET Workers
  BY <1>2 DEF Makers, Expiring, Rotators, Goto
<1>7. /\ Cardinality(Recent') = Cardinality(Recent) + 1
      /\ Cardinality(Makers') = Cardinality(Makers) - 1
      /\ Cardinality(Rotators') <= Cardinality(Rotators)
  BY <1>2, <1>4, <1>6, HandlerSets, RowSets
<1>8. Crowd' <= Crowd
  BY <1>1, <1>5, <1>6, <1>7 DEF Sizes, Crowd
<1> QED
  BY <1>1, <1>7, <1>8 DEF Sizes, CrowdInv

\* After the demotion all handlers may find no key.
LEMMA ExpireCrowd ==
  ASSUME IInv, IInv', CrowdInv, NEW w \in Workers, ExpireActive(w)
  PROVE  CrowdInv'
<1>1. Sizes /\ Sizes' /\ Handlers' = Handlers /\ PerRotation' = PerRotation
  BY BothSizesHold
<1>2. /\ pc[w] = "expire" /\ Goto(w, "rotate") /\ UNCHANGED <<now, count, born>>
      /\ pc \in [Workers -> Steps]
      /\ \A k \in Rows : status'[k] # "active"
  <2>1. Rows \subseteq Keys
    BY KeyPairAssumption DEF IInv, TypeOK, Rows, Keys, KeyPairAssumption
  <2> QED
    BY <2>1 DEF ExpireActive, IInv, TypeOK
<1>3. Recent' = Recent /\ Candidates' = {}
  BY <1>2 DEF Recent, Born, Candidates, Rows
<1>4. /\ Expiring' = Expiring \ {w} /\ w \in Expiring /\ Expiring \in SUBSET Workers
      /\ Rotators' = Rotators /\ w \in Makers /\ Makers \in SUBSET Workers
  BY <1>2 DEF Expiring, Rotators, Makers, Goto
<1>5. /\ Cardinality(Expiring) = Cardinality(Expiring') + 1
      /\ Cardinality(Makers) >= 1
  <2>1. Cardinality(Expiring') = Cardinality(Expiring) - 1 /\ Cardinality(Makers \ {w}) = Cardinality(Makers) - 1
    BY <1>4, HandlerSets
  <2>2. Cardinality(Makers \ {w}) \in Nat
    <3>1. Makers \ {w} \in SUBSET Workers
      BY <1>4
    <3> QED
      BY <3>1, HandlerSets
  <2> QED
    BY <1>1, <2>1, <2>2 DEF Sizes
<1>6. PerRotation * Cardinality(Expiring) = PerRotation * Cardinality(Expiring') + PerRotation
  BY <1>1, <1>5, Products DEF Sizes
<1>7. Crowd' <= Crowd
  <2>1. Handlers <= PerRotation + 1
    BY <1>1 DEF Sizes, PerRotation
  <2> QED
    BY <1>1, <1>3, <1>5, <1>6, <2>1 DEF Sizes, Crowd
<1> QED
  BY <1>1, <1>4, <1>7 DEF Sizes, CrowdInv

\* A crowd is forgotten when its keys are old and nobody is about to make another.
LEMMA CrowdLeaves ==
  ASSUME IInv, IInv', Tick, Born(now + 1) = {}, Makers = {}
  PROVE  CrowdInv'
<1>1. Sizes /\ Sizes' /\ Handlers' = Handlers /\ PerRotation' = PerRotation
  BY BothSizesHold
<1>2. Recent' = {} /\ Rotators' = {} /\ Expiring' = {} /\ Makers' = {}
  BY DEF Tick, Recent, Born, Rows, rows, Rotators, Expiring, Makers
<1>3. Cardinality({}) = 0
  BY FS_EmptySet
<1>4. PerRotation * 0 = 0
  BY <1>1 DEF Sizes
<1>5. /\ Cardinality(Recent') = 0 /\ Cardinality(Rotators') = 0
      /\ Cardinality(Expiring') = 0 /\ Cardinality(Makers') = 0
  BY <1>2, <1>3
<1>6. Crowd' = 0 \/ Crowd' = Handlers
  <2>1. Crowd' = 0 + PerRotation * 0 + (IF Candidates' = {} THEN Handlers ELSE 0)
    BY <1>1, <1>5 DEF Crowd
  <2> QED
    BY <1>1, <1>4, <2>1 DEF Sizes
<1> QED
  BY <1>1, <1>5, <1>6 DEF Sizes, CrowdInv

\* When the last active key runs out, no key is recent.
LEMMA TickCrowd ==
  ASSUME IInv, IInv', TokenLife <= KeyLife, CrowdInv, Tick
  PROVE  CrowdInv'
<1>1. Sizes /\ Sizes' /\ Handlers' = Handlers /\ PerRotation' = PerRotation
  BY BothSizesHold
<1>2. /\ UNCHANGED <<rows, pc>> /\ now' = now + 1 /\ now \in Nat
      /\ TokenLife \in Nat /\ KeyLife \in Nat
      /\ \A k \in Rows : /\ born[k] \in Nat /\ to[k] \in Nat /\ born[k] <= now
                         /\ status[k] \in {"active", "expired"}
                         /\ status[k] = "active" => to[k] = born[k] + KeyLife
  <2>1. Rows \subseteq Keys /\ \A k \in Rows : ~(k > count)
    BY KeyPairAssumption DEF IInv, TypeOK, Rows, Keys, KeyPairAssumption
  <2> QED
    BY <2>1, KeyPairAssumption DEF IInv, TypeOK, AgeInv, Tick, Times, KeyPairAssumption
<1>3. Rotators' = Rotators /\ Expiring' = Expiring /\ Makers' = Makers
  BY <1>2 DEF Rotators, Expiring, Makers
<1>4. Recent' \subseteq Recent /\ Candidates' \subseteq Candidates /\ Rows' = Rows
  BY <1>2 DEF Recent, Born, Candidates, rows, Rows
<1>5. ASSUME Candidates # {}, Candidates' = {}, NEW k \in Recent'
      PROVE  FALSE
  <2>1. k \in Rows /\ born[k] + TokenLife >= now + 1 /\ born' = born /\ status' = status /\ to' = to
    BY <1>2, <1>4, <1>5 DEF Recent, Born, rows
  <2>2. PICK c \in Rows : status[c] = "active"
    BY <1>5 DEF Candidates
  <2>3. PICK d \in Rows : status[d] = "active" /\ born[d] >= born[k]
    <3>1. CASE k <= c
      BY <2>1, <2>2, <3>1, <1>2 DEF IInv, AgeInv
    <3>2. CASE c <= k
      <4>1. status[k] # "expired"
        BY <2>1, <2>2, <3>2 DEF IInv, AgeInv
      <4> QED
        BY <2>1, <4>1, <1>2
    <3> QED
      BY <2>1, <2>2, <3>1, <3>2 DEF IInv, TypeOK, Rows
  <2>4. d \in Candidates'
    BY <1>2, <1>4, <2>1, <2>3 DEF Candidates
  <2> QED
    BY <1>5, <2>4
<1>6. CASE Candidates # {} /\ Candidates' = {}
  <2>1. Cardinality(Recent') = 0
    BY <1>5, <1>6, FS_EmptySet
  <2>2. PerRotation * Cardinality(Expiring) <= PerRotation * MaxRecent
    <3>1. Cardinality(Expiring) <= MaxRecent
      BY <1>1 DEF Sizes, CrowdInv
    <3> QED
      BY <1>1, <3>1, Products DEF Sizes
  <2>3. Crowd' <= PerRotation * MaxRecent + Handlers
    BY <1>1, <1>3, <1>6, <2>1, <2>2 DEF Sizes, Crowd
  <2> QED
    BY <1>1, <1>3, <2>3 DEF Sizes, CrowdInv
<1>7. CASE ~(Candidates # {} /\ Candidates' = {})
  BY <1>3, <1>4, <1>7, CrowdShrinks
<1> QED
  BY <1>6, <1>7

LEMMA CrowdInit == ASSUME Init PROVE CrowdInv
<1>1. Recent = {} /\ Rotators = {} /\ Expiring = {} /\ Candidates = {}
  BY DEF Init, Recent, Born, Rows, Rotators, Expiring, Candidates
<1>2. Cardinality({}) = 0
  BY FS_EmptySet
<1>3. Handlers \in Nat /\ MaxRecent \in Nat /\ PerRotation \in Nat
  BY HandlerSets, KeyPairAssumption DEF KeyPairAssumption, PerRotation
<1>4. PerRotation * 0 = 0 /\ PerRotation * MaxRecent \in Nat
  BY <1>3, Products
<1> QED
  BY <1>1, <1>2, <1>3, <1>4 DEF CrowdInv, Crowd

LEMMA CrowdNext ==
  ASSUME IInv, IInv', TokenLife <= KeyLife, ~crowded => CrowdInv, [Next]_vars, ~crowded'
  PROVE  CrowdInv'
<1>1. CASE Tick
  <2>1. CASE crowded
    <3>1. Born(now + 1) = {} /\ Makers = {}
      BY <1>1, <2>1 DEF Tick
    <3> QED
      BY <1>1, <3>1, CrowdLeaves
  <2> QED
    BY <1>1, <2>1, TickCrowd
<1> SUFFICES ASSUME ~Tick PROVE CrowdInv'
  BY <1>1
<1>6. ~crowded
  <2>1. CASE UNCHANGED vars
    BY <2>1 DEF vars
  <2>2. ASSUME NEW w \in Workers, Arrive(w) PROVE ~crowded
    BY <2>2 DEF Arrive, Sign, Resolve, Rotate
  <2>3. ASSUME NEW w \in Workers, Continue(w) \/ Abort(w) PROVE ~crowded
    BY <2>3 DEF Continue, Find, Generate, GiveToken, Verify, ExpireActive, CreateRotated, Abort
  <2> QED
    BY <2>1, <2>2, <2>3 DEF Next
<1>7. CrowdInv
  BY <1>6
<1>2. ASSUME NEW w \in Workers, Arrive(w)
      PROVE  CrowdInv'
  <2>1. CASE Rotate(w)
    BY <1>7, <2>1, RotateCrowd
  <2>2. CASE ~Rotate(w)
    <3>1. UNCHANGED <<now, rows>> /\ Goto(w, "find")
      BY <1>2, <2>2 DEF Arrive, Sign, Resolve, Start
    <3> QED
      BY <1>7, <3>1, QuietCrowd
  <2> QED
    BY <2>1, <2>2
<1>3. ASSUME NEW w \in Workers, Continue(w)
      PROVE  CrowdInv'
  <2>1. CASE Find(w)
    <3>1. UNCHANGED <<now, rows>> /\ (Goto(w, "use") \/ (Goto(w, "generate") /\ Candidates = {}))
      BY <2>1 DEF Find
    <3> QED
      BY <1>7, <3>1, QuietCrowd
  <2>2. CASE Generate(w)
    <3>1. pc[w] = "generate" /\ CreateKey /\ UNCHANGED now /\ Goto(w, "use")
      BY <2>2 DEF Generate
    <3>2. count < MaxKeys
      BY <3>1, RoomForKey DEF Load
    <3> QED
      BY <3>1, <3>2, <1>7, CreateCrowd
  <2>3. CASE GiveToken(w) \/ Verify(w)
    <3>1. UNCHANGED <<now, rows>> /\ (Goto(w, "idle") \/ Goto(w, "find"))
      BY <2>3 DEF GiveToken, Verify, Return
    <3> QED
      BY <1>7, <3>1, QuietCrowd
  <2>4. CASE ExpireActive(w)
    BY <1>7, <2>4, ExpireCrowd
  <2>5. CASE CreateRotated(w)
    <3>1. pc[w] = "rotate" /\ CreateKey /\ UNCHANGED now /\ Goto(w, "idle")
      BY <2>5 DEF CreateRotated, Return
    <3>2. count < MaxKeys
      BY <3>1, RoomForKey DEF Load, IInv, PlaceInv
    <3> QED
      BY <3>1, <3>2, <1>7, CreateCrowd
  <2> QED
    BY <1>3, <2>1, <2>2, <2>3, <2>4, <2>5 DEF Continue
<1>4. ASSUME NEW w \in Workers, Abort(w)
      PROVE  CrowdInv'
  <2>1. UNCHANGED <<now, rows>> /\ Goto(w, "idle")
    BY <1>4 DEF Abort, Return
  <2> QED
    BY <1>7, <2>1, QuietCrowd
<1>5. CASE UNCHANGED vars
  <2>1. UNCHANGED <<now, rows, pc>>
    BY <1>5 DEF vars
  <2>2. Recent' = Recent /\ Candidates' = Candidates /\ Rotators' = Rotators /\ Expiring' = Expiring /\ Makers' = Makers
    BY <2>1 DEF Recent, Born, Candidates, Rotators, Expiring, Makers, rows, Rows
  <2> QED
    BY <1>7, <2>2, CrowdShrinks
<1> QED
  BY <1>2, <1>3, <1>4, <1>5 DEF Next

-----------------------------------------------------------------------------
\* Rows, instants and tokens are numbers.
LEMMA Instants ==
  ASSUME IInv
  PROVE  /\ now \in Nat /\ TokenLife \in Nat /\ TokenLife >= 1 /\ count \in Nat
         /\ Rows \subseteq Nat /\ Rows \subseteq Keys
         /\ born \in [Keys -> Times] /\ (\A k \in Rows : born[k] \in Nat /\ born[k] <= now)
         /\ \A t \in tokens : t[1] \in Rows /\ t[2] \in Nat
         /\ pc \in [Workers -> Steps] /\ key \in [Workers -> 0..MaxKeys]
         /\ \A w \in Workers : pc[w] = "use" => key[w] \in Rows
<1>1. Rows \subseteq Nat /\ Rows \subseteq Keys
  BY KeyPairAssumption DEF IInv, TypeOK, Rows, Keys, KeyPairAssumption
<1> QED
  BY <1>1, KeyPairAssumption DEF IInv, TypeOK, AgeInv, TokenInv, Times, Rows, KeyPairAssumption

\* The rows stay; a handler that comes to use a key uses the newest.
LEMMA LaterQuiet ==
  ASSUME IInv, IInv', LaterInv, UNCHANGED <<now, rows, tokens>>,
         \A w \in Workers : pc'[w] = "use" =>
            (pc[w] = "use" /\ key'[w] = key[w]) \/ \A k \in Rows : key'[w] >= k
  PROVE  LaterInv'
<1>1. Rows' = Rows /\ born' = born /\ tokens' = tokens /\ now' = now
  BY DEF rows, Rows
<1>2. ASSUME NEW w \in Workers, pc'[w] = "use", NEW k \in Rows, k > key'[w]
      PROVE  born[k] >= now
  <2>1. key'[w] \in Nat /\ k \in Nat
    <3>1. key'[w] \in 1..count'
      BY <1>2 DEF IInv, TypeOK
    <3> QED
      BY <1>1, <3>1, Instants DEF rows
  <2> QED
    BY <1>2, <2>1 DEF LaterInv
<1> QED
  BY <1>1, <1>2 DEF LaterInv, UnexpiredAt

\* A new row is born now.
LEMMA LaterCreate ==
  ASSUME IInv, LaterInv, CreateKey, count < MaxKeys, UNCHANGED <<now, tokens>>,
         \A w \in Workers : pc'[w] = "use" =>
            (pc[w] = "use" /\ key'[w] = key[w]) \/ key'[w] = count + 1
  PROVE  LaterInv'
<1>1. count' = count + 1 /\ count + 1 \in Keys /\ Rows' = Rows \union {count + 1}
  BY Instants, KeyPairAssumption DEF CreateKey, Keys, Rows, KeyPairAssumption
<1>2. born'[count + 1] = now /\ \A k \in Rows : born'[k] = born[k]
  BY <1>1, Instants DEF CreateKey, Rows
<1>3. ASSUME NEW w \in Workers, pc'[w] = "use", NEW k \in Rows', k > key'[w]
      PROVE  born'[k] >= now
  <2>1. CASE k = count + 1
    BY <2>1, <1>2, Instants
  <2>2. CASE k \in Rows
    <3>1. k <= count /\ k \in Nat
      BY <2>2, Instants DEF Rows
    <3>2. pc[w] = "use" /\ key'[w] = key[w]
      BY <1>3, <3>1, Instants
    <3> QED
      BY <1>2, <1>3, <2>2, <3>2 DEF LaterInv
  <2> QED
    BY <1>1, <2>1, <2>2
<1>4. ASSUME NEW t \in tokens, NEW k \in Rows', k > t[1]
      PROVE  born'[k] >= t[2]
  BY <1>1, <1>2, <1>4, Instants DEF LaterInv
<1> QED
  BY <1>3, <1>4 DEF LaterInv, UnexpiredAt

\* A token is signed with a key that no key from an earlier instant follows.
LEMMA LaterGive ==
  ASSUME IInv, LaterInv, NEW w \in Workers, GiveToken(w)
  PROVE  LaterInv'
<1>1. /\ pc[w] = "use" /\ Goto(w, "idle") /\ UNCHANGED <<now, rows>>
      /\ key' = [key EXCEPT ![w] = 0] /\ tokens' \subseteq tokens \union {<<key[w], now>>}
  BY DEF GiveToken, Return, Locals
<1>2. Rows' = Rows /\ born' = born
  BY <1>1 DEF rows, Rows
<1>3. \A v \in Workers : pc'[v] = "use" => pc[v] = "use" /\ key'[v] = key[v]
  BY <1>1, Instants DEF Goto
<1>4. \A t \in tokens' : /\ t[2] <= now /\ UnexpiredAt(t, now)
                         /\ \A k \in Rows : k > t[1] => born[k] >= t[2]
  <2>1. LET t == <<key[w], now>>
        IN  /\ t[2] <= now /\ UnexpiredAt(t, now)
            /\ \A k \in Rows : k > t[1] => born[k] >= t[2]
    BY <1>1, Instants DEF LaterInv, UnexpiredAt
  <2> QED
    BY <1>1, <2>1 DEF LaterInv
<1> QED
  BY <1>1, <1>2, <1>3, <1>4 DEF LaterInv, UnexpiredAt

LEMMA LaterTick == ASSUME IInv, LaterInv, Tick PROVE LaterInv'
<1>1. now' = now + 1 /\ UNCHANGED <<rows, pc>> /\ \A w \in Workers : pc[w] # "use"
  BY DEF Tick
<1>2. tokens' = {t \in tokens : UnexpiredAt(t, now')}
  BY DEF Tick
<1>3. Rows' = Rows /\ born' = born
  BY <1>1 DEF rows, Rows
<1>4. \A t \in tokens' : t[2] <= now'
  BY <1>1, <1>2, Instants DEF LaterInv
<1> QED
  BY <1>1, <1>2, <1>3, <1>4 DEF LaterInv, UnexpiredAt

LEMMA LaterNext == ASSUME IInv, IInv', LaterInv, [Next]_vars PROVE LaterInv'
<1>1. CASE Tick
  BY <1>1, LaterTick
<1>2. ASSUME NEW w \in Workers, Arrive(w) \/ Verify(w) \/ ExpireActive(w) \/ Abort(w)
      PROVE  LaterInv'
  <2>1. pc \in [Workers -> Steps] /\ key \in [Workers -> 0..MaxKeys]
    BY Instants
  <2>2. /\ UNCHANGED <<now, count, born, tokens>>
        /\ \A v \in Workers : pc'[v] = "use" => pc[v] = "use" /\ key'[v] = key[v]
    BY <1>2, <2>1 DEF Arrive, Sign, Resolve, Rotate, Start, Verify, ExpireActive, Abort, Return,
                      Goto, Locals, rows, call
  <2>3. Rows' = Rows
    BY <2>2 DEF Rows
  <2> QED
    BY <2>2, <2>3 DEF LaterInv, UnexpiredAt
<1>3. ASSUME NEW w \in Workers, Find(w)
      PROVE  LaterInv'
  <2>1. pc \in [Workers -> Steps] /\ key \in [Workers -> 0..MaxKeys]
    BY Instants
  <2>2. UNCHANGED <<now, rows, tokens>>
    BY <1>3 DEF Find
  <2>3. ASSUME NEW v \in Workers, pc'[v] = "use"
        PROVE  (pc[v] = "use" /\ key'[v] = key[v]) \/ \A k \in Rows : key'[v] >= k
    <3>1. CASE v # w
      BY <1>3, <2>1, <2>3, <3>1 DEF Find, Goto
    <3>2. CASE v = w
      <4>1. Candidates # {} /\ key'[w] = Max(Candidates)
        BY <1>3, <2>1, <2>3, <3>2 DEF Find, Goto
      <4> QED
        BY <3>2, <4>1, NewestIsFound
    <3> QED
      BY <3>1, <3>2
  <2> QED
    BY <2>2, <2>3, LaterQuiet
<1>4. ASSUME NEW w \in Workers, Generate(w) \/ CreateRotated(w)
      PROVE  LaterInv'
  <2>1. pc \in [Workers -> Steps] /\ key \in [Workers -> 0..MaxKeys]
    BY Instants
  <2>2. /\ CreateKey /\ UNCHANGED <<now, tokens>>
        /\ \A v \in Workers : pc'[v] = "use" =>
             (pc[v] = "use" /\ key'[v] = key[v]) \/ key'[v] = count + 1
    BY <1>4, <2>1 DEF Generate, CreateRotated, Return, Goto, Locals
  <2>3. count < MaxKeys
    BY <1>4, RoomForKey DEF Generate, CreateRotated, Load, IInv, PlaceInv
  <2> QED
    BY <2>2, <2>3, LaterCreate
<1>5. ASSUME NEW w \in Workers, GiveToken(w)
      PROVE  LaterInv'
  BY <1>5, LaterGive
<1>6. CASE UNCHANGED vars
  <2>1. UNCHANGED <<now, count, born, tokens, pc, key>>
    BY <1>6 DEF vars, rows, call
  <2> QED
    BY <2>1 DEF LaterInv, UnexpiredAt, Rows
<1> QED
  BY <1>1, <1>2, <1>3, <1>4, <1>5, <1>6 DEF Next, Continue

\* The rows newer than a live token's key are recent.
LEMMA LiveTokensArePublished ==
  ASSUME IInv, CrowdInv, LaterInv, JwksSuffices, NEW t \in tokens
  PROVE  t[1] \in Published
<1>1. t[1] \in Rows /\ t[2] \in Nat /\ t[2] + TokenLife > now
  BY Instants DEF LaterInv, UnexpiredAt
<1> DEFINE public == {k \in Rows : status[k] \in {"active", "expired"}}
           newer == {j \in public : j > t[1]}
<1>2. t[1] \in public
  <2>1. t[1] \in Keys /\ ~(t[1] > count)
    BY <1>1, Instants DEF Rows
  <2> QED
    BY <1>1, <2>1 DEF IInv, TypeOK
<1>3. newer \subseteq Recent
  <2> SUFFICES ASSUME NEW j \in Rows, j > t[1] PROVE born[j] + TokenLife >= now
    BY DEF Recent, Born
  <2>1. born[j] >= t[2] /\ born[j] \in Nat
    BY Instants DEF LaterInv
  <2> QED
    BY <1>1, <2>1, Instants
<1>4. Cardinality(newer) <= Cardinality(Recent)
  <2>1. Recent \in SUBSET (1..count) /\ count \in Nat
    BY Instants DEF Recent, Born, Rows
  <2> QED
    BY <1>3, <2>1, RowSets
<1>5. Cardinality(newer) < JwksSize
  <2>1. Sizes
    BY SizesHold DEF JwksSuffices
  <2>2. Cardinality(newer) \in Nat
    <3>1. newer \in SUBSET (1..count) /\ count \in Nat
      BY Instants DEF Rows
    <3> HIDE DEF newer
    <3> QED
      BY <3>1, RowSets
  <2>3. JwksSize \in Nat
    BY KeyPairAssumption DEF KeyPairAssumption
  <2> QED
    BY <1>4, <2>1, <2>2, <2>3 DEF Sizes, CrowdInv, JwksSuffices
<1> QED
  BY <1>1, <1>2, <1>5 DEF Published

\* Every token that has not expired verifies: for the guard by its kid always, and for
\* the others by the published keys unless rotations crowded, provided that the JWKS
\* has room for the keys of MaxRecent rotations in the life of a token and for those
\* of the handlers that each store one after a rotation or when a key runs out.  With
\* the ten rows and the lives of the code that is MaxRecent rotations per fifteen
\* minutes with PerRotation * MaxRecent + Handlers < 10.
THEOREM LiveTokensHold == ASSUME JwksSuffices PROVE Spec => []LiveTokensVerify
<1> DEFINE LInv == (~crowded => CrowdInv) /\ LaterInv
<1>1. TokenLife <= KeyLife
  BY DEF JwksSuffices
<1>2. Init => LInv
  <2>1. Init => LaterInv
    BY DEF Init, LaterInv
  <2> QED
    BY <2>1, CrowdInit
<1>3. IInv /\ IInv' /\ LInv /\ [Next]_vars => LInv'
  BY <1>1, CrowdNext, LaterNext
<1>4. IInv /\ LInv => LiveTokensVerify
  <2> SUFFICES ASSUME IInv, LInv, NEW t \in tokens PROVE AuthGuard(t) /\ (t[1] \in Published \/ crowded)
    BY DEF LiveTokensVerify
  <2>1. AuthGuard(t)
    BY Instants DEF AuthGuard
  <2>2. CASE ~crowded
    BY <2>1, <2>2, LiveTokensArePublished
  <2> QED
    BY <2>1, <2>2
<1> HIDE DEF LInv
<1> QED
  BY <1>2, <1>3, <1>4, IInvHolds, PTL DEF Spec
=============================================================================
