----------------------- MODULE PermissionDialogsProofs -----------------------
(***************************************************************************)
(* Proofs about PermissionDialogs, for any calls, applications, permissions *)
(* and ids, whatever the clock does and however often the user answers.     *)
(*                                                                         *)
(* Ids are either mixed or clean.  Of a clean id it is proved that one thing *)
(* at a time is under way (Sequenced), that it is about the application and  *)
(* the permission which its request waits for (Allowed, Ordered), and that   *)
(* its request is never forgotten (InPursuit).  Of a mixed id it is proved   *)
(* that what is written is what the user said to one who asked under it.     *)
(* The callback is called at most once in any case.  So the code implements  *)
(* PermissionService.                                                       *)
(***************************************************************************)
EXTENDS PermissionDialogs, FiniteSetTheorems, SequenceTheorems, TLAPS

-----------------------------------------------------------------------------
(* The permissions that a request asks for. *)

LEMMA RankGrows ==
    ASSUME NEW S, S \subseteq Int, IsFiniteSet(S), NEW j \in S
    PROVE  /\ Rank(S, j) \in 1..Cardinality(S)
           /\ \A i \in S : i < j => Rank(S, i) < Rank(S, j)
  <1> DEFINE UpTo(i) == {k \in S : k <= i}
  <1>1. \A i \in S : /\ IsFiniteSet(UpTo(i)) /\ Cardinality(UpTo(i)) \in Nat
                     /\ Cardinality(UpTo(i)) <= Cardinality(S)
    BY FS_Subset, FS_CardinalityType
  <1>2. Cardinality(S) \in Nat
    BY FS_CardinalityType
  <1>3. Cardinality(UpTo(j)) # 0
    BY <1>1, FS_EmptySet
  <1>4. ASSUME NEW i \in S, i < j
        PROVE  Cardinality(UpTo(i)) < Cardinality(UpTo(j))
    <2>1. S \subseteq Int /\ i \in Int /\ j \in Int
      OBVIOUS
    <2>2. UpTo(i) \subseteq UpTo(j)
      <3> SUFFICES ASSUME NEW k \in S, k <= i PROVE k <= j
        OBVIOUS
      <3> QED BY <1>4, <2>1
    <2>3. j \in UpTo(j) /\ j \notin UpTo(i)
      BY <1>4, <2>1
    <2>4. /\ Cardinality(UpTo(i)) <= Cardinality(UpTo(j))
          /\ Cardinality(UpTo(i)) # Cardinality(UpTo(j))
      BY <1>1, <2>2, <2>3, FS_Subset
    <2> QED BY <1>1, <2>4
  <1> QED BY <1>1, <1>2, <1>3, <1>4 DEF Rank

\* Every position has its rank and every rank its position.
LEMMA NthIsRanked ==
    ASSUME NEW S, S \subseteq Int, IsFiniteSet(S)
    PROVE  /\ \A n \in 1..Cardinality(S) : Nth(S, n) \in S
           /\ \A j \in S : Nth(S, Rank(S, j)) = j
  <1>1. \A i, j \in S : i # j => Rank(S, i) # Rank(S, j)
    <2>1. Cardinality(S) \in Nat
      BY FS_CardinalityType
    <2>2. ASSUME NEW i \in S, NEW j \in S, i < j
          PROVE  Rank(S, i) # Rank(S, j)
      <3>1. Rank(S, i) < Rank(S, j)
        BY <2>2, RankGrows
      <3>2. Rank(S, i) \in 1..Cardinality(S) /\ Rank(S, j) \in 1..Cardinality(S)
        BY RankGrows
      <3> QED BY <2>1, <3>1, <3>2
    <2> QED BY <2>2
  <1>2. Cardinality(S) \in Nat
    BY FS_CardinalityType
  <1>3. ASSUME NEW n \in 1..Cardinality(S)
        PROVE  \E j \in S : Rank(S, j) = n
    <2> SUFFICES ASSUME \A j \in S : Rank(S, j) # n PROVE FALSE
      OBVIOUS
    <2> DEFINE T == (1..Cardinality(S)) \ {n}
               f == [j \in S |-> Rank(S, j)]
    <2>1. IsFiniteSet(T) /\ Cardinality(T) = Cardinality(S) - 1
      <3>1. IsFiniteSet(1..Cardinality(S)) /\ Cardinality(1..Cardinality(S)) = Cardinality(S)
        BY <1>2, FS_Interval
      <3> QED BY <3>1, FS_RemoveElement
    <2>2. f \in [S -> T]
      BY RankGrows
    <2>3. \E i, j \in S : i # j /\ f[i] = f[j]
      <3>1. Cardinality(T) < Cardinality(S)
        BY <1>2, <2>1
      <3> HIDE DEF f, T
      <3> QED BY <2>1, <2>2, <3>1, FS_PigeonHole
    <2> QED BY <1>1, <2>3
  <1> QED BY <1>1, <1>3 DEF Nth

LEMMA AsksForTheUndecided ==
    ASSUME DialogAssumption, NEW c \in Calls
    PROVE  /\ ToAsk(c) \in Seq(Permissions)
           /\ \A p \in Needed(c) : found[c][p] = "none" =>
                 \E n \in 1..Len(ToAsk(c)) : ToAsk(c)[n] = p
  <1> DEFINE need == Needs[AppOf[c]]
             S == Undecided(c)
             m == Cardinality(S)
  <1>1. /\ need \in Seq(Permissions) /\ DOMAIN need = 1..Len(need)
        /\ Len(need) \in Nat
    BY DEF DialogAssumption
  <1>2. S \subseteq 1..Len(need)
    BY <1>1 DEF Undecided
  <1>3. S \subseteq Int /\ IsFiniteSet(S) /\ m \in Nat
    <2>1. IsFiniteSet(1..Len(need))
      BY <1>1, FS_Interval
    <2>2. IsFiniteSet(S)
      BY <1>2, <2>1, FS_Subset
    <2>3. S \subseteq Int
      BY <1>1, <1>2
    <2> QED BY <2>2, <2>3, FS_CardinalityType
  <1>4. \A n \in 1..m : need[Nth(S, n)] \in Permissions
    <2>1. \A n \in 1..m : Nth(S, n) \in S
      BY <1>3, NthIsRanked
    <2> QED BY <1>1, <1>2, <2>1
  <1>5. ToAsk(c) = [n \in 1..m |-> need[Nth(S, n)]]
    BY DEF ToAsk
  <1>6. ToAsk(c) \in Seq(Permissions) /\ Len(ToAsk(c)) = m
    <2> HIDE DEF m, need
    <2> QED BY <1>3, <1>4, <1>5
  <1>7. ASSUME NEW p \in Needed(c), found[c][p] = "none"
        PROVE  \E n \in 1..m : ToAsk(c)[n] = p
    <2>1. PICK j \in DOMAIN need : need[j] = p
      BY DEF Needed, Range
    <2>2. j \in S
      BY <1>7, <2>1 DEF Undecided
    <2>3. Rank(S, j) \in 1..m /\ Nth(S, Rank(S, j)) = j
      BY <1>3, <2>2, RankGrows, NthIsRanked
    <2> QED BY <1>5, <2>1, <2>3
  <1> QED BY <1>6, <1>7

-----------------------------------------------------------------------------
(* Types. *)

Map == [Ids -> Request \cup {NoRequest}]
Shown == [id : Ids, perm : Permissions, call : Calls]
Posted == [id : Ids, perm : Permissions, answer : {"yes", "no"}]
Write == [id : Ids, call : Calls, perm : Permissions, answer : {"yes", "no"},
          index : Nat]

LEMMA AnsweredFields ==
    ASSUME NEW r \in Request, NEW p \in Permissions, NEW answer \in {"yes", "no"}
    PROVE  Answered(r, p, answer) =
              [call |-> r.call, requests |-> r.requests,
               result |-> [r.result EXCEPT ![p] = answer], index |-> r.index + 1]
  <1> DEFINE new == [r.result EXCEPT ![p] = answer]
  <1>1. Answered(r, p, answer) = [r EXCEPT !.result = new, !.index = r.index + 1]
    BY DEF Answered, Request
  <1> HIDE DEF new
  <1>2. Answered(r, p, answer) = [call |-> r.call, requests |-> r.requests,
                                  result |-> new, index |-> r.index + 1]
    BY <1>1 DEF Request
  <1> QED BY <1>2 DEF new

LEMMA AnsweredTyped ==
    ASSUME NEW r \in Request, NEW p \in Permissions, NEW answer \in {"yes", "no"}
    PROVE  /\ Answered(r, p, answer) \in Request
           /\ Answered(r, p, answer).call = r.call
  <1> DEFINE new == [r.result EXCEPT ![p] = answer]
  <1>1. /\ r.call \in Calls /\ r.requests \in Seq(Permissions) /\ r.index \in Nat
        /\ r.result \in Results
    BY DEF Request
  <1>2. new \in Results
    BY <1>1 DEF Results
  <1>3. Answered(r, p, answer) = [call |-> r.call, requests |-> r.requests,
                                  result |-> new, index |-> r.index + 1]
    BY AnsweredFields
  <1> HIDE DEF new
  <1> QED BY <1>1, <1>2, <1>3 DEF Request

LEMMA DialogTyped ==
    ASSUME NEW i \in Ids, NEW r \in Request, ~AllProcessed(r)
    PROVE  /\ Dialog(i, r) \in Shown
           /\ Dialog(i, r).id = i /\ Dialog(i, r).call = r.call
           /\ Dialog(i, r).perm = r.requests[r.index + 1]
  <1>1. r.call \in Calls /\ r.requests \in Seq(Permissions) /\ r.index \in Nat
    BY DEF Request
  <1>2. r.index + 1 \in 1..Len(r.requests)
    BY <1>1 DEF AllProcessed
  <1>3. r.requests[r.index + 1] \in Permissions
    BY <1>1, <1>2
  <1> QED BY <1>1, <1>3 DEF Dialog, Shown

LEMMA WriteTyped ==
    ASSUME NEW i \in Ids, NEW r \in Request, NEW p \in Permissions,
           NEW answer \in {"yes", "no"}
    PROVE  SetPermission(i, r, p, answer) \in Write
  BY DEF SetPermission, Write, Request

\* The cases of ShowNextDialog, on typed arguments.
LEMMA ShowTyped ==
    ASSUME DialogAssumption, TypeOK, NEW i \in Ids, NEW m \in Map,
           NEW s \in SUBSET Write, ShowNextDialog(i, m, s)
    PROVE  /\ active' \in Map
           /\ \A d \in dialogs' : d \in Shown
           /\ \A w \in storing' : w \in Write
           /\ giveup' \subseteq Ids
           /\ outcome' \in [Calls -> Seq(Results)]
  <1>1. /\ \A d \in dialogs : d \in Shown
        /\ giveup \subseteq Ids
        /\ outcome \in [Calls -> Seq(Results)]
    BY DEF TypeOK, Shown
  <1>2. m[i] # NoRequest => m[i] \in Request
    BY DEF Map
  <1>3. CASE ShowNothing(i, m, s)
    BY <1>1, <1>3 DEF ShowNothing
  <1>4. CASE Complete(i, m, s)
    <2>1. m[i].call \in Calls /\ m[i].result \in Results
      BY <1>2, <1>4 DEF Complete, Request
    <2>2. active' \in Map
      BY <1>4 DEF Complete, Map
    <2>3. outcome' \in [Calls -> Seq(Results)]
      BY <1>1, <1>4, <2>1 DEF Complete
    <2> QED BY <1>1, <1>4, <2>2, <2>3 DEF Complete
  <1>5. CASE ShowDialog(i, m, s)
    <2>1. Dialog(i, m[i]) \in Shown
      BY <1>2, <1>5, DialogTyped DEF ShowDialog
    <2> QED BY <1>1, <1>5, <2>1 DEF ShowDialog
  <1>6. CASE DenyUnshown(i, m, s)
    <2> DEFINE p == Dialog(i, m[i]).perm
    <2>1. m[i] \in Request /\ p \in Permissions
      BY <1>2, <1>6, DialogTyped DEF DenyUnshown, Shown
    <2>2. active' = [m EXCEPT ![i] = Answered(m[i], p, "no")]
      BY <1>6 DEF DenyUnshown, Map
    <2>3. active' \in Map
      BY <2>1, <2>2, AnsweredTyped DEF Map
    <2>4. storing' = s \cup {SetPermission(i, m[i], p, "no")}
      BY <1>6 DEF DenyUnshown
    <2>5. SetPermission(i, m[i], p, "no") \in Write
      BY <2>1, WriteTyped
    <2> HIDE DEF p
    <2> QED BY <1>1, <1>6, <2>3, <2>4, <2>5 DEF DenyUnshown
  <1> QED BY <1>3, <1>4, <1>5, <1>6 DEF ShowNextDialog

LEMMA KnownTyped ==
    ASSUME TypeOK, NEW c \in Calls, AllFound(c)
    PROVE  Known(c) \in Results
  BY DEF TypeOK, AllFound, Known, Results

\* A request is new to its id, or its id is mixed from now on.
LEMMA AskIsFree ==
    ASSUME DialogAssumption, TypeOK, NEW c \in Calls, Ask(c)
    PROVE  /\ NewRequest(c) \in Request
           /\ \E i \in Ids :
                 /\ ShowNextDialog(i, [active EXCEPT ![i] = NewRequest(c)], storing)
                 /\ askers' = [askers EXCEPT ![i] = @ \cup {c}]
                 /\ mixed' = mixed \/ mixed' = mixed \cup {i}
                 /\ i \notin mixed' =>
                       /\ active[i] = NoRequest /\ i \notin giveup
                       /\ \A d \in dialogs : d.id # i
                       /\ \A k \in 1..Len(responses) : responses[k].id # i
                       /\ \A w \in storing : w.id # i
  <1>1. NewRequest(c) \in Request
    BY KnownTyped, AsksForTheUndecided DEF Ask, Request, NewRequest
  <1>2. PICK i \in Ids :
           /\ ShowNextDialog(i, [active EXCEPT ![i] = NewRequest(c)], storing)
           /\ askers' = [askers EXCEPT ![i] = @ \cup {c}]
           /\ mixed' = IF Busy(i) THEN mixed \cup {i} ELSE mixed
    BY DEF Ask
  <1>3. mixed' = mixed \/ mixed' = mixed \cup {i}
    BY <1>2
  <1>4. ASSUME i \notin mixed'
        PROVE  /\ active[i] = NoRequest /\ i \notin giveup
               /\ \A d \in dialogs : d.id # i
               /\ \A k \in 1..Len(responses) : responses[k].id # i
               /\ \A w \in storing : w.id # i
    <2>1. ~Busy(i)
      BY <1>2, <1>4
    <2>2. \A k \in 1..Len(responses) : responses[k] \in Range(responses)
      BY DEF TypeOK, Range
    <2> QED BY <2>1, <2>2 DEF Busy
  <1> QED BY <1>1, <1>2, <1>3, <1>4

\* The user's answer is posted once, or twice under an id that is mixed then.
LEMMA UserPosts ==
    ASSUME DialogAssumption, TypeOK, User \/ Double
    PROVE  \E d \in dialogs, answer \in {"yes", "no"} :
              /\ Grant(d, answer)
              /\ d \in Shown /\ Response(d, answer) \in Posted
              /\ responses' \in Seq(Posted)
              /\ \/ mixed' = mixed /\ Len(responses') = Len(responses) + 1
                 \/ mixed' = mixed \cup {d.id}
              /\ Len(responses) + 1 \in 1..Len(responses')
              /\ \A k \in 1..Len(responses) :
                    k \in 1..Len(responses') /\ responses'[k] = responses[k]
              /\ \A k \in 1..Len(responses') :
                    k \in 1..Len(responses) \/ responses'[k] = Response(d, answer)
  <1>1. PICK d \in dialogs, answer \in {"yes", "no"} :
           UserAnswers(d, answer) \/ UserAnswersTwice(d, answer)
    BY DEF User, Double
  <1> DEFINE a == Response(d, answer)
  <1>2. d \in Shown /\ responses \in Seq(Posted)
    BY DEF TypeOK, Shown, Posted
  <1>3. a \in Posted
    BY <1>2 DEF Shown, Posted, Response
  <1>4. /\ Grant(d, answer)
        /\ \/ mixed' = mixed /\ responses' = Append(responses, a)
           \/ mixed' = mixed \cup {d.id} /\ responses' = responses \o <<a, a>>
    BY <1>1 DEF UserAnswers, UserAnswersTwice
  <1> HIDE DEF a
  <1>5. CASE mixed' = mixed /\ responses' = Append(responses, a)
    <2>1. /\ responses' \in Seq(Posted) /\ Len(responses') = Len(responses) + 1
          /\ Len(responses) + 1 \in 1..Len(responses')
          /\ \A k \in 1..Len(responses) :
                k \in 1..Len(responses') /\ responses'[k] = responses[k]
          /\ \A k \in 1..Len(responses') : k \in 1..Len(responses) \/ responses'[k] = a
      BY <1>2, <1>3, <1>5
    <2> QED BY <1>2, <1>3, <1>4, <1>5, <2>1 DEF a
  <1>6. CASE mixed' = mixed \cup {d.id} /\ responses' = responses \o <<a, a>>
    <2>1. <<a, a>> \in Seq(Posted) /\ Len(<<a, a>>) = 2
          /\ \A k \in 1..2 : <<a, a>>[k] = a
      BY <1>3
    <2> DEFINE t == <<a, a>>
    <2>2. /\ t \in Seq(Posted) /\ Len(t) = 2 /\ \A k \in 1..2 : t[k] = a
          /\ responses' = responses \o t
      BY <1>6, <2>1
    <2> HIDE DEF t
    <2>3. PICK r \in Seq(Posted), u \in Seq(Posted) : r = responses /\ u = t
      BY <1>2, <2>2
    <2>4. /\ r \o u \in Seq(Posted)
          /\ Len(r \o u) = Len(r) + Len(u)
          /\ \A k \in 1..Len(r) + Len(u) :
                (r \o u)[k] = IF k <= Len(r) THEN r[k] ELSE u[k - Len(r)]
      BY ONLY ConcatProperties
    <2>5. /\ responses' \in Seq(Posted) /\ Len(responses') = Len(responses) + 2
          /\ \A k \in 1..Len(responses') :
                responses'[k] = IF k <= Len(responses) THEN responses[k]
                                                      ELSE t[k - Len(responses)]
      BY <2>2, <2>3, <2>4
    <2>6. Len(responses) \in Nat
      BY <1>2
    <2>7. \A k \in 1..Len(responses') : k \in 1..Len(responses) \/ responses'[k] = a
      <3> SUFFICES ASSUME NEW k \in 1..Len(responses'), k \notin 1..Len(responses)
                   PROVE  responses'[k] = a
        OBVIOUS
      <3>1. ~(k <= Len(responses)) /\ k - Len(responses) \in 1..2
        BY <2>5, <2>6
      <3> QED BY <2>2, <2>5, <3>1
    <2>8. /\ Len(responses) + 1 \in 1..Len(responses')
          /\ \A k \in 1..Len(responses) :
                k \in 1..Len(responses') /\ responses'[k] = responses[k]
      BY <2>5, <2>6
    <2> QED BY <1>2, <1>3, <1>4, <1>6, <2>5, <2>7, <2>8 DEF a
  <1> QED BY <1>4, <1>5, <1>6

LEMMA TypeStep ==
    ASSUME DialogAssumption, TypeOK, [Next]_vars
    PROVE  TypeOK'
  <1>1. /\ active \in Map /\ \A d \in dialogs : d \in Shown
        /\ storing \in SUBSET Write /\ responses \in Seq(Posted)
    BY DEF TypeOK, Map, Shown, Write, Posted
  <1>2. NoResults \in Results
    BY DEF NoResults, Results
  <1>3. ASSUME NEW c \in Calls, Io(c) PROVE TypeOK'
    <2>1. CASE NothingNeeded(c)
      BY <1>2, <2>1 DEF TypeOK, NothingNeeded, history
    <2>2. CASE LookUp(c)
      BY <2>2 DEF TypeOK, LookUp, history
    <2>3. ASSUME NEW p \in Permissions, LookUpAnswered(c, p) PROVE TypeOK'
      <3>1. PICK status \in {store[AppOf[c]][p], "none"} :
                found' = [found EXCEPT ![c][p] = status]
        BY <2>3 DEF LookUpAnswered
      <3>2. status \in {"none", "yes", "no"}
        <4>1. AppOf[c] \in AppIds
          BY DEF DialogAssumption
        <4>2. store[AppOf[c]][p] \in {"none", "yes", "no"}
          BY <4>1 DEF TypeOK, Results
        <4> QED BY <4>2
      <3>3. found' \in [Calls -> [Permissions -> {"pending", "none", "yes", "no"}]]
        BY <3>1, <3>2 DEF TypeOK
      <3> QED BY <2>3, <3>3 DEF TypeOK, LookUpAnswered, history
    <2>4. CASE NothingToAsk(c)
      <3>1. Known(c) \in Results
        BY <2>4, KnownTyped DEF NothingToAsk
      <3> QED BY <2>4, <3>1 DEF TypeOK, NothingToAsk, history
    <2>5. CASE Ask(c)
      <3>1. PICK i \in Ids :
               /\ NewRequest(c) \in Request
               /\ ShowNextDialog(i, [active EXCEPT ![i] = NewRequest(c)], storing)
               /\ askers' = [askers EXCEPT ![i] = @ \cup {c}]
               /\ mixed' = mixed \/ mixed' = mixed \cup {i}
        BY <2>5, AskIsFree
      <3>2. [active EXCEPT ![i] = NewRequest(c)] \in Map
        BY <1>1, <3>1 DEF Map
      <3>3. /\ active' \in Map /\ \A d \in dialogs' : d \in Shown
            /\ \A w \in storing' : w \in Write
            /\ giveup' \subseteq Ids /\ outcome' \in [Calls -> Seq(Results)]
        BY <1>1, <3>1, <3>2, ShowTyped
      <3>4. askers' \in [Ids -> SUBSET Calls] /\ mixed' \subseteq Ids
        BY <3>1 DEF TypeOK
      <3>5. /\ pc' \in [Calls -> {"idle", "checking", "called"}]
            /\ UNCHANGED <<found, sink, responses, store, granted>>
        BY <2>5 DEF Ask, TypeOK
      <3> QED BY <3>3, <3>4, <3>5 DEF TypeOK, Map, Shown, Write
    <2> QED BY <1>3, <2>1, <2>2, <2>3, <2>4, <2>5 DEF Io
  <1>4. ASSUME NEW i \in Ids, GiveUp(i) PROVE TypeOK'
    <2>1. active' \in Map
      BY <1>1, <1>4 DEF GiveUp, Map
    <2>2. outcome' \in [Calls -> Seq(Results)]
      <3>1. CASE active[i] = NoRequest
        BY <1>4, <3>1 DEF GiveUp, TypeOK
      <3>2. CASE active[i] # NoRequest
        <4>1. active[i].call \in Calls
          BY <1>1, <3>2 DEF Map, Request
        <4> QED BY <1>2, <1>4, <3>2, <4>1 DEF GiveUp, TypeOK
      <3> QED BY <3>1, <3>2
    <2> QED BY <1>4, <2>1, <2>2 DEF TypeOK, GiveUp, flow, history, Map
  <1>5. CASE User \/ Double
    <2>1. PICK d \in dialogs, answer \in {"yes", "no"} :
             /\ Grant(d, answer) /\ d \in Shown /\ responses' \in Seq(Posted)
             /\ mixed' = mixed \/ mixed' = mixed \cup {d.id}
      BY <1>5, UserPosts
    <2>2. AppOf[d.call] \in AppIds
      BY <2>1 DEF Shown, DialogAssumption
    <2>3. granted' \subseteq [app : AppIds, perm : Permissions]
      BY <2>1, <2>2 DEF Grant, TypeOK, Shown
    <2>4. mixed' \subseteq Ids
      BY <2>1 DEF TypeOK, Shown
    <2> QED BY <2>1, <2>3, <2>4 DEF TypeOK, Grant, Posted
  <1>6. CASE HandlePermissionResponse
    <2> DEFINE a == Head(responses)
    <2>1. a \in Posted /\ Tail(responses) \in Seq(Posted)
      BY <1>1, <1>6 DEF HandlePermissionResponse
    <2>2. active' \in Map /\ storing' \in SUBSET Write
      <3>1. CASE active[a.id] = NoRequest
        BY <1>1, <1>6, <3>1 DEF HandlePermissionResponse
      <3>2. CASE active[a.id] # NoRequest
        <4>1. active[a.id] \in Request /\ a.id \in Ids /\ a.perm \in Permissions
              /\ a.answer \in {"yes", "no"}
          BY <1>1, <2>1, <3>2 DEF Map, Posted
        <4>2. active' = [active EXCEPT ![a.id] = Answered(active[a.id], a.perm, a.answer)]
          BY <1>1, <1>6, <3>2 DEF HandlePermissionResponse, Map
        <4>3. storing' = storing \cup {SetPermission(a.id, active[a.id], a.perm, a.answer)}
          BY <1>6, <3>2 DEF HandlePermissionResponse
        <4>4. /\ Answered(active[a.id], a.perm, a.answer) \in Request
              /\ SetPermission(a.id, active[a.id], a.perm, a.answer) \in Write
          <5> HIDE DEF a
          <5> QED BY <4>1, AnsweredTyped, WriteTyped
        <4> HIDE DEF a
        <4> QED BY <1>1, <4>1, <4>2, <4>3, <4>4 DEF Map
      <3> QED BY <3>1, <3>2
    <2>3. responses' = Tail(responses)
      BY <1>6 DEF HandlePermissionResponse
    <2>4. UNCHANGED <<pc, found, askers, mixed, sink, dialogs, giveup, store, granted, outcome>>
      BY <1>6 DEF HandlePermissionResponse, flow, history
    <2> HIDE DEF a
    <2> QED BY <2>1, <2>2, <2>3, <2>4 DEF TypeOK, Map, Write, Posted
  <1>7. CASE ListenOrCancel
    BY <1>7 DEF TypeOK, ListenOrCancel, flow, history
  <1>8. ASSUME NEW w \in storing, PermissionStored(w) PROVE TypeOK'
    <2>1. w \in Write /\ storing \ {w} \in SUBSET Write
      BY <1>1
    <2>2. w.id \in Ids /\ ShowNextDialog(w.id, active, storing \ {w})
      BY <1>8, <2>1 DEF PermissionStored, Write
    <2>3. /\ active' \in Map /\ \A d \in dialogs' : d \in Shown
          /\ \A v \in storing' : v \in Write
          /\ giveup' \subseteq Ids /\ outcome' \in [Calls -> Seq(Results)]
      BY <1>1, <2>1, <2>2, ShowTyped
    <2>4. store' \in [AppIds -> Results]
      <3>1. CASE store' = [store EXCEPT ![AppOf[w.call]][w.perm] = w.answer]
        <4>1. AppOf[w.call] \in AppIds
          BY <2>1 DEF Write, DialogAssumption
        <4> QED BY <2>1, <3>1, <4>1 DEF TypeOK, Write, Results
      <3> QED BY <1>8, <3>1 DEF PermissionStored, TypeOK
    <2>5. UNCHANGED <<pc, found, askers, mixed, sink, responses, granted>>
      BY <1>8 DEF PermissionStored, flow, history
    <2> QED BY <2>3, <2>4, <2>5 DEF TypeOK, Map, Shown, Write
  <1>9. CASE UNCHANGED vars
    BY <1>9 DEF TypeOK, vars, flow, history
  <1> QED BY <1>3, <1>4, <1>5, <1>6, <1>7, <1>8, <1>9 DEF Next

LEMMA TypeInit ==
    ASSUME DialogAssumption, Init
    PROVE  TypeOK
  BY DEF Init, TypeOK

\* The variables stay in their types, whatever the clock does.
THEOREM TypeCorrect == Spec => []TypeOK
  <1>1. Init => TypeOK
    BY TypeInit, DialogAssumption
  <1>2. TypeOK /\ [Next]_vars => TypeOK'
    BY TypeStep, DialogAssumption
  <1> QED BY <1>1, <1>2, PTL DEF Spec

-----------------------------------------------------------------------------
(* What grows: the calls that have asked, the ids that are mixed.             *)

Clean == Ids \ mixed

LEMMA HistoryGrows ==
    ASSUME DialogAssumption, TypeOK, [Next]_vars
    PROVE  /\ \A i \in Ids : askers[i] \subseteq askers'[i]
           /\ mixed \subseteq mixed'
           /\ granted \subseteq granted'
  <1>1. askers \in [Ids -> SUBSET Calls]
    BY DEF TypeOK
  <1>2. ASSUME NEW c \in Calls, Ask(c)
        PROVE  /\ \A i \in Ids : askers[i] \subseteq askers'[i]
               /\ mixed \subseteq mixed' /\ granted' = granted
    <2>1. PICK i \in Ids : /\ askers' = [askers EXCEPT ![i] = @ \cup {c}]
                           /\ mixed' = mixed \/ mixed' = mixed \cup {i}
      BY <1>2, AskIsFree
    <2> QED BY <1>1, <1>2, <2>1 DEF Ask
  <1>3. ASSUME NEW c \in Calls, Io(c), ~Ask(c)
        PROVE  UNCHANGED <<askers, mixed, granted>>
    BY <1>3 DEF Io, NothingNeeded, LookUp, LookUpAnswered, NothingToAsk, history
  <1>4. CASE User \/ Double
    <2>1. PICK d \in dialogs, answer \in {"yes", "no"} :
             Grant(d, answer) /\ (mixed' = mixed \/ mixed' = mixed \cup {d.id})
      BY <1>4, UserPosts
    <2> QED BY <2>1 DEF Grant
  <1>5. ASSUME \/ HandlePermissionResponse \/ ListenOrCancel
               \/ \E i \in Ids : GiveUp(i)
               \/ \E w \in storing : PermissionStored(w)
               \/ UNCHANGED vars
        PROVE  UNCHANGED <<askers, mixed, granted>>
    BY <1>5 DEF HandlePermissionResponse, ListenOrCancel, GiveUp, PermissionStored,
                vars, flow, history
  <1> QED BY <1>2, <1>3, <1>4, <1>5 DEF Next

LEMMA CleanShrinks ==
    ASSUME DialogAssumption, TypeOK, [Next]_vars
    PROVE  Clean' \subseteq Clean /\ Confused \subseteq Confused'
  <1>1. mixed \subseteq mixed' /\ mixed \subseteq Ids
    BY HistoryGrows DEF TypeOK
  <1> QED BY <1>1, HistoryGrows DEF Clean, Confused

-----------------------------------------------------------------------------
(* One step at a time: under a clean id a request waits for one thing only, a *)
(* dialog that is open, an answer that is posted or a decision that is being  *)
(* written.  G stands for the clean ids.                                      *)

OneAtATime(G, D, R, W) ==
    /\ \A d, e \in D : d.id \in G /\ d.id = e.id => d = e
    /\ \A k, l \in 1..Len(R) : R[k].id \in G /\ R[k].id = R[l].id => k = l
    /\ \A v, w \in W : v.id \in G /\ v.id = w.id => v = w
    /\ \A d \in D, k \in 1..Len(R) : d.id \in G => d.id # R[k].id
    /\ \A d \in D, w \in W : d.id \in G => d.id # w.id
    /\ \A k \in 1..Len(R), w \in W : R[k].id \in G => R[k].id # w.id

\* Nothing is under way for the id.
Free(i, D, R, W) ==
    /\ \A d \in D : d.id # i
    /\ \A k \in 1..Len(R) : R[k].id # i
    /\ \A w \in W : w.id # i

LEMMA ShowOne ==
    ASSUME TypeOK, NEW i \in Ids, NEW m \in Map, NEW s \in SUBSET Write, NEW G,
           OneAtATime(G, dialogs, responses, s),
           i \in G => Free(i, dialogs, responses, s),
           ShowNextDialog(i, m, s)
    PROVE  OneAtATime(G, dialogs', responses, storing')
  <1>1. m[i] # NoRequest => m[i] \in Request
    BY DEF Map
  <1>2. CASE ShowNothing(i, m, s)
    BY <1>2 DEF ShowNothing
  <1>3. CASE Complete(i, m, s)
    BY <1>3 DEF Complete
  <1>4. CASE ShowDialog(i, m, s)
    <2>1. PICK d : dialogs' = dialogs \cup {d} /\ d.id = i
      BY <1>1, <1>4, DialogTyped DEF ShowDialog
    <2>2. storing' = s
      BY <1>4 DEF ShowDialog
    <2> QED BY <2>1, <2>2 DEF OneAtATime, Free
  <1>5. CASE DenyUnshown(i, m, s)
    <2>0. /\ storing' = s \cup {SetPermission(i, m[i], Dialog(i, m[i]).perm, "no")}
          /\ SetPermission(i, m[i], Dialog(i, m[i]).perm, "no").id = i
      BY <1>5 DEF DenyUnshown, SetPermission
    <2>1. PICK w : storing' = s \cup {w} /\ w.id = i
      BY <2>0
    <2>2. dialogs' = dialogs
      BY <1>5 DEF DenyUnshown
    <2> QED BY <2>1, <2>2 DEF OneAtATime, Free
  <1> QED BY <1>2, <1>3, <1>4, <1>5 DEF ShowNextDialog

Sequenced == OneAtATime(Clean, dialogs, responses, storing)

\* A request whose decision has been written waits for nothing else.
LEMMA StoredIsFree ==
    ASSUME TypeOK, Sequenced, NEW w \in storing, PermissionStored(w)
    PROVE  /\ w.id \in Ids /\ w.call \in Calls /\ active \in Map
           /\ storing \ {w} \in SUBSET Write
           /\ ShowNextDialog(w.id, active, storing \ {w})
           /\ w.id \in Clean => Free(w.id, dialogs, responses, storing \ {w})
           /\ UNCHANGED <<pc, found, askers, mixed, responses, granted, sink>>
  BY DEF TypeOK, Map, Write, Sequenced, OneAtATime, Free, PermissionStored, flow, history

LEMMA SequencedStep ==
    ASSUME DialogAssumption, TypeOK, Sequenced, [Next]_vars
    PROVE  Sequenced'
  <1> USE DEF Sequenced
  <1>1. /\ active \in Map /\ storing \in SUBSET Write /\ responses \in Seq(Posted)
        /\ \A d \in dialogs : d \in Shown
    BY DEF TypeOK, Map, Write, Posted, Shown
  <1>2. PICK G : G = Clean' /\ G \subseteq Clean
    BY CleanShrinks
  <1>3. OneAtATime(G, dialogs, responses, storing)
    BY <1>2 DEF OneAtATime
  <1>4. SUFFICES OneAtATime(G, dialogs', responses', storing')
    BY <1>2
  <1>5. ASSUME NEW c \in Calls, Io(c) PROVE OneAtATime(G, dialogs', responses', storing')
    <2>1. ASSUME NEW p \in Permissions, LookUpAnswered(c, p)
          PROVE  OneAtATime(G, dialogs', responses', storing')
      BY <1>3, <2>1 DEF LookUpAnswered
    <2>2. CASE NothingNeeded(c) \/ LookUp(c) \/ NothingToAsk(c)
      BY <1>3, <2>2 DEF NothingNeeded, LookUp, NothingToAsk
    <2>3. CASE Ask(c)
      <3>1. UNCHANGED responses
        BY <2>3 DEF Ask
      <3>2. PICK i \in Ids :
               /\ NewRequest(c) \in Request
               /\ ShowNextDialog(i, [active EXCEPT ![i] = NewRequest(c)], storing)
               /\ i \notin mixed' => Free(i, dialogs, responses, storing)
        BY <2>3, AskIsFree DEF Free
      <3>3. [active EXCEPT ![i] = NewRequest(c)] \in Map
        BY <1>1, <3>2 DEF Map
      <3>4. i \in G => Free(i, dialogs, responses, storing)
        BY <1>2, <3>2 DEF Clean
      <3>5. OneAtATime(G, dialogs', responses, storing')
        BY <1>1, <1>3, <3>2, <3>3, <3>4, ShowOne
      <3> QED BY <3>1, <3>5
    <2> QED BY <1>5, <2>1, <2>2, <2>3 DEF Io
  <1>6. ASSUME NEW i \in Ids, GiveUp(i)
        PROVE  OneAtATime(G, dialogs', responses', storing')
    BY <1>3, <1>6 DEF GiveUp
  <1>7. CASE User \/ Double
    <2>1. PICK d \in dialogs, answer \in {"yes", "no"} :
             /\ Grant(d, answer) /\ d \in Shown
             /\ \/ Len(responses') = Len(responses) + 1
                \/ mixed' = mixed \cup {d.id}
             /\ \A k \in 1..Len(responses) : responses'[k] = responses[k]
             /\ \A k \in 1..Len(responses') :
                   k \in 1..Len(responses) \/ responses'[k] = Response(d, answer)
      BY <1>7, UserPosts
    <2>2. dialogs' = dialogs \ {d} /\ UNCHANGED storing /\ Response(d, answer).id = d.id
      BY <2>1 DEF Grant, Response
    <2>3. \A k \in 1..Len(responses') :
             \/ k \in 1..Len(responses) /\ responses'[k].id = responses[k].id
             \/ k \notin 1..Len(responses) /\ responses'[k].id = d.id
      BY <2>1, <2>2
    <2>4. ASSUME NEW k \in 1..Len(responses'), NEW l \in 1..Len(responses'),
                 k \notin 1..Len(responses), l \notin 1..Len(responses), d.id \in G
          PROVE  k = l
      <3>1. Len(responses') = Len(responses) + 1 /\ Len(responses) \in Nat
        BY <1>1, <1>2, <2>1, <2>4 DEF Clean
      <3> QED BY <2>4, <3>1
    <2>5. \A k, l \in 1..Len(responses') :
             responses'[k].id \in G /\ responses'[k].id = responses'[l].id => k = l
      BY <1>3, <2>3, <2>4 DEF OneAtATime
    <2>6. \A e \in dialogs', k \in 1..Len(responses') : e.id \in G => e.id # responses'[k].id
      BY <1>3, <2>2, <2>3 DEF OneAtATime
    <2>7. \A k \in 1..Len(responses'), w \in storing :
             responses'[k].id \in G => responses'[k].id # w.id
      BY <1>3, <2>3 DEF OneAtATime
    <2> QED BY <1>3, <2>2, <2>5, <2>6, <2>7 DEF OneAtATime
  <1>8. CASE HandlePermissionResponse
    <2> DEFINE a == Head(responses)
    <2>1. responses # <<>> /\ responses' = Tail(responses) /\ UNCHANGED dialogs
      BY <1>8 DEF HandlePermissionResponse, flow
    <2>2. /\ a = responses[1] /\ 1 \in 1..Len(responses)
          /\ Len(responses') = Len(responses) - 1 /\ Len(responses) \in Nat
          /\ \A k \in 1..Len(responses') :
                responses'[k] = responses[k + 1] /\ k + 1 \in 1..Len(responses)
                /\ k + 1 # 1
      BY <1>1, <2>1
    <2>3. \/ storing' = storing
          \/ \E w : storing' = storing \cup {w} /\ w.id = a.id
      <3>1. CASE active[a.id] = NoRequest
        BY <1>8, <3>1 DEF HandlePermissionResponse
      <3>2. CASE active[a.id] # NoRequest
        <4>1. storing' = storing \cup {SetPermission(a.id, active[a.id], a.perm, a.answer)}
          BY <1>8, <3>2 DEF HandlePermissionResponse
        <4>2. SetPermission(a.id, active[a.id], a.perm, a.answer).id = a.id
          BY DEF SetPermission
        <4> HIDE DEF a
        <4> QED BY <4>1, <4>2
      <3> QED BY <3>1, <3>2
    <2> HIDE DEF a
    <2>4. OneAtATime(G, dialogs, responses', storing)
      <3>1. ASSUME NEW k \in 1..Len(responses'), NEW l \in 1..Len(responses'),
                   responses'[k].id \in G, responses'[k].id = responses'[l].id
            PROVE  k = l
        <4>1. k + 1 = l + 1
          BY <1>3, <2>2, <3>1 DEF OneAtATime
        <4> QED BY <2>2, <4>1
      <3>2. ASSUME NEW d \in dialogs, NEW k \in 1..Len(responses'), d.id \in G
            PROVE  d.id # responses'[k].id
        BY <1>3, <2>2, <3>2 DEF OneAtATime
      <3>3. ASSUME NEW k \in 1..Len(responses'), NEW w \in storing, responses'[k].id \in G
            PROVE  responses'[k].id # w.id
        BY <1>3, <2>2, <3>3 DEF OneAtATime
      <3> QED BY <1>3, <3>1, <3>2, <3>3 DEF OneAtATime
    <2>5. a.id \in G => Free(a.id, dialogs, responses', storing)
      BY <1>3, <2>2 DEF OneAtATime, Free
    <2>6. CASE storing' = storing
      BY <2>1, <2>4, <2>6
    <2>7. CASE \E w : storing' = storing \cup {w} /\ w.id = a.id
      <3>1. PICK w : storing' = storing \cup {w} /\ w.id = a.id
        BY <2>7
      <3>2. OneAtATime(G, dialogs, responses', storing')
        BY <2>4, <2>5, <3>1 DEF OneAtATime, Free
      <3> QED BY <2>1, <3>2
    <2> QED BY <2>3, <2>6, <2>7
  <1>9. CASE ListenOrCancel
    BY <1>3, <1>9 DEF ListenOrCancel
  <1>10. ASSUME NEW w \in storing, PermissionStored(w)
         PROVE  OneAtATime(G, dialogs', responses', storing')
    <2>1. /\ w.id \in Ids /\ storing \ {w} \in SUBSET Write
          /\ ShowNextDialog(w.id, active, storing \ {w})
          /\ w.id \in G => Free(w.id, dialogs, responses, storing \ {w})
          /\ UNCHANGED responses
      BY <1>2, <1>10, StoredIsFree
    <2>2. OneAtATime(G, dialogs, responses, storing \ {w})
      BY <1>3 DEF OneAtATime
    <2>3. OneAtATime(G, dialogs', responses, storing')
      BY <1>1, <2>1, <2>2, ShowOne
    <2> QED BY <2>1, <2>3
  <1>11. CASE UNCHANGED vars
    BY <1>3, <1>11 DEF vars
  <1> QED BY <1>5, <1>6, <1>7, <1>8, <1>9, <1>10, <1>11 DEF Next

-----------------------------------------------------------------------------
(* Whatever is under way for an id is that of a call that has asked under it. *)

Asked(m, D, W, asked) ==
    /\ \A i \in Ids : m[i] # NoRequest => m[i].call \in asked[i]
    /\ \A d \in D : d.call \in asked[d.id]
    /\ \A w \in W : w.call \in asked[w.id]

LEMMA ShowAsked ==
    ASSUME TypeOK, NEW i \in Ids, NEW m \in Map, NEW s, NEW asked,
           Asked(m, dialogs, s, asked), ShowNextDialog(i, m, s)
    PROVE  Asked(active', dialogs', storing', asked)
  <1>1. m[i] # NoRequest => m[i] \in Request
    BY DEF Map
  <1>2. CASE ShowNothing(i, m, s)
    BY <1>2 DEF ShowNothing
  <1>3. CASE Complete(i, m, s)
    <2>1. active' = [m EXCEPT ![i] = NoRequest] /\ storing' = s /\ dialogs' = dialogs
      BY <1>3 DEF Complete
    <2>2. \A j \in Ids : active'[j] # NoRequest => active'[j] = m[j]
      BY <2>1 DEF Map
    <2> QED BY <2>1, <2>2 DEF Asked
  <1>4. CASE ShowDialog(i, m, s)
    <2>1. PICK d : dialogs' = dialogs \cup {d} /\ d.id = i /\ d.call = m[i].call
      BY <1>1, <1>4, DialogTyped DEF ShowDialog
    <2>2. active' = m /\ storing' = s /\ m[i] # NoRequest
      BY <1>4 DEF ShowDialog
    <2> QED BY <2>1, <2>2 DEF Asked
  <1>5. CASE DenyUnshown(i, m, s)
    <2> DEFINE p == Dialog(i, m[i]).perm
               v == SetPermission(i, m[i], p, "no")
    <2>1. /\ storing' = s \cup {v} /\ v.id = i /\ v.call = m[i].call
          /\ dialogs' = dialogs /\ m[i] # NoRequest
          /\ active' = [m EXCEPT ![i] = Answered(m[i], p, "no")]
      BY <1>5 DEF DenyUnshown, SetPermission, Map
    <2>2. m[i] \in Request /\ p \in Permissions
      BY <1>1, <1>5, DialogTyped DEF DenyUnshown, Shown
    <2> HIDE DEF p, v
    <2>3. \A j \in Ids : active'[j] # NoRequest =>
                            m[j] # NoRequest /\ active'[j].call = m[j].call
      BY <2>1, <2>2, AnsweredTyped DEF Map
    <2> QED BY <2>1, <2>3 DEF Asked
  <1> QED BY <1>2, <1>3, <1>4, <1>5 DEF ShowNextDialog

AskersKnown == /\ Asked(active, dialogs, storing, askers)
               /\ \A i \in Ids : \A c \in askers[i] : pc[c] = "called"

LEMMA AskersStep ==
    ASSUME DialogAssumption, TypeOK, AskersKnown, [Next]_vars
    PROVE  AskersKnown'
  <1> USE DEF AskersKnown
  <1>1. /\ active \in Map /\ \A d \in dialogs : d \in Shown
        /\ askers \in [Ids -> SUBSET Calls]
        /\ pc \in [Calls -> {"idle", "checking", "called"}]
    BY DEF TypeOK, Map, Shown
  <1>2. \A d \in dialogs : d.id \in Ids
    BY <1>1 DEF Shown
  <1>3. ASSUME UNCHANGED <<active, dialogs, storing, askers, pc>> PROVE AskersKnown'
    BY <1>3 DEF Asked
  <1>4. ASSUME NEW c \in Calls, Io(c) PROVE AskersKnown'
    <2>1. ASSUME NEW p \in Permissions, LookUpAnswered(c, p) PROVE AskersKnown'
      BY <1>3, <2>1 DEF LookUpAnswered, history
    <2>2. CASE NothingNeeded(c) \/ LookUp(c) \/ NothingToAsk(c)
      <3>1. /\ pc[c] # "called" /\ \E q \in {"checking", "called"} : pc' = [pc EXCEPT ![c] = q]
            /\ UNCHANGED <<active, dialogs, storing, askers>>
        BY <2>2 DEF NothingNeeded, LookUp, NothingToAsk, AllFound, history
      <3>2. \A d \in Calls : pc[d] = "called" => pc'[d] = "called"
        BY <1>1, <3>1
      <3> QED BY <1>1, <3>1, <3>2 DEF Asked
    <2>3. CASE Ask(c)
      <3>1. PICK i \in Ids :
               /\ NewRequest(c) \in Request
               /\ ShowNextDialog(i, [active EXCEPT ![i] = NewRequest(c)], storing)
               /\ askers' = [askers EXCEPT ![i] = @ \cup {c}]
        BY <2>3, AskIsFree
      <3>2. pc' = [pc EXCEPT ![c] = "called"]
        BY <2>3 DEF Ask
      <3>3. PICK asked : asked = askers' /\ asked = [askers EXCEPT ![i] = @ \cup {c}]
        BY <3>1
      <3> DEFINE m == [active EXCEPT ![i] = NewRequest(c)]
      <3>4. m \in Map /\ m[i].call = c /\ \A j \in Ids : j # i => m[j] = active[j]
        BY <1>1, <3>1 DEF Map, NewRequest
      <3>5. c \in asked[i] /\ \A j \in Ids : askers[j] \subseteq asked[j]
        BY <1>1, <3>3
      <3>6. ShowNextDialog(i, m, storing)
        BY <3>1
      <3> HIDE DEF m
      <3>7. \A w \in storing : w.id \in Ids
        BY DEF TypeOK
      <3>8. Asked(m, dialogs, storing, asked)
        BY <1>2, <3>4, <3>5, <3>7 DEF Asked
      <3>9. Asked(active', dialogs', storing', asked)
        BY <3>4, <3>6, <3>8, ShowAsked
      <3>10. \A j \in Ids : \A d \in askers'[j] : pc'[d] = "called"
        BY <1>1, <3>1, <3>2
      <3> QED BY <3>3, <3>9, <3>10
    <2> QED BY <1>4, <2>1, <2>2, <2>3 DEF Io
  <1>5. ASSUME NEW i \in Ids, GiveUp(i) PROVE AskersKnown'
    <2>1. /\ \A j \in Ids : active'[j] # NoRequest => active'[j] = active[j]
          /\ UNCHANGED <<dialogs, storing, askers, pc>>
      BY <1>1, <1>5 DEF GiveUp, Map, flow, history
    <2> QED BY <2>1 DEF Asked
  <1>6. CASE User \/ Double
    <2>1. PICK d \in dialogs, answer \in {"yes", "no"} : Grant(d, answer)
      BY <1>6, UserPosts
    <2> QED BY <2>1 DEF Grant, Asked
  <1>7. CASE HandlePermissionResponse
    <2> DEFINE a == Head(responses)
    <2>1. responses # <<>> /\ UNCHANGED <<dialogs, askers, pc>>
      BY <1>7 DEF HandlePermissionResponse, flow, history
    <2>2. a \in Posted
      <3>1. responses \in Seq(Posted)
        BY DEF TypeOK, Posted
      <3> QED BY <2>1, <3>1
    <2>3. CASE active[a.id] = NoRequest
      BY <1>3, <1>7, <2>1, <2>3 DEF HandlePermissionResponse
    <2>4. CASE active[a.id] # NoRequest
      <3> DEFINE w == SetPermission(a.id, active[a.id], a.perm, a.answer)
      <3>1. /\ active' = [active EXCEPT ![a.id] = Answered(active[a.id], a.perm, a.answer)]
            /\ storing' = storing \cup {w}
            /\ w.id = a.id /\ w.call = active[a.id].call
        BY <1>1, <1>7, <2>4 DEF HandlePermissionResponse, Map, SetPermission
      <3> HIDE DEF a, w
      <3>2. a.id \in Ids /\ a.perm \in Permissions /\ a.answer \in {"yes", "no"}
        BY <2>2 DEF Posted
      <3>3. active[a.id] \in Request
        BY <1>1, <2>4, <3>2 DEF Map
      <3>4. \A j \in Ids : active'[j] # NoRequest =>
                              active[j] # NoRequest /\ active'[j].call = active[j].call
        BY <1>1, <2>4, <3>1, <3>2, <3>3, AnsweredTyped DEF Map
      <3> QED BY <2>1, <2>4, <3>1, <3>2, <3>4 DEF Asked
    <2> QED BY <2>3, <2>4
  <1>8. CASE ListenOrCancel
    BY <1>3, <1>8 DEF ListenOrCancel, flow, history
  <1>9. ASSUME NEW w \in storing, PermissionStored(w) PROVE AskersKnown'
    <2>1. /\ w.id \in Ids /\ ShowNextDialog(w.id, active, storing \ {w})
          /\ UNCHANGED <<askers, pc>>
      BY <1>9 DEF TypeOK, PermissionStored, flow, history
    <2>2. PICK asked : asked = askers
      OBVIOUS
    <2>3. Asked(active, dialogs, storing \ {w}, asked)
      BY <2>2 DEF Asked
    <2>4. Asked(active', dialogs', storing', asked)
      BY <1>1, <2>1, <2>3, ShowAsked
    <2> QED BY <2>1, <2>2, <2>4
  <1>10. CASE UNCHANGED vars
    BY <1>3, <1>10 DEF vars, flow, history
  <1> QED BY <1>4, <1>5, <1>6, <1>7, <1>8, <1>9, <1>10 DEF Next

-----------------------------------------------------------------------------
(* What is answered and written under a clean id belongs to the application    *)
(* whose request has it; under a mixed one, to one that has asked under it.    *)

GrantedTo(c, p, g) == [app |-> AppOf[c], perm |-> p] \in g

Granted(G, m, D, R, W, asked, g) ==
    /\ \A w \in W : w.answer = "yes" =>
          \/ GrantedTo(w.call, w.perm, g)
          \/ w.id \notin G /\ \E c \in asked[w.id] : GrantedTo(c, w.perm, g)
    /\ \A d \in D : d.id \in G /\ m[d.id] # NoRequest => d.call = m[d.id].call
    /\ \A k \in 1..Len(R) : R[k].answer = "yes" =>
          /\ \E c \in asked[R[k].id] : GrantedTo(c, R[k].perm, g)
          /\ R[k].id \in G /\ m[R[k].id] # NoRequest =>
                GrantedTo(m[R[k].id].call, R[k].perm, g)

LEMMA ShowGranted ==
    ASSUME TypeOK, NEW i \in Ids, NEW m \in Map, NEW s, NEW G, NEW asked, NEW g,
           Granted(G, m, dialogs, responses, s, asked, g), ShowNextDialog(i, m, s)
    PROVE  Granted(G, active', dialogs', responses, storing', asked, g)
  <1>1. m[i] # NoRequest => m[i] \in Request
    BY DEF Map
  <1>2. /\ \A d \in dialogs : d.id \in Ids
        /\ \A k \in 1..Len(responses) : responses[k].id \in Ids
    <2>1. responses \in Seq(Posted) /\ \A d \in dialogs : d \in Shown
      BY DEF TypeOK, Posted, Shown
    <2>2. \A k \in 1..Len(responses) : responses[k] \in Posted
      BY <2>1
    <2> QED BY <2>1, <2>2 DEF Posted, Shown
  <1>3. CASE ShowNothing(i, m, s)
    BY <1>3 DEF ShowNothing
  <1>4. CASE Complete(i, m, s)
    <2>1. active' = [m EXCEPT ![i] = NoRequest] /\ storing' = s /\ dialogs' = dialogs
      BY <1>4 DEF Complete
    <2>2. \A j \in Ids : active'[j] # NoRequest => active'[j] = m[j]
      BY <2>1 DEF Map
    <2> QED BY <1>2, <2>1, <2>2 DEF Granted
  <1>5. CASE ShowDialog(i, m, s)
    <2>1. PICK d : dialogs' = dialogs \cup {d} /\ d.id = i /\ d.call = m[i].call
      BY <1>1, <1>5, DialogTyped DEF ShowDialog
    <2>2. active' = m /\ storing' = s
      BY <1>5 DEF ShowDialog
    <2> QED BY <2>1, <2>2 DEF Granted
  <1>6. CASE DenyUnshown(i, m, s)
    <2> DEFINE p == Dialog(i, m[i]).perm
    <2>1. /\ storing' = s \cup {SetPermission(i, m[i], p, "no")}
          /\ SetPermission(i, m[i], p, "no").answer = "no"
          /\ dialogs' = dialogs /\ m[i] # NoRequest
          /\ active' = [m EXCEPT ![i] = Answered(m[i], p, "no")]
      BY <1>6 DEF DenyUnshown, SetPermission, Map
    <2>2. m[i] \in Request /\ p \in Permissions
      BY <1>1, <1>6, DialogTyped DEF DenyUnshown, Shown
    <2> HIDE DEF p
    <2>3. \A j \in Ids : active'[j] # NoRequest =>
                            m[j] # NoRequest /\ active'[j].call = m[j].call
      BY <2>1, <2>2, AnsweredTyped DEF Map
    <2>4. \A w \in storing' : w \in s \/ w.answer = "no"
      BY <2>1
    <2> QED BY <1>2, <2>1, <2>3, <2>4 DEF Granted
  <1> QED BY <1>3, <1>4, <1>5, <1>6 DEF ShowNextDialog

SharedBy(A, g) ==
    {[app |-> AppOf[c], perm |-> x.perm] :
        c \in A, x \in {h \in g : \E d \in A : AppOf[d] = h.app}}

LEMMA SharedByGrows ==
    ASSUME NEW A, NEW g, NEW B, NEW h, A \subseteq B, g \subseteq h
    PROVE  SharedBy(A, g) \subseteq SharedBy(B, h)
  BY DEF SharedBy

\* What counts as granted does so for good.
LEMMA ClaimedGrows ==
    ASSUME DialogAssumption, TypeOK, [Next]_vars
    PROVE  Claimed \subseteq Claimed'
  <1>1. /\ \A i \in Ids : askers[i] \subseteq askers'[i]
        /\ mixed \subseteq mixed' /\ granted \subseteq granted' /\ mixed \subseteq Ids
    BY HistoryGrows DEF TypeOK
  <1>2. ASSUME NEW i \in mixed PROVE Shared(i) \subseteq Shared(i)'
    <2>1. /\ Shared(i) = SharedBy(askers[i], granted)
          /\ Shared(i)' = SharedBy(askers'[i], granted')
      BY DEF Shared, SharedBy
    <2>2. PICK A, g, B, h : /\ A = askers[i] /\ g = granted /\ A \subseteq B /\ g \subseteq h
                            /\ B = askers'[i] /\ h = granted'
      BY <1>1
    <2>3. SharedBy(A, g) \subseteq SharedBy(B, h)
      BY <2>2, SharedByGrows
    <2> QED BY <2>1, <2>2, <2>3
  <1> QED BY <1>1, <1>2 DEF Claimed

LEMMA ClaimedStays ==
    ASSUME TypeOK, mixed' = mixed, granted' = granted, NEW i \in Ids, i \notin mixed,
           \A j \in Ids : j # i => askers'[j] = askers[j]
    PROVE  Claimed' = Claimed /\ Confused' = Confused
  <1>1. \A j \in mixed : j \in Ids /\ j # i
    BY DEF TypeOK
  <1>2. ASSUME NEW j \in mixed PROVE Shared(j)' = Shared(j) /\ askers'[j] = askers[j]
    <2>1. askers'[j] = askers[j] /\ granted' = granted
      BY <1>1
    <2>2. /\ Shared(j) = SharedBy(askers[j], granted)
          /\ Shared(j)' = SharedBy(askers'[j], granted')
      BY DEF Shared, SharedBy
    <2> QED BY <2>1, <2>2
  <1> QED BY <1>2 DEF Claimed, Confused

\* What one has been granted counts for those who asked under the same mixed id.
LEMMA SharedIsClaimed ==
    ASSUME TypeOK, DialogAssumption, NEW i \in mixed, NEW c \in askers[i],
           NEW d \in askers[i], NEW p, GrantedTo(d, p, granted)
    PROVE  [app |-> AppOf[c], perm |-> p] \in Claimed
  <1>1. PICK h \in granted : h = [app |-> AppOf[d], perm |-> p]
    BY DEF GrantedTo
  <1>2. h.app = AppOf[d] /\ h.perm = p
    BY <1>1
  <1>3. [app |-> AppOf[c], perm |-> h.perm] \in Shared(i)
    <2> DEFINE T == {e \in granted : \E b \in askers[i] : AppOf[b] = e.app}
               F(b, e) == [app |-> AppOf[b], perm |-> e.perm]
    <2>1. h \in T
      BY <1>2
    <2>2. Shared(i) = {F(b, e) : b \in askers[i], e \in T}
      BY DEF Shared
    <2>3. F(c, h) \in {F(b, e) : b \in askers[i], e \in T}
      <3> HIDE DEF T, F
      <3> QED BY <2>1
    <2>4. F(c, h) = [app |-> AppOf[c], perm |-> h.perm]
      OBVIOUS
    <2> HIDE DEF T, F
    <2> QED BY <2>2, <2>3, <2>4
  <1> QED BY <1>2, <1>3 DEF Claimed

Allowed == /\ Granted(Clean, active, dialogs, responses, storing, askers, granted)
           /\ GrantsAreUsers

LEMMA AllowedStep ==
    ASSUME DialogAssumption, TypeOK, Sequenced, AskersKnown, Allowed, [Next]_vars
    PROVE  Allowed'
  <1>1. /\ active \in Map /\ storing \in SUBSET Write /\ responses \in Seq(Posted)
        /\ \A d \in dialogs : d \in Shown
    BY DEF TypeOK, Map, Write, Posted, Shown
  <1>2. \A k \in 1..Len(responses) : responses[k] \in Posted
    BY <1>1
  <1>3. PICK G : G = Clean' /\ G \subseteq Clean
    BY CleanShrinks
  <1>4. PICK asked : asked = askers' /\ \A i \in Ids : askers[i] \subseteq asked[i]
    BY HistoryGrows
  <1>5. PICK g : g = granted' /\ granted \subseteq g
    BY HistoryGrows
  <1>6. Granted(G, active, dialogs, responses, storing, asked, g)
    <2>1. \A w \in storing : w.id \in Ids
      BY <1>1 DEF Write
    <2>2. \A k \in 1..Len(responses) : responses[k].id \in Ids
      BY <1>2 DEF Posted
    <2>3. ASSUME NEW c, NEW p, GrantedTo(c, p, granted) PROVE GrantedTo(c, p, g)
      BY <1>5, <2>3 DEF GrantedTo
    <2>4. \A w \in storing : w.answer = "yes" =>
             \/ GrantedTo(w.call, w.perm, g)
             \/ w.id \notin G /\ \E c \in asked[w.id] : GrantedTo(c, w.perm, g)
      BY <1>3, <1>4, <2>1, <2>3 DEF Allowed, Granted
    <2>5. \A k \in 1..Len(responses) : responses[k].answer = "yes" =>
             /\ \E c \in asked[responses[k].id] : GrantedTo(c, responses[k].perm, g)
             /\ responses[k].id \in G /\ active[responses[k].id] # NoRequest =>
                   GrantedTo(active[responses[k].id].call, responses[k].perm, g)
      BY <1>3, <1>4, <2>2, <2>3 DEF Allowed, Granted
    <2>6. \A d \in dialogs : d.id \in G /\ active[d.id] # NoRequest =>
                                d.call = active[d.id].call
      BY <1>3 DEF Allowed, Granted
    <2> QED BY <2>4, <2>5, <2>6 DEF Granted
  <1>7. ASSUME UNCHANGED store PROVE GrantsAreUsers'
    BY <1>7, ClaimedGrows DEF Allowed, GrantsAreUsers
  <1>8. SUFFICES Granted(G, active', dialogs', responses', storing', asked, g)
                 /\ (UNCHANGED store \/ GrantsAreUsers')
    BY <1>3, <1>4, <1>5, <1>7 DEF Allowed
  <1> DEFINE Goal == Granted(G, active', dialogs', responses', storing', asked, g)
                     /\ (UNCHANGED store \/ GrantsAreUsers')
  <1>9. ASSUME UNCHANGED <<active, dialogs, responses, storing, store>> PROVE Goal
    BY <1>6, <1>9
  <1>10. ASSUME NEW c \in Calls, Io(c) PROVE Goal
    <2>1. ASSUME NEW p \in Permissions, LookUpAnswered(c, p) PROVE Goal
      BY <1>9, <2>1 DEF LookUpAnswered
    <2>2. CASE NothingNeeded(c) \/ LookUp(c) \/ NothingToAsk(c)
      BY <1>9, <2>2 DEF NothingNeeded, LookUp, NothingToAsk
    <2>3. CASE Ask(c)
      <3>1. UNCHANGED <<responses, store>>
        BY <2>3 DEF Ask
      <3>2. PICK i \in Ids :
               /\ NewRequest(c) \in Request
               /\ ShowNextDialog(i, [active EXCEPT ![i] = NewRequest(c)], storing)
               /\ i \notin mixed' => Free(i, dialogs, responses, storing)
        BY <2>3, AskIsFree DEF Free
      <3> DEFINE m == [active EXCEPT ![i] = NewRequest(c)]
      <3>3. m \in Map /\ \A j \in Ids : j # i => m[j] = active[j]
        BY <1>1, <3>2 DEF Map
      <3>4. i \in G => Free(i, dialogs, responses, storing)
        BY <1>3, <3>2 DEF Clean
      <3>5. ShowNextDialog(i, m, storing)
        BY <3>2
      <3> HIDE DEF m
      <3>6. Granted(G, m, dialogs, responses, storing, asked, g)
        BY <1>1, <1>2, <1>6, <3>3, <3>4 DEF Granted, Free, Shown, Posted
      <3>7. Granted(G, active', dialogs', responses, storing', asked, g)
        BY <3>3, <3>5, <3>6, ShowGranted
      <3> QED BY <3>1, <3>7
    <2> HIDE DEF Goal
    <2> QED BY <1>10, <2>1, <2>2, <2>3 DEF Io
  <1>11. ASSUME NEW i \in Ids, GiveUp(i) PROVE Goal
    <2>1. /\ UNCHANGED <<dialogs, responses, storing, store>>
          /\ \A j \in Ids : active'[j] # NoRequest => active'[j] = active[j]
      BY <1>1, <1>11 DEF GiveUp, Map
    <2>2. \A k \in 1..Len(responses) : responses[k].id \in Ids
      BY <1>2 DEF Posted
    <2> QED BY <1>1, <1>6, <2>1, <2>2 DEF Granted, Shown
  <1>12. CASE User \/ Double
    <2>1. PICK d \in dialogs, answer \in {"yes", "no"} :
             /\ Grant(d, answer) /\ d \in Shown
             /\ \A k \in 1..Len(responses) : responses'[k] = responses[k]
             /\ \A k \in 1..Len(responses') :
                   k \in 1..Len(responses) \/ responses'[k] = Response(d, answer)
      BY <1>12, UserPosts
    <2> DEFINE a == Response(d, answer)
    <2>2. dialogs' = dialogs \ {d} /\ UNCHANGED <<active, storing, store>>
      BY <2>1 DEF Grant
    <2>3. answer = "yes" => GrantedTo(d.call, d.perm, g)
      BY <1>5, <2>1 DEF Grant, GrantedTo
    <2>4. a.id = d.id /\ a.perm = d.perm /\ a.answer = answer /\ d.id \in Ids
      BY <2>1 DEF Response, Shown
    <2>5. d.call \in asked[d.id]
      BY <1>4, <2>4 DEF AskersKnown, Asked
    <2>6. \A k \in 1..Len(responses') :
             \/ k \in 1..Len(responses) /\ responses'[k] = responses[k]
             \/ responses'[k] = a
      BY <2>1
    <2> HIDE DEF a
    <2>7. d.id \in G /\ active[d.id] # NoRequest => d.call = active[d.id].call
      BY <1>6 DEF Granted
    <2>8. Granted(G, active, dialogs', responses', storing, asked, g)
      BY <1>6, <2>2, <2>3, <2>4, <2>5, <2>6, <2>7 DEF Granted
    <2> QED BY <2>2, <2>8
  <1>13. CASE HandlePermissionResponse
    <2> DEFINE a == Head(responses)
    <2>1. /\ responses # <<>> /\ responses' = Tail(responses)
          /\ UNCHANGED <<dialogs, store>>
      BY <1>13 DEF HandlePermissionResponse, flow
    <2>2. /\ a = responses[1] /\ 1 \in 1..Len(responses) /\ a \in Posted
          /\ \A k \in 1..Len(responses') :
                responses'[k] = responses[k + 1] /\ k + 1 \in 1..Len(responses)
      BY <1>1, <2>1
    <2>3. Granted(G, active, dialogs, responses', storing, asked, g)
      BY <1>6, <2>2 DEF Granted
    <2>4. CASE active[a.id] = NoRequest
      <3>1. UNCHANGED <<active, storing>>
        BY <1>13, <2>4 DEF HandlePermissionResponse
      <3> QED BY <2>1, <2>3, <3>1
    <2>5. CASE active[a.id] # NoRequest
      <3> DEFINE w == SetPermission(a.id, active[a.id], a.perm, a.answer)
      <3>1. /\ active' = [active EXCEPT ![a.id] = Answered(active[a.id], a.perm, a.answer)]
            /\ storing' = storing \cup {w}
        BY <1>1, <1>13, <2>5 DEF HandlePermissionResponse, Map
      <3>2. /\ w.answer = a.answer /\ w.perm = a.perm /\ w.id = a.id
            /\ w.call = active[a.id].call
        BY DEF SetPermission
      <3> HIDE DEF w, a
      <3>3. w.answer = "yes" =>
               \/ GrantedTo(w.call, w.perm, g)
               \/ w.id \notin G /\ \E c \in asked[w.id] : GrantedTo(c, w.perm, g)
        BY <1>6, <2>2, <2>5, <3>2 DEF Granted
      <3>4. active[a.id] \in Request /\ a.perm \in Permissions /\ a.answer \in {"yes", "no"}
            /\ a.id \in Ids
        BY <1>1, <2>2, <2>5 DEF Map, Posted
      <3>5. \A j \in Ids : active'[j] # NoRequest =>
                              active[j] # NoRequest /\ active'[j].call = active[j].call
        BY <1>1, <2>5, <3>1, <3>4, AnsweredTyped DEF Map
      <3>6. \A k \in 1..Len(responses') : responses'[k].id \in Ids
        BY <1>2, <2>2 DEF Posted
      <3>7. Granted(G, active', dialogs, responses', storing', asked, g)
        BY <1>1, <2>3, <3>1, <3>3, <3>5, <3>6 DEF Granted, Shown
      <3> QED BY <2>1, <3>7
    <2> QED BY <2>4, <2>5
  <1>14. CASE ListenOrCancel
    BY <1>9, <1>14 DEF ListenOrCancel
  <1>15. ASSUME NEW w \in storing, PermissionStored(w) PROVE Goal
    <2>1. /\ w.id \in Ids /\ w.call \in Calls /\ ShowNextDialog(w.id, active, storing \ {w})
          /\ UNCHANGED <<askers, mixed, responses, granted>>
      BY <1>15, StoredIsFree
    <2>2. Granted(G, active, dialogs, responses, storing \ {w}, asked, g)
      BY <1>6 DEF Granted
    <2>3. Granted(G, active', dialogs', responses, storing', asked, g)
      BY <1>1, <2>1, <2>2, ShowGranted
    <2>4. UNCHANGED store \/ GrantsAreUsers'
      <3>1. CASE store' = [store EXCEPT ![AppOf[w.call]][w.perm] = w.answer]
        <4>1. w.answer = "yes" => [app |-> AppOf[w.call], perm |-> w.perm] \in Claimed
          <5>1. CASE w.answer = "yes" /\ GrantedTo(w.call, w.perm, granted)
            BY <5>1 DEF GrantedTo, Claimed
          <5>2. CASE w.id \in mixed /\ \E c \in askers[w.id] : GrantedTo(c, w.perm, granted)
            <6>1. w.call \in askers[w.id]
              BY DEF AskersKnown, Asked
            <6> QED BY <5>2, <6>1, SharedIsClaimed
          <5> QED BY <2>1, <5>1, <5>2 DEF Allowed, Granted, Clean
        <4>2. \A b \in AppIds, p \in Permissions :
                 store'[b][p] = IF b = AppOf[w.call] /\ p = w.perm THEN w.answer
                                                                   ELSE store[b][p]
          BY <2>1, <3>1 DEF TypeOK, Results, DialogAssumption
        <4>3. Claimed \subseteq Claimed'
          BY ClaimedGrows
        <4>4. GrantsAreUsers'
          BY <4>1, <4>2, <4>3 DEF Allowed, GrantsAreUsers
        <4> QED BY <4>4
      <3> QED BY <1>15, <3>1 DEF PermissionStored
    <2> QED BY <2>1, <2>3, <2>4
  <1>16. CASE UNCHANGED vars
    BY <1>9, <1>16 DEF vars
  <1> HIDE DEF Goal
  <1>17. CASE Next
    BY <1>10, <1>11, <1>12, <1>13, <1>14, <1>15, <1>17 DEF Next, Goal
  <1>18. Goal
    BY <1>16, <1>17 DEF Goal
  <1> QED BY <1>18 DEF Goal
-----------------------------------------------------------------------------
(* Under a clean id every permission a request's application needs is decided *)
(* or still ahead in the request, and what the request waits for is the next  *)
(* of those.                                                                  *)

Awaited(m, a) ==
    m[a.id] # NoRequest =>
        /\ m[a.id].index < Len(m[a.id].requests)
        /\ a.perm = m[a.id].requests[m[a.id].index + 1]

DecidedOrAhead(r) ==
    \A p \in Needed(r.call) :
        \/ r.result[p] # "none"
        \/ \E k \in (r.index + 1)..Len(r.requests) : r.requests[k] = p

InOrder(G, m, D, R) ==
    /\ \A d \in D : d.id \in G => Awaited(m, d)
    /\ \A k \in 1..Len(R) : R[k].id \in G => Awaited(m, R[k])
    /\ \A i \in Ids : i \in G /\ m[i] # NoRequest => DecidedOrAhead(m[i])

LEMMA NeededTyped ==
    ASSUME DialogAssumption, NEW c \in Calls
    PROVE  Needed(c) \subseteq Permissions
  <1>1. Needs[AppOf[c]] \in Seq(Permissions)
    BY DEF DialogAssumption
  <1> QED BY <1>1 DEF Needed, Range

LEMMA AnswerDecides ==
    ASSUME DialogAssumption, NEW r \in Request, DecidedOrAhead(r),
           r.index < Len(r.requests), NEW answer \in {"yes", "no"}
    PROVE  DecidedOrAhead(Answered(r, r.requests[r.index + 1], answer))
  <1> DEFINE q == r.requests[r.index + 1]
             new == Answered(r, q, answer)
  <1>1. r.call \in Calls /\ r.requests \in Seq(Permissions) /\ r.index \in Nat
    BY DEF Request
  <1>2. q \in Permissions
    BY <1>1
  <1> HIDE DEF q
  <1>3. /\ new.call = r.call /\ new.requests = r.requests /\ new.index = r.index + 1
        /\ new.result[q] = answer
        /\ \A p \in Permissions : p # q => new.result[p] = r.result[p]
    <2>1. /\ new.call = r.call /\ new.requests = r.requests /\ new.index = r.index + 1
          /\ new.result = [r.result EXCEPT ![q] = answer]
      <3>1. new = [call |-> r.call, requests |-> r.requests,
                   result |-> [r.result EXCEPT ![q] = answer], index |-> r.index + 1]
        BY <1>2, AnsweredFields
      <3> HIDE DEF new
      <3> QED BY <3>1
    <2>2. r.result \in Results
      BY DEF Request
    <2> HIDE DEF new
    <2> QED BY <1>2, <2>1, <2>2 DEF Results
  <1> HIDE DEF new
  <1>4. Needed(r.call) \subseteq Permissions
    BY <1>1, NeededTyped
  <1>5. ASSUME NEW p \in Needed(r.call), p # q, r.result[p] = "none"
        PROVE  \E k \in (new.index + 1)..Len(r.requests) : r.requests[k] = p
    <2>1. PICK k \in (r.index + 1)..Len(r.requests) : r.requests[k] = p
      BY <1>5 DEF DecidedOrAhead
    <2>2. k # r.index + 1
      BY <1>5, <2>1 DEF q
    <2>3. Len(r.requests) \in Nat
      BY <1>1
    <2>4. k \in (new.index + 1)..Len(r.requests)
      BY <1>1, <1>3, <2>1, <2>2, <2>3
    <2> QED BY <2>1, <2>4
  <1>6. ASSUME NEW p \in Needed(new.call)
        PROVE  \/ new.result[p] # "none"
               \/ \E k \in (new.index + 1)..Len(new.requests) : new.requests[k] = p
    <2>1. p \in Needed(r.call) /\ p \in Permissions
      BY <1>3, <1>4, <1>6
    <2>2. CASE p = q
      BY <1>3, <2>2
    <2>3. CASE p # q
      BY <1>3, <1>5, <2>1, <2>3
    <2> QED BY <2>2, <2>3
  <1>7. DecidedOrAhead(new)
    BY <1>6 DEF DecidedOrAhead
  <1> QED BY <1>7 DEF new, q

\* What has been processed is decided.
LEMMA ProcessedDecided ==
    ASSUME NEW r \in Request, DecidedOrAhead(r), AllProcessed(r), NEW p \in Needed(r.call)
    PROVE  r.result[p] # "none"
  BY DEF DecidedOrAhead, AllProcessed, Request

\* The decision for one request leaves what others wait for alone.
LEMMA AnswerKeepsOrder ==
    ASSUME DialogAssumption, NEW m \in Map, NEW i \in Ids, m[i] # NoRequest,
           NEW p \in Permissions, NEW answer \in {"yes", "no"}, NEW D, NEW R, NEW G,
           i \in G => /\ m[i].index < Len(m[i].requests)
                      /\ p = m[i].requests[m[i].index + 1]
                      /\ \A d \in D : d.id # i
                      /\ \A k \in 1..Len(R) : R[k].id # i,
           \A d \in D : d.id \in Ids, \A k \in 1..Len(R) : R[k].id \in Ids,
           InOrder(G, m, D, R), NEW n,
           n = [m EXCEPT ![i] = Answered(m[i], p, answer)]
    PROVE  InOrder(G, n, D, R)
  <1>1. m[i] \in Request
    BY DEF Map
  <1>2. \A j \in Ids : j # i => n[j] = m[j]
    BY DEF Map
  <1>3. n[i] = Answered(m[i], p, answer)
    BY DEF Map
  <1>4. i \in G => DecidedOrAhead(n[i])
    BY <1>1, <1>3, AnswerDecides DEF InOrder
  <1>5. \A j \in Ids : j \in G /\ n[j] # NoRequest => DecidedOrAhead(n[j])
    BY <1>2, <1>4 DEF InOrder
  <1>6. /\ \A d \in D : d.id \in G => Awaited(n, d)
        /\ \A k \in 1..Len(R) : R[k].id \in G => Awaited(n, R[k])
    BY <1>2 DEF InOrder, Awaited
  <1> QED BY <1>5, <1>6 DEF InOrder

\* So does the end of a request.
LEMMA EndKeepsOrder ==
    ASSUME NEW m \in Map, NEW i \in Ids, NEW D, NEW R, NEW G,
           \A d \in D : d.id \in Ids, \A k \in 1..Len(R) : R[k].id \in Ids,
           InOrder(G, m, D, R)
    PROVE  InOrder(G, [m EXCEPT ![i] = NoRequest], D, R)
  <1> DEFINE n == [m EXCEPT ![i] = NoRequest]
  <1>1. \A j \in Ids : n[j] # NoRequest => n[j] = m[j]
    BY DEF Map
  <1> HIDE DEF n
  <1>2. InOrder(G, n, D, R)
    BY <1>1 DEF InOrder, Awaited
  <1> QED BY <1>2 DEF n

LEMMA PendingTyped ==
    ASSUME TypeOK
    PROVE  /\ \A d \in dialogs : d.id \in Ids
           /\ \A k \in 1..Len(responses) : responses[k].id \in Ids /\ responses[k] \in Posted
  <1>1. responses \in Seq(Posted) /\ \A d \in dialogs : d \in Shown
    BY DEF TypeOK, Posted, Shown
  <1>2. \A k \in 1..Len(responses) : responses[k] \in Posted
    BY <1>1
  <1> QED BY <1>1, <1>2 DEF Posted, Shown

\* A callback gets one more map, with every decision or with none, unless it is
\* a confused one.
LEMMA CalledBack ==
    ASSUME TypeOK, ProcessedMeansDecided, Confused \subseteq Confused',
           NEW c \in Calls, NEW r,
           c \notin Confused' /\ r # NoResults => \A p \in Needed(c) : r[p] # "none",
           outcome' = [outcome EXCEPT ![c] = Append(@, r)]
    PROVE  ProcessedMeansDecided'
  <1>1. outcome \in [Calls -> Seq(Results)]
    BY DEF TypeOK
  <1> SUFFICES ASSUME NEW d \in Calls, d \notin Confused', NEW k \in 1..Len(outcome'[d]),
                      outcome'[d][k] # NoResults
               PROVE  \A p \in Needed(d) : outcome'[d][k][p] # "none"
    BY DEF ProcessedMeansDecided
  <1>2. d \in Calls \ Confused
    OBVIOUS
  <1>3. CASE d # c
    <2>1. outcome'[d] = outcome[d]
      BY <1>1, <1>3
    <2> QED BY <1>2, <2>1 DEF ProcessedMeansDecided
  <1>4. CASE d = c
    <2>1. outcome'[d] = Append(outcome[d], r) /\ outcome[d] \in Seq(Results)
      BY <1>1, <1>4
    <2>2. \/ k \in 1..Len(outcome[d]) /\ outcome'[d][k] = outcome[d][k]
          \/ outcome'[d][k] = r
      BY <2>1
    <2> QED BY <1>2, <1>4, <2>2 DEF ProcessedMeansDecided
  <1> QED BY <1>3, <1>4

LEMMA ShowInOrder ==
    ASSUME DialogAssumption, TypeOK, Confused \subseteq Confused', NEW G,
           NEW i \in Ids, NEW m \in Map, NEW s,
           i \in G => Free(i, dialogs, responses, s),
           m[i] # NoRequest /\ i \notin G => m[i].call \in Confused',
           InOrder(G, m, dialogs, responses),
           ProcessedMeansDecided, ShowNextDialog(i, m, s)
    PROVE  InOrder(G, active', dialogs', responses) /\ ProcessedMeansDecided'
  <1>1. m[i] # NoRequest => m[i] \in Request
    BY DEF Map
  <1>2. ~Complete(i, m, s) => UNCHANGED outcome
    BY DEF ShowNextDialog, ShowNothing, ShowDialog, DenyUnshown
  <1>3. ~Complete(i, m, s) => ProcessedMeansDecided'
    <2> SUFFICES ASSUME UNCHANGED outcome PROVE ProcessedMeansDecided'
      BY <1>2
    <2>1. \A c \in Calls : c \in Calls \ Confused' => c \in Calls \ Confused
      OBVIOUS
    <2> QED BY <2>1 DEF ProcessedMeansDecided
  <1>4. CASE ShowNothing(i, m, s)
    <2>1. ~Complete(i, m, s)
      BY <1>4 DEF ShowNothing, Complete
    <2> QED BY <1>3, <1>4, <2>1 DEF ShowNothing
  <1>5. CASE Complete(i, m, s)
    <2>1. /\ active' = [m EXCEPT ![i] = NoRequest] /\ dialogs' = dialogs
          /\ AllProcessed(m[i]) /\ m[i] # NoRequest
          /\ outcome' = [outcome EXCEPT ![m[i].call] = Append(@, m[i].result)]
      BY <1>5 DEF Complete
    <2>2. m[i] \in Request /\ m[i].call \in Calls
      BY <1>1, <2>1 DEF Request
    <2>3. i \in G => \A p \in Needed(m[i].call) : m[i].result[p] # "none"
      BY <2>1, <2>2, ProcessedDecided DEF InOrder
    <2>4. ProcessedMeansDecided'
      BY <2>1, <2>2, <2>3, CalledBack
    <2>5. InOrder(G, active', dialogs', responses)
      BY <2>1, PendingTyped, EndKeepsOrder
    <2> QED BY <2>4, <2>5
  <1>6. CASE ShowDialog(i, m, s)
    <2>1. ~Complete(i, m, s)
      BY <1>6 DEF ShowDialog, Complete
    <2>2. /\ dialogs' = dialogs \cup {Dialog(i, m[i])} /\ active' = m
          /\ m[i] # NoRequest /\ ~AllProcessed(m[i])
      BY <1>6 DEF ShowDialog
    <2>3. Awaited(m, Dialog(i, m[i]))
      BY <1>1, <2>2, DialogTyped DEF Awaited, AllProcessed, Request
    <2> QED BY <1>3, <2>1, <2>2, <2>3 DEF InOrder
  <1>7. CASE DenyUnshown(i, m, s)
    <2>1. ~Complete(i, m, s)
      BY <1>7 DEF DenyUnshown, Complete
    <2>2. /\ active' = [m EXCEPT ![i] = Answered(m[i], Dialog(i, m[i]).perm, "no")]
          /\ dialogs' = dialogs /\ m[i] # NoRequest /\ ~AllProcessed(m[i])
      BY <1>7 DEF DenyUnshown, Map
    <2>3. m[i].index < Len(m[i].requests)
      BY <1>1, <2>2 DEF AllProcessed, Request
    <2>4. Dialog(i, m[i]).perm = m[i].requests[m[i].index + 1]
      BY DEF Dialog
    <2>5. Dialog(i, m[i]).perm \in Permissions
      BY <1>1, <2>2, DialogTyped DEF Shown
    <2>6. InOrder(G, active', dialogs, responses)
      BY <2>2, <2>3, <2>4, <2>5, PendingTyped, AnswerKeepsOrder DEF Free
    <2> QED BY <1>3, <2>1, <2>2, <2>6
  <1> QED BY <1>4, <1>5, <1>6, <1>7 DEF ShowNextDialog

Ordered == InOrder(Clean, active, dialogs, responses) /\ ProcessedMeansDecided

LEMMA OrderedStep ==
    ASSUME DialogAssumption, TypeOK, Sequenced, AskersKnown, Ordered, [Next]_vars
    PROVE  Ordered'
  <1> USE DEF Ordered
  <1>1. active \in Map /\ responses \in Seq(Posted)
    BY DEF TypeOK, Map, Posted
  <1>2. PICK G : G = Clean' /\ G \subseteq Clean
    BY CleanShrinks
  <1>3. Confused \subseteq Confused'
    BY CleanShrinks
  <1>4. InOrder(G, active, dialogs, responses)
    BY <1>2 DEF InOrder
  <1>5. ASSUME NEW i \in Ids, i \notin G, NEW c \in askers'[i] PROVE c \in Confused'
    BY <1>2, <1>5 DEF Clean, Confused
  <1>6. \A i \in Ids : i \notin G /\ active[i] # NoRequest => active[i].call \in Confused'
    BY <1>5, HistoryGrows DEF AskersKnown, Asked
  <1> DEFINE Goal == InOrder(G, active', dialogs', responses') /\ ProcessedMeansDecided'
  <1>7. SUFFICES Goal
    BY <1>2
  <1>8. ASSUME UNCHANGED outcome PROVE ProcessedMeansDecided'
    <2>1. \A c \in Calls : c \in Calls \ Confused' => c \in Calls \ Confused
      BY <1>3
    <2> QED BY <1>8, <2>1 DEF ProcessedMeansDecided
  <1>9. ASSUME UNCHANGED <<active, dialogs, responses, outcome>> PROVE Goal
    BY <1>4, <1>8, <1>9
  <1>10. ASSUME NEW c \in Calls, Io(c) PROVE Goal
    <2>1. CASE \E p \in Permissions : LookUpAnswered(c, p)
      BY <1>9, <2>1 DEF LookUpAnswered
    <2>2. CASE LookUp(c)
      BY <1>9, <2>2 DEF LookUp
    <2>3. CASE NothingNeeded(c)
      <3>1. /\ outcome' = [outcome EXCEPT ![c] = Append(@, NoResults)]
            /\ UNCHANGED <<active, dialogs, responses>>
        BY <2>3 DEF NothingNeeded
      <3>2. ProcessedMeansDecided'
        BY <1>3, <3>1, CalledBack
      <3> QED BY <1>4, <3>1, <3>2
    <2>4. CASE NothingToAsk(c)
      <3>1. /\ outcome' = [outcome EXCEPT ![c] = Append(@, Known(c))]
            /\ UNCHANGED <<active, dialogs, responses>>
            /\ AllFound(c) /\ ToAsk(c) = <<>>
        BY <2>4 DEF NothingToAsk
      <3>2. \A p \in Needed(c) : found[c][p] # "none"
        BY <3>1, AsksForTheUndecided
      <3>3. \A p \in Needed(c) : Known(c)[p] # "none"
        BY <3>2, NeededTyped DEF Known
      <3>4. ProcessedMeansDecided'
        BY <1>3, <3>1, <3>3, CalledBack
      <3> QED BY <1>4, <3>1, <3>4
    <2>5. CASE Ask(c)
      <3> DEFINE r == NewRequest(c)
      <3>1. AllFound(c) /\ UNCHANGED responses
        BY <2>5 DEF Ask
      <3>2. DecidedOrAhead(r)
        <4>1. \A p \in Needed(c) :
                 Known(c)[p] # "none" \/ \E k \in 1..Len(ToAsk(c)) : ToAsk(c)[k] = p
          BY <3>1, NeededTyped, AsksForTheUndecided DEF Known
        <4>2. r.call = c /\ r.result = Known(c) /\ r.index + 1 = 1 /\ r.requests = ToAsk(c)
          BY DEF NewRequest
        <4> HIDE DEF r
        <4> QED BY <4>1, <4>2 DEF DecidedOrAhead
      <3>3. PICK i \in Ids :
               /\ r \in Request
               /\ ShowNextDialog(i, [active EXCEPT ![i] = r], storing)
               /\ askers' = [askers EXCEPT ![i] = @ \cup {c}]
               /\ i \notin mixed' => Free(i, dialogs, responses, storing)
        BY <2>5, AskIsFree DEF Free
      <3>4. r.call = c /\ c \in askers'[i]
        BY <3>3 DEF NewRequest, TypeOK
      <3> HIDE DEF r
      <3> DEFINE m == [active EXCEPT ![i] = r]
      <3>5. m \in Map /\ m[i] = r /\ \A j \in Ids : j # i => m[j] = active[j]
        BY <1>1, <3>3 DEF Map
      <3>6. i \in G => Free(i, dialogs, responses, storing)
        BY <1>2, <3>3 DEF Clean
      <3>7. ShowNextDialog(i, m, storing)
        BY <3>3
      <3> HIDE DEF m
      <3>8. InOrder(G, m, dialogs, responses)
        BY <1>4, <3>2, <3>5, <3>6, PendingTyped DEF InOrder, Awaited, Free
      <3>9. m[i] # NoRequest /\ i \notin G => m[i].call \in Confused'
        BY <1>5, <3>4, <3>5
      <3>10. InOrder(G, active', dialogs', responses) /\ ProcessedMeansDecided'
        BY <1>3, <3>5, <3>6, <3>7, <3>8, <3>9, ShowInOrder
      <3> QED BY <3>1, <3>10
    <2> QED BY <1>10, <2>1, <2>2, <2>3, <2>4, <2>5 DEF Io
  <1>11. ASSUME NEW i \in Ids, GiveUp(i) PROVE Goal
    <2>1. active' = [active EXCEPT ![i] = NoRequest] /\ UNCHANGED <<dialogs, responses>>
      BY <1>11 DEF GiveUp
    <2>2. InOrder(G, active', dialogs', responses')
      BY <1>1, <1>4, <2>1, PendingTyped, EndKeepsOrder
    <2>3. CASE active[i] = NoRequest
      BY <1>8, <1>11, <2>2, <2>3 DEF GiveUp
    <2>4. CASE active[i] # NoRequest
      <3>1. active[i].call \in Calls
        BY <1>1, <2>4 DEF Map, Request
      <3>2. outcome' = [outcome EXCEPT ![active[i].call] = Append(@, NoResults)]
        BY <1>11, <2>4 DEF GiveUp
      <3>3. ProcessedMeansDecided'
        BY <1>3, <3>1, <3>2, CalledBack
      <3> QED BY <2>2, <3>3
    <2> QED BY <2>3, <2>4
  <1>12. ASSUME User \/ Double PROVE Goal
    <2>1. PICK d \in dialogs, answer \in {"yes", "no"} :
             /\ Grant(d, answer)
             /\ \A k \in 1..Len(responses) : responses'[k] = responses[k]
             /\ \A k \in 1..Len(responses') :
                   k \in 1..Len(responses) \/ responses'[k] = Response(d, answer)
      BY <1>12, UserPosts
    <2> DEFINE a == Response(d, answer)
    <2>2. a.id = d.id /\ a.perm = d.perm
      BY DEF Response
    <2>3. dialogs' = dialogs \ {d} /\ UNCHANGED <<active, outcome>>
      BY <2>1 DEF Grant
    <2>4. \A k \in 1..Len(responses') :
             \/ k \in 1..Len(responses) /\ responses'[k] = responses[k]
             \/ responses'[k] = a
      BY <2>1
    <2> HIDE DEF a
    <2>5. a.id \in G => Awaited(active, a)
      BY <1>4, <2>2 DEF InOrder, Awaited
    <2>6. InOrder(G, active, dialogs', responses')
      BY <1>4, <2>3, <2>4, <2>5 DEF InOrder
    <2> QED BY <1>8, <2>3, <2>6
  <1>13. ASSUME HandlePermissionResponse PROVE Goal
    <2> DEFINE a == Head(responses)
    <2>1. /\ responses # <<>> /\ responses' = Tail(responses)
          /\ UNCHANGED <<dialogs, outcome>>
      BY <1>13 DEF HandlePermissionResponse, flow
    <2>2. /\ a = responses[1] /\ 1 \in 1..Len(responses) /\ Len(responses) \in Nat
          /\ \A k \in 1..Len(responses') :
                responses'[k] = responses[k + 1] /\ k + 1 \in 1..Len(responses) /\ k + 1 # 1
      BY <1>1, <2>1
    <2>3. InOrder(G, active, dialogs, responses')
      BY <1>4, <2>2 DEF InOrder
    <2>4. ProcessedMeansDecided'
      BY <1>8, <2>1
    <2>5. CASE active[a.id] = NoRequest
      <3>1. UNCHANGED active
        BY <1>13, <2>5 DEF HandlePermissionResponse
      <3> QED BY <2>1, <2>3, <2>4, <3>1
    <2>6. CASE active[a.id] # NoRequest
      <3>1. active' = [active EXCEPT ![a.id] = Answered(active[a.id], a.perm, a.answer)]
        BY <1>1, <1>13, <2>6 DEF HandlePermissionResponse, Map
      <3> HIDE DEF a
      <3>2. a.id \in G =>
               /\ active[a.id].index < Len(active[a.id].requests)
               /\ a.perm = active[a.id].requests[active[a.id].index + 1]
        BY <1>4, <2>2, <2>6 DEF InOrder, Awaited
      <3>3. a.id \in Ids /\ a.answer \in {"yes", "no"} /\ a.perm \in Permissions
        BY <2>2, PendingTyped DEF Posted
      <3>4. /\ \A d \in dialogs : d.id \in Ids
            /\ \A k \in 1..Len(responses') : responses'[k].id \in Ids
        BY <2>2, PendingTyped
      <3>5. a.id \in G =>
               /\ \A d \in dialogs : d.id # a.id
               /\ \A k \in 1..Len(responses') : responses'[k].id # a.id
        BY <1>2, <2>2 DEF Sequenced, OneAtATime
      <3>6. InOrder(G, active', dialogs, responses')
        BY <1>1, <2>3, <2>6, <3>1, <3>2, <3>3, <3>4, <3>5, AnswerKeepsOrder
      <3> QED BY <2>1, <2>4, <3>6
    <2> QED BY <2>5, <2>6
  <1>14. ASSUME ListenOrCancel PROVE Goal
    BY <1>9, <1>14 DEF ListenOrCancel
  <1>15. ASSUME NEW w \in storing, PermissionStored(w) PROVE Goal
    <2>1. /\ w.id \in Ids /\ ShowNextDialog(w.id, active, storing \ {w})
          /\ w.id \in G => Free(w.id, dialogs, responses, storing \ {w})
          /\ UNCHANGED responses
      BY <1>2, <1>15, StoredIsFree
    <2>2. InOrder(G, active', dialogs', responses) /\ ProcessedMeansDecided'
      BY <1>1, <1>3, <1>4, <1>6, <2>1, ShowInOrder
    <2> QED BY <2>1, <2>2
  <1>16. ASSUME UNCHANGED vars PROVE Goal
    BY <1>9, <1>16 DEF vars
  <1> HIDE DEF Goal
  <1> QED BY <1>10, <1>11, <1>12, <1>13, <1>14, <1>15, <1>16 DEF Next

-----------------------------------------------------------------------------
(* The theorems. *)

DialogInv == TypeOK /\ Sequenced /\ AskersKnown /\ Allowed /\ Ordered

LEMMA InvariantInit == Init => DialogInv
  <1> SUFFICES ASSUME Init PROVE DialogInv
    OBVIOUS
  <1>1. TypeOK
    BY TypeInit, DialogAssumption
  <1>2. /\ dialogs = {} /\ storing = {} /\ responses = <<>>
        /\ \A i \in Ids : active[i] = NoRequest /\ askers[i] = {}
        /\ \A c \in Calls : outcome[c] = <<>>
    BY DEF Init
  <1>3. Sequenced
    BY <1>2 DEF Sequenced, OneAtATime
  <1>4. AskersKnown
    BY <1>2 DEF AskersKnown, Asked
  <1>5. Granted(Clean, active, dialogs, responses, storing, askers, granted)
    BY <1>2 DEF Granted
  <1>6. GrantsAreUsers
    BY DEF Init, GrantsAreUsers, Claimed
  <1>7. Ordered
    BY <1>2 DEF Ordered, InOrder, ProcessedMeansDecided
  <1> QED BY <1>1, <1>3, <1>4, <1>5, <1>6, <1>7 DEF DialogInv, Allowed

LEMMA InvariantStep == DialogInv /\ [Next]_vars => DialogInv'
  BY TypeStep, SequencedStep, AskersStep, AllowedStep, OrderedStep, DialogAssumption
     DEF DialogInv

\* Everything under way for a clean id is about its one request, and everything
\* under way for a mixed one about a call that has asked under it.
THEOREM Invariant == Spec => []DialogInv
  BY InvariantInit, InvariantStep, PTL DEF Spec

\* An application is granted in the store only what the user has granted to it,
\* however many applications are asked about at once, whatever their ids are and
\* in whatever order and however often answers come; only those that ask under
\* one id may get each other's answers.
THEOREM OnlyTheUserGrants == Spec => []GrantsAreUsers
  <1>1. DialogInv => GrantsAreUsers
    BY DEF DialogInv, Allowed
  <1> QED BY <1>1, Invariant, PTL

\* A callback that gets decisions gets one for every permission the application
\* needs, though an answer advances the request without a look at what the
\* request waits for; except the callbacks of confused calls.
THEOREM CallbackIsComplete == Spec => []ProcessedMeansDecided
  <1>1. DialogInv => ProcessedMeansDecided
    BY DEF DialogInv, Ordered
  <1> QED BY <1>1, Invariant, PTL

-----------------------------------------------------------------------------
(* A callback is called once.                                                 *)

\* A call has one request at most, and none before it has asked or once its
\* callback was called.
OncePerCall(q, m, out) ==
    /\ \A c \in Calls : Len(out[c]) <= 1 /\ (q[c] # "called" => out[c] = <<>>)
    /\ \A i \in Ids : m[i] # NoRequest =>
          q[m[i].call] = "called" /\ out[m[i].call] = <<>>
    /\ \A i, j \in Ids :
          m[i] # NoRequest /\ m[j] # NoRequest /\ m[i].call = m[j].call => i = j

\* A request that is over has its callback called.
LEMMA EndKeepsOnce ==
    ASSUME TypeOK, NEW q, NEW m \in Map, NEW i \in Ids, m[i] # NoRequest,
           OncePerCall(q, m, outcome), NEW r \in Results
    PROVE  OncePerCall(q, [m EXCEPT ![i] = NoRequest],
                       [outcome EXCEPT ![m[i].call] = Append(@, r)])
  <1> DEFINE n == [m EXCEPT ![i] = NoRequest]
             c == m[i].call
             out == [outcome EXCEPT ![c] = Append(@, r)]
  <1>1. c \in Calls /\ outcome \in [Calls -> Seq(Results)]
    BY DEF Map, Request, TypeOK
  <1>2. outcome[c] = <<>> /\ q[c] = "called"
    BY DEF OncePerCall
  <1>3. /\ Len(out[c]) = 1
        /\ \A d \in Calls : d # c => out[d] = outcome[d]
    BY <1>1, <1>2
  <1>4. /\ n[i] = NoRequest
        /\ \A j \in Ids : n[j] # NoRequest => n[j] = m[j] /\ j # i
    BY DEF Map
  <1>5. \A j \in Ids : n[j] # NoRequest => n[j].call \in Calls /\ n[j].call # c
    <2>1. \A j \in Ids : n[j] # NoRequest => m[j].call \in Calls
      BY <1>4 DEF Map, Request
    <2> HIDE DEF n
    <2> QED BY <1>4, <2>1 DEF OncePerCall
  <1> HIDE DEF n, c, out
  <1>6. \A d \in Calls : Len(out[d]) <= 1 /\ (q[d] # "called" => out[d] = <<>>)
    <2> SUFFICES ASSUME NEW d \in Calls
                 PROVE  Len(out[d]) <= 1 /\ (q[d] # "called" => out[d] = <<>>)
      OBVIOUS
    <2>1. CASE d = c
      <3>1. Len(out[d]) = 1 /\ q[d] = "called"
        BY <1>2, <1>3, <2>1
      <3>2. 1 <= 1
        OBVIOUS
      <3> QED BY <3>1, <3>2
    <2>2. CASE d # c
      <3>1. out[d] = outcome[d]
        BY <1>3, <2>2
      <3> QED BY <3>1 DEF OncePerCall
    <2> QED BY <2>1, <2>2
  <1>7. \A j \in Ids : n[j] # NoRequest => q[n[j].call] = "called" /\ out[n[j].call] = <<>>
    BY <1>3, <1>4, <1>5 DEF OncePerCall
  <1>8. \A j, k \in Ids :
           n[j] # NoRequest /\ n[k] # NoRequest /\ n[j].call = n[k].call => j = k
    BY <1>4 DEF OncePerCall
  <1>9. OncePerCall(q, n, out)
    BY <1>6, <1>7, <1>8 DEF OncePerCall
  <1> QED BY <1>9 DEF n, c, out

LEMMA ShowOnce ==
    ASSUME TypeOK, NEW i \in Ids, NEW m \in Map, NEW s, NEW q,
           OncePerCall(q, m, outcome), ShowNextDialog(i, m, s)
    PROVE  OncePerCall(q, active', outcome')
  <1>1. m[i] # NoRequest => m[i] \in Request
    BY DEF Map
  <1>2. CASE ShowNothing(i, m, s) \/ ShowDialog(i, m, s)
    BY <1>2 DEF ShowNothing, ShowDialog
  <1>3. CASE Complete(i, m, s)
    <2>1. /\ m[i] # NoRequest /\ active' = [m EXCEPT ![i] = NoRequest]
          /\ outcome' = [outcome EXCEPT ![m[i].call] = Append(@, m[i].result)]
      BY <1>3 DEF Complete
    <2>2. m[i].result \in Results
      BY <1>1, <2>1 DEF Request
    <2> QED BY <2>1, <2>2, EndKeepsOnce
  <1>4. CASE DenyUnshown(i, m, s)
    <2> DEFINE p == Dialog(i, m[i]).perm
    <2>1. /\ active' = [m EXCEPT ![i] = Answered(m[i], p, "no")]
          /\ outcome' = outcome
          /\ m[i] \in Request /\ p \in Permissions
      BY <1>1, <1>4, DialogTyped DEF DenyUnshown, Map, Shown
    <2> HIDE DEF p
    <2>2. \A j \in Ids : active'[j] # NoRequest =>
                            m[j] # NoRequest /\ active'[j].call = m[j].call
      BY <1>4, <2>1, AnsweredTyped DEF DenyUnshown, Map
    <2> QED BY <2>1, <2>2 DEF OncePerCall
  <1> QED BY <1>2, <1>3, <1>4 DEF ShowNextDialog

LEMMA OnceStep ==
    ASSUME DialogAssumption, TypeOK, OncePerCall(pc, active, outcome), [Next]_vars
    PROVE  OncePerCall(pc', active', outcome')
  <1>1. /\ active \in Map /\ outcome \in [Calls -> Seq(Results)]
        /\ pc \in [Calls -> {"idle", "checking", "called"}]
    BY DEF TypeOK, Map
  <1>2. \A i \in Ids : active[i] # NoRequest => active[i].call \in Calls
    BY <1>1 DEF Map, Request
  <1>3. ASSUME NEW c \in Calls, Io(c) PROVE OncePerCall(pc', active', outcome')
    <2>1. CASE \E p \in Permissions : LookUpAnswered(c, p)
      BY <2>1 DEF LookUpAnswered
    <2>2. CASE LookUp(c)
      <3>1. /\ pc[c] = "idle" /\ pc' = [pc EXCEPT ![c] = "checking"]
            /\ UNCHANGED <<active, outcome>>
        BY <2>2 DEF LookUp
      <3>2. pc'[c] = "checking" /\ \A d \in Calls : d # c => pc'[d] = pc[d]
        BY <1>1, <3>1
      <3>3. \A d \in Calls : pc'[d] # "called" => pc[d] # "called"
        BY <3>1, <3>2
      <3>4. \A i \in Ids : active[i] # NoRequest => active[i].call # c
        BY <3>1 DEF OncePerCall
      <3> QED BY <1>2, <3>1, <3>2, <3>3, <3>4 DEF OncePerCall
    <2>3. ASSUME NEW r, pc[c] # "called", pc' = [pc EXCEPT ![c] = "called"],
                 outcome' = [outcome EXCEPT ![c] = Append(@, r)], UNCHANGED active
          PROVE  OncePerCall(pc', active', outcome')
      <3>1. outcome[c] = <<>>
        BY <2>3 DEF OncePerCall
      <3>2. /\ pc'[c] = "called" /\ Len(outcome'[c]) = 1
            /\ \A d \in Calls : d # c => pc'[d] = pc[d] /\ outcome'[d] = outcome[d]
        BY <1>1, <2>3, <3>1
      <3>3. \A i \in Ids : active[i] # NoRequest => active[i].call # c
        BY <2>3 DEF OncePerCall
      <3>4. \A d \in Calls : Len(outcome'[d]) <= 1 /\ (pc'[d] # "called" => outcome'[d] = <<>>)
        <4> SUFFICES ASSUME NEW d \in Calls
                     PROVE  Len(outcome'[d]) <= 1 /\ (pc'[d] # "called" => outcome'[d] = <<>>)
          OBVIOUS
        <4>1. CASE d = c
          <5>1. Len(outcome'[d]) = 1 /\ pc'[d] = "called"
            BY <3>2, <4>1
          <5>2. 1 <= 1
            OBVIOUS
          <5> QED BY <5>1, <5>2
        <4>2. CASE d # c
          <5>1. pc'[d] = pc[d] /\ outcome'[d] = outcome[d]
            BY <3>2, <4>2
          <5> QED BY <5>1 DEF OncePerCall
        <4> QED BY <4>1, <4>2
      <3> QED BY <1>2, <2>3, <3>2, <3>3, <3>4 DEF OncePerCall
    <2>4. CASE NothingNeeded(c)
      BY <2>3, <2>4 DEF NothingNeeded
    <2>5. CASE NothingToAsk(c)
      BY <2>3, <2>5 DEF NothingToAsk, AllFound
    <2>6. CASE Ask(c)
      <3> DEFINE r == NewRequest(c)
      <3>1. PICK i \in Ids : ShowNextDialog(i, [active EXCEPT ![i] = r], storing)
        BY <2>6, AskIsFree
      <3> DEFINE m == [active EXCEPT ![i] = r]
      <3>2. r \in Request /\ r.call = c
        BY <2>6, AskIsFree DEF NewRequest
      <3>3. m \in Map /\ m[i] = r /\ \A j \in Ids : j # i => m[j] = active[j]
        BY <1>1, <3>2 DEF Map
      <3>4. pc[c] = "checking" /\ pc' = [pc EXCEPT ![c] = "called"]
        BY <2>6 DEF Ask, AllFound
      <3>5. pc'[c] = "called" /\ \A d \in Calls : d # c => pc'[d] = pc[d]
        BY <1>1, <3>4
      <3> HIDE DEF m, r
      <3>6. outcome[c] = <<>> /\ \A j \in Ids : active[j] # NoRequest => active[j].call # c
        BY <3>4 DEF OncePerCall
      <3>7. \A d \in Calls : Len(outcome[d]) <= 1 /\ (pc'[d] # "called" => outcome[d] = <<>>)
        BY <3>5 DEF OncePerCall
      <3>8. \A j \in Ids : m[j] # NoRequest =>
               pc'[m[j].call] = "called" /\ outcome[m[j].call] = <<>>
        <4> SUFFICES ASSUME NEW j \in Ids, m[j] # NoRequest
                     PROVE  pc'[m[j].call] = "called" /\ outcome[m[j].call] = <<>>
          OBVIOUS
        <4>1. CASE j = i
          BY <3>2, <3>3, <3>5, <3>6, <4>1
        <4>2. CASE j # i
          <5>1. m[j] = active[j] /\ active[j].call \in Calls /\ active[j].call # c
            BY <1>2, <3>3, <3>6, <4>2
          <5>2. pc[active[j].call] = "called" /\ outcome[active[j].call] = <<>>
            BY <5>1 DEF OncePerCall
          <5> QED BY <3>5, <5>1, <5>2
        <4> QED BY <4>1, <4>2
      <3>9. \A j, k \in Ids :
               m[j] # NoRequest /\ m[k] # NoRequest /\ m[j].call = m[k].call => j = k
        BY <3>2, <3>3, <3>6 DEF OncePerCall
      <3>10. OncePerCall(pc', m, outcome)
        BY <3>7, <3>8, <3>9 DEF OncePerCall
      <3> QED BY <3>1, <3>3, <3>10, ShowOnce DEF m
    <2> QED BY <1>3, <2>1, <2>2, <2>4, <2>5, <2>6 DEF Io
  <1>4. ASSUME NEW i \in Ids, GiveUp(i) PROVE OncePerCall(pc', active', outcome')
    <2>1. UNCHANGED pc /\ active' = [active EXCEPT ![i] = NoRequest]
      BY <1>4 DEF GiveUp, flow
    <2>2. CASE active[i] = NoRequest
      <3>1. outcome' = outcome /\ \A j \in Ids : active'[j] = active[j]
        BY <1>1, <1>4, <2>1, <2>2 DEF GiveUp, Map
      <3> QED BY <2>1, <3>1 DEF OncePerCall
    <2>3. CASE active[i] # NoRequest
      <3>1. outcome' = [outcome EXCEPT ![active[i].call] = Append(@, NoResults)]
        BY <1>4, <2>3 DEF GiveUp
      <3>2. NoResults \in Results
        BY DEF NoResults, Results
      <3> QED BY <1>1, <2>1, <2>3, <3>1, <3>2, EndKeepsOnce
    <2> QED BY <2>2, <2>3
  <1>5. CASE User \/ Double
    <2>1. UNCHANGED <<pc, active, outcome>>
      BY <1>5, UserPosts DEF Grant
    <2> QED BY <2>1
  <1>6. CASE HandlePermissionResponse
    <2> DEFINE a == Head(responses)
    <2>1. UNCHANGED <<pc, outcome>>
      BY <1>6 DEF HandlePermissionResponse, flow
    <2>2. CASE active[a.id] = NoRequest
      BY <1>6, <2>1, <2>2 DEF HandlePermissionResponse
    <2>3. CASE active[a.id] # NoRequest
      <3>1. /\ responses \in Seq(Posted) /\ responses # <<>>
            /\ active' = [active EXCEPT ![a.id] = Answered(active[a.id], a.perm, a.answer)]
        BY <1>1, <1>6, <2>3 DEF HandlePermissionResponse, Map, TypeOK, Posted
      <3>2. a \in Posted
        BY <3>1
      <3> HIDE DEF a
      <3>5. a.id \in Ids /\ a.perm \in Permissions /\ a.answer \in {"yes", "no"}
        BY <3>2 DEF Posted
      <3>3. active[a.id] \in Request
        BY <1>1, <2>3, <3>5 DEF Map
      <3>4. \A j \in Ids : active'[j] # NoRequest =>
                              active[j] # NoRequest /\ active'[j].call = active[j].call
        BY <1>1, <2>3, <3>1, <3>5, <3>3, AnsweredTyped DEF Map
      <3> QED BY <2>1, <3>4 DEF OncePerCall
    <2> QED BY <2>2, <2>3
  <1>7. CASE ListenOrCancel
    BY <1>7 DEF ListenOrCancel, flow
  <1>8. ASSUME NEW w \in storing, PermissionStored(w)
        PROVE  OncePerCall(pc', active', outcome')
    <2>1. w.id \in Ids /\ UNCHANGED pc /\ ShowNextDialog(w.id, active, storing \ {w})
      BY <1>8 DEF PermissionStored, flow, TypeOK
    <2> QED BY <1>1, <2>1, ShowOnce
  <1>9. CASE UNCHANGED vars
    BY <1>9 DEF vars, flow
  <1> QED BY <1>3, <1>4, <1>5, <1>6, <1>7, <1>8, <1>9 DEF Next

\* Whatever the order of the store's replies and the erasing of a request that
\* could not be shown (flatpak_shim.cc:4613-4633), and whatever their ids, the callback of a start is called at most once.
THEOREM CalledBackOnce == Spec => [](\A c \in Calls : Len(outcome[c]) <= 1)
  <1> DEFINE Once == OncePerCall(pc, active, outcome)
  <1>1. Init => TypeOK /\ Once
    <2> SUFFICES ASSUME Init PROVE TypeOK /\ Once
      OBVIOUS
    <2>1. TypeOK
      BY TypeInit, DialogAssumption
    <2>2. /\ \A i \in Ids : active[i] = NoRequest
          /\ \A c \in Calls : outcome[c] = <<>>
      BY DEF Init
    <2> QED BY <2>1, <2>2 DEF OncePerCall
  <1>2. TypeOK /\ Once /\ [Next]_vars => TypeOK' /\ Once'
    BY TypeStep, OnceStep, DialogAssumption
  <1>3. Once => \A c \in Calls : Len(outcome[c]) <= 1
    BY DEF OncePerCall
  <1> QED BY <1>1, <1>2, <1>3, PTL DEF Spec

-----------------------------------------------------------------------------
(* No start is forgotten.                                                     *)

\* Every request of a clean id waits for something that is under way, and every
\* call without its callback, unless it is confused, has a request.  G stands for
\* the clean ids, K for the confused calls.
Pursued(G, K, q, m, out, D, R, W) ==
    /\ \A i \in Ids : i \in G /\ m[i] # NoRequest => ~Free(i, D, R, W)
    /\ \A c \in Calls : c \notin K /\ q[c] = "called" /\ out[c] = <<>> =>
          \E i \in Ids : m[i] # NoRequest /\ m[i].call = c

\* The same but for the id i, whose next step is still to be taken.
PursuedBut(i, G, K, q, m, out, D, R, W) ==
    /\ \A j \in Ids \ {i} : j \in G /\ m[j] # NoRequest => ~Free(j, D, R, W)
    /\ \A c \in Calls : c \notin K /\ q[c] = "called" /\ out[c] = <<>> =>
          \E j \in Ids : m[j] # NoRequest /\ m[j].call = c

\* A request that ends takes no other with it.
LEMMA EndPursued ==
    ASSUME TypeOK, NEW G, NEW K, NEW q, NEW m \in Map, NEW i \in Ids,
           m[i] # NoRequest,
           PursuedBut(i, G, K, q, m, outcome, dialogs, responses, storing'), NEW r,
           active' = [m EXCEPT ![i] = NoRequest],
           outcome' = [outcome EXCEPT ![m[i].call] = Append(@, r)],
           NEW D, D = dialogs
    PROVE  Pursued(G, K, q, active', outcome', D, responses, storing')
  <1>1. m[i].call \in Calls /\ outcome \in [Calls -> Seq(Results)]
    BY DEF Map, Request, TypeOK
  <1>2. /\ active'[i] = NoRequest
        /\ \A j \in Ids : j # i => active'[j] = m[j]
    BY DEF Map
  <1>3. \A j \in Ids : j \in G /\ active'[j] # NoRequest => ~Free(j, D, responses, storing')
    BY <1>2 DEF PursuedBut
  <1>4. ASSUME NEW c \in Calls, c \notin K, q[c] = "called", outcome'[c] = <<>>
        PROVE  \E j \in Ids : active'[j] # NoRequest /\ active'[j].call = c
    <2>1. c # m[i].call
      <3> SUFFICES ASSUME c = m[i].call PROVE FALSE
        OBVIOUS
      <3>1. outcome'[c] = Append(outcome[c], r)
        BY <1>1
      <3>2. Len(outcome'[c]) = Len(outcome[c]) + 1 /\ Len(outcome[c]) \in Nat
        BY <1>1, <3>1
      <3>3. Len(outcome'[c]) = 0
        BY <1>4
      <3> QED BY <3>2, <3>3
    <2>2. outcome[c] = <<>>
      BY <1>1, <1>4, <2>1
    <2>3. PICK j \in Ids : m[j] # NoRequest /\ m[j].call = c
      BY <1>4, <2>2 DEF PursuedBut
    <2> QED BY <1>2, <2>1, <2>3
  <1> QED BY <1>3, <1>4 DEF Pursued

LEMMA ShowPursues ==
    ASSUME TypeOK, NEW G, NEW K, NEW i \in Ids, NEW m \in Map, NEW s, NEW q,
           PursuedBut(i, G, K, q, m, outcome, dialogs, responses, s), ShowNextDialog(i, m, s)
    PROVE  Pursued(G, K, q, active', outcome', dialogs', responses, storing')
  <1>1. m[i] # NoRequest => m[i] \in Request
    BY DEF Map
  <1>2. CASE ShowNothing(i, m, s)
    BY <1>2 DEF ShowNothing, Pursued, PursuedBut
  <1>3. CASE Complete(i, m, s)
    <2>1. /\ m[i] # NoRequest /\ active' = [m EXCEPT ![i] = NoRequest]
          /\ outcome' = [outcome EXCEPT ![m[i].call] = Append(@, m[i].result)]
          /\ storing' = s /\ dialogs' = dialogs
      BY <1>3 DEF Complete
    <2> QED BY <2>1, EndPursued
  <1>4. CASE ShowDialog(i, m, s)
    <2>1. PICK d : dialogs' = dialogs \cup {d} /\ d.id = i
      BY <1>1, <1>4, DialogTyped DEF ShowDialog
    <2>2. active' = m /\ storing' = s /\ outcome' = outcome
      BY <1>4 DEF ShowDialog
    <2> QED BY <2>1, <2>2 DEF Pursued, PursuedBut, Free
  <1>5. CASE DenyUnshown(i, m, s)
    <2> DEFINE p == Dialog(i, m[i]).perm
               w == SetPermission(i, m[i], p, "no")
    <2>1. /\ active' = [m EXCEPT ![i] = Answered(m[i], p, "no")]
          /\ outcome' = outcome /\ dialogs' = dialogs
          /\ storing' = s \cup {w} /\ w.id = i
          /\ m[i] \in Request /\ p \in Permissions /\ m[i] # NoRequest
      BY <1>1, <1>5, DialogTyped DEF DenyUnshown, Map, Shown, SetPermission
    <2> HIDE DEF p, w
    <2>2. \A j \in Ids : (active'[j] # NoRequest <=> m[j] # NoRequest)
      BY <2>1, AnsweredTyped, NoRequestAssumption DEF Map
    <2>3. \A j \in Ids : active'[j] # NoRequest => active'[j].call = m[j].call
      BY <2>1, AnsweredTyped DEF Map
    <2>4. \A j \in Ids : j \in G /\ active'[j] # NoRequest => ~Free(j, dialogs', responses, storing')
      BY <2>1, <2>2 DEF PursuedBut, Free
    <2>5. ASSUME NEW c \in Calls, c \notin K, q[c] = "called", outcome'[c] = <<>>
          PROVE  \E j \in Ids : active'[j] # NoRequest /\ active'[j].call = c
      <3>1. PICK j \in Ids : m[j] # NoRequest /\ m[j].call = c
        BY <2>1, <2>5 DEF PursuedBut
      <3> QED BY <2>2, <2>3, <3>1
    <2> QED BY <2>4, <2>5 DEF Pursued
  <1> QED BY <1>2, <1>3, <1>4, <1>5 DEF ShowNextDialog

InPursuit == Pursued(Clean, Confused, pc, active, outcome, dialogs, responses, storing)

LEMMA PursuitStep ==
    ASSUME DialogAssumption, TypeOK, Sequenced, AskersKnown, InPursuit, [Next]_vars
    PROVE  InPursuit'
  <1>1. /\ active \in Map /\ responses \in Seq(Posted)
        /\ outcome \in [Calls -> Seq(Results)]
        /\ pc \in [Calls -> {"idle", "checking", "called"}]
    BY DEF TypeOK, Map, Posted
  <1>2. PICK G : G = Clean' /\ G \subseteq Clean
    BY CleanShrinks
  <1>3. PICK K : K = Confused' /\ Confused \subseteq K
    BY CleanShrinks
  <1>4. Pursued(G, K, pc, active, outcome, dialogs, responses, storing)
    BY <1>2, <1>3 DEF InPursuit, Pursued
  <1> DEFINE Goal == Pursued(G, K, pc', active', outcome', dialogs', responses', storing')
  <1>5. SUFFICES Goal
    BY <1>2, <1>3 DEF InPursuit
  <1>6. ASSUME UNCHANGED <<active, outcome, dialogs, responses, storing>>,
               \A c \in Calls : pc'[c] = "called" => pc[c] = "called"
        PROVE  Goal
    BY <1>4, <1>6 DEF Pursued, Free
  <1>7. ASSUME NEW c \in Calls, Io(c) PROVE Goal
    <2>1. CASE \E p \in Permissions : LookUpAnswered(c, p)
      BY <1>6, <2>1 DEF LookUpAnswered
    <2>2. CASE LookUp(c)
      <3>1. pc' = [pc EXCEPT ![c] = "checking"]
        BY <2>2 DEF LookUp
      <3>2. \A d \in Calls : pc'[d] = "called" => pc[d] = "called"
        BY <1>1, <3>1
      <3> QED BY <1>6, <2>2, <3>2 DEF LookUp
    <2>3. ASSUME NEW r, pc' = [pc EXCEPT ![c] = "called"],
                 outcome' = [outcome EXCEPT ![c] = Append(@, r)],
                 UNCHANGED <<active, dialogs, responses, storing>>
          PROVE  Goal
      <3>1. outcome'[c] # <<>>
        <4>1. outcome'[c] = Append(outcome[c], r) /\ outcome[c] \in Seq(Results)
          BY <1>1, <2>3
        <4>2. Len(outcome'[c]) = Len(outcome[c]) + 1 /\ Len(outcome[c]) \in Nat
          BY <4>1
        <4> QED BY <4>2
      <3>2. \A d \in Calls : d # c => pc'[d] = pc[d] /\ outcome'[d] = outcome[d]
        BY <1>1, <2>3
      <3> QED BY <1>4, <2>3, <3>1, <3>2 DEF Pursued, Free
    <2>4. CASE NothingNeeded(c)
      BY <2>3, <2>4 DEF NothingNeeded
    <2>5. CASE NothingToAsk(c)
      BY <2>3, <2>5 DEF NothingToAsk
    <2>6. CASE Ask(c)
      <3> DEFINE r == NewRequest(c)
      <3>1. /\ UNCHANGED responses /\ pc' = [pc EXCEPT ![c] = "called"]
            /\ r.call = c
        BY <2>6 DEF Ask, NewRequest
      <3>2. PICK i \in Ids :
               /\ r \in Request
               /\ ShowNextDialog(i, [active EXCEPT ![i] = r], storing)
               /\ askers' = [askers EXCEPT ![i] = @ \cup {c}]
               /\ i \notin mixed' => active[i] = NoRequest
        BY <2>6, AskIsFree
      <3> HIDE DEF r
      <3> DEFINE m == [active EXCEPT ![i] = r]
      <3>3. m \in Map /\ m[i] = r /\ \A j \in Ids : j # i => m[j] = active[j]
        BY <1>1, <3>2 DEF Map
      <3>4. r # NoRequest
        BY <3>2, NoRequestAssumption
      <3>5. ShowNextDialog(i, m, storing)
        BY <3>2
      <3> HIDE DEF m
      <3>6. \A j \in Ids \ {i} : j \in G /\ m[j] # NoRequest =>
                                    ~Free(j, dialogs, responses, storing)
        BY <1>4, <3>3 DEF Pursued
      <3>7. active[i] = NoRequest \/ active[i].call \in K
        <4> SUFFICES ASSUME active[i] # NoRequest PROVE active[i].call \in K
          OBVIOUS
        <4>1. i \in mixed' /\ active[i].call \in askers'[i]
          BY <3>2, HistoryGrows DEF AskersKnown, Asked
        <4> QED BY <1>3, <4>1 DEF Confused
      <3>8. ASSUME NEW d \in Calls, d \notin K, pc'[d] = "called", outcome[d] = <<>>
            PROVE  \E j \in Ids : m[j] # NoRequest /\ m[j].call = d
        <4>1. CASE d = c
          BY <3>1, <3>3, <3>4, <4>1
        <4>2. CASE d # c
          <5>1. pc[d] = "called"
            BY <1>1, <3>1, <3>8, <4>2
          <5>2. PICK j \in Ids : active[j] # NoRequest /\ active[j].call = d
            BY <1>4, <3>8, <5>1 DEF Pursued
          <5> QED BY <3>3, <3>7, <3>8, <5>2
        <4> QED BY <4>1, <4>2
      <3>9. PICK q : q = pc'
        OBVIOUS
      <3>10. PursuedBut(i, G, K, q, m, outcome, dialogs, responses, storing)
        BY <3>6, <3>8, <3>9 DEF PursuedBut
      <3>11. Pursued(G, K, q, active', outcome', dialogs', responses, storing')
        BY <3>3, <3>5, <3>10, ShowPursues
      <3> QED BY <3>1, <3>9, <3>11
    <2> HIDE DEF Goal
    <2> QED BY <1>7, <2>1, <2>2, <2>4, <2>5, <2>6 DEF Io, Goal
  <1>8. ASSUME NEW i \in Ids, GiveUp(i) PROVE Goal
    <2>1. /\ active' = [active EXCEPT ![i] = NoRequest]
          /\ UNCHANGED <<pc, dialogs, responses, storing>>
      BY <1>8 DEF GiveUp, flow
    <2>2. CASE active[i] = NoRequest
      <3>1. active' = active /\ outcome' = outcome
        BY <1>1, <1>8, <2>1, <2>2 DEF GiveUp, Map
      <3> QED BY <1>6, <2>1, <3>1
    <2>3. CASE active[i] # NoRequest
      <3>1. outcome' = [outcome EXCEPT ![active[i].call] = Append(@, NoResults)]
        BY <1>8, <2>3 DEF GiveUp
      <3>2. PursuedBut(i, G, K, pc, active, outcome, dialogs, responses, storing')
        BY <1>4, <2>1 DEF Pursued, PursuedBut
      <3>3. PICK q : q = pc
        OBVIOUS
      <3>4. Pursued(G, K, q, active', outcome', dialogs, responses, storing')
        BY <1>1, <2>1, <2>3, <3>1, <3>2, <3>3, EndPursued
      <3> QED BY <2>1, <3>3, <3>4
    <2> QED BY <2>2, <2>3
  <1>9. ASSUME User \/ Double PROVE Goal
    <2>1. PICK d \in dialogs, answer \in {"yes", "no"} :
             /\ Grant(d, answer)
             /\ Len(responses) + 1 \in 1..Len(responses')
             /\ \A k \in 1..Len(responses) :
                   k \in 1..Len(responses') /\ responses'[k] = responses[k]
             /\ \A k \in 1..Len(responses') :
                   k \in 1..Len(responses) \/ responses'[k] = Response(d, answer)
      BY <1>9, UserPosts
    <2>2. dialogs' = dialogs \ {d} /\ UNCHANGED <<pc, active, outcome, storing>>
      BY <2>1 DEF Grant
    <2>3. responses'[Len(responses) + 1].id = d.id
      <3>1. Len(responses) + 1 \notin 1..Len(responses)
        BY <1>1
      <3>2. responses'[Len(responses) + 1] = Response(d, answer)
        BY <2>1, <3>1
      <3> QED BY <3>2 DEF Response
    <2>4. \A i \in Ids : ~Free(i, dialogs, responses, storing) =>
                            ~Free(i, dialogs', responses', storing)
      BY <2>1, <2>2, <2>3 DEF Free
    <2> QED BY <1>4, <2>2, <2>4 DEF Pursued
  <1>10. ASSUME HandlePermissionResponse PROVE Goal
    <2> DEFINE a == Head(responses)
    <2>1. /\ responses # <<>> /\ responses' = Tail(responses)
          /\ UNCHANGED <<pc, dialogs, outcome>>
      BY <1>10 DEF HandlePermissionResponse, flow
    <2>2. /\ a = responses[1] /\ a \in Posted
          /\ \A k \in 1..Len(responses) : k = 1 \/ \E l \in 1..Len(responses') :
                responses'[l] = responses[k]
      <3>1. \A k \in 1..Len(responses) : k # 1 =>
               k - 1 \in 1..Len(responses') /\ responses'[k - 1] = responses[k]
        BY <1>1, <2>1
      <3>2. a = responses[1] /\ a \in Posted
        BY <1>1, <2>1
      <3> QED BY <3>1, <3>2
    <2>3. ASSUME NEW i \in Ids, i # a.id, storing \subseteq storing',
                 ~Free(i, dialogs, responses, storing)
          PROVE  ~Free(i, dialogs, responses', storing')
      BY <2>2, <2>3 DEF Free
    <2>4. CASE active[a.id] = NoRequest
      <3>1. UNCHANGED <<active, storing>>
        BY <1>10, <2>4 DEF HandlePermissionResponse
      <3> HIDE DEF a
      <3>2. \A i \in Ids : i \in G /\ active[i] # NoRequest =>
                              ~Free(i, dialogs, responses', storing')
        BY <1>4, <2>3, <2>4, <3>1 DEF Pursued
      <3> QED BY <1>4, <2>1, <3>1, <3>2 DEF Pursued
    <2>5. CASE active[a.id] # NoRequest
      <3> DEFINE w == SetPermission(a.id, active[a.id], a.perm, a.answer)
      <3>1. /\ active' = [active EXCEPT ![a.id] = Answered(active[a.id], a.perm, a.answer)]
            /\ storing' = storing \cup {w} /\ w.id = a.id
        BY <1>1, <1>10, <2>5 DEF HandlePermissionResponse, Map, SetPermission
      <3> HIDE DEF a, w
      <3>2. a.id \in Ids /\ a.perm \in Permissions /\ a.answer \in {"yes", "no"}
        BY <2>2 DEF Posted
      <3>3. active[a.id] \in Request
        BY <1>1, <2>5, <3>2 DEF Map
      <3>4. \A j \in Ids : active'[j] # NoRequest <=> active[j] # NoRequest
        BY <1>1, <2>5, <3>1, <3>2, <3>3, AnsweredTyped, NoRequestAssumption DEF Map
      <3>5. \A j \in Ids : active'[j] # NoRequest => active'[j].call = active[j].call
        BY <1>1, <2>5, <3>1, <3>2, <3>3, AnsweredTyped DEF Map
      <3>6. ~Free(a.id, dialogs, responses', storing')
        BY <3>1 DEF Free
      <3>7. \A i \in Ids : i \in G /\ active'[i] # NoRequest =>
                              ~Free(i, dialogs, responses', storing')
        BY <1>4, <2>3, <3>1, <3>4, <3>6 DEF Pursued
      <3>8. ASSUME NEW c \in Calls, c \notin K, pc[c] = "called", outcome[c] = <<>>
            PROVE  \E j \in Ids : active'[j] # NoRequest /\ active'[j].call = c
        <4>1. PICK j \in Ids : active[j] # NoRequest /\ active[j].call = c
          BY <1>4, <3>8 DEF Pursued
        <4> QED BY <3>4, <3>5, <4>1
      <3> QED BY <2>1, <3>7, <3>8 DEF Pursued
    <2> QED BY <2>4, <2>5
  <1>11. ASSUME ListenOrCancel PROVE Goal
    BY <1>6, <1>11 DEF ListenOrCancel, flow
  <1>12. ASSUME NEW w \in storing, PermissionStored(w) PROVE Goal
    <2>1. /\ w.id \in Ids /\ ShowNextDialog(w.id, active, storing \ {w})
          /\ UNCHANGED <<pc, responses>>
      BY <1>12, StoredIsFree
    <2>2. \A j \in Ids \ {w.id} : ~Free(j, dialogs, responses, storing) =>
                                     ~Free(j, dialogs, responses, storing \ {w})
      BY DEF Free
    <2>3. PICK q : q = pc
      OBVIOUS
    <2>4. PursuedBut(w.id, G, K, q, active, outcome, dialogs, responses, storing \ {w})
      BY <1>4, <2>2, <2>3 DEF Pursued, PursuedBut
    <2>5. Pursued(G, K, q, active', outcome', dialogs', responses, storing')
      BY <1>1, <2>1, <2>4, ShowPursues
    <2> QED BY <2>1, <2>3, <2>5
  <1>13. ASSUME UNCHANGED vars PROVE Goal
    BY <1>6, <1>13 DEF vars, flow
  <1> HIDE DEF Goal
  <1> QED BY <1>7, <1>8, <1>9, <1>10, <1>11, <1>12, <1>13 DEF Next

\* The safe half of the fairness of ImplementsService: a start that was asked about
\* and has not been called back is never forgotten, unless it is confused; a dialog
\* of its request is open, an answer posted or a decision being written.
THEOREM NoStartIsForgotten ==
    Spec => [](\A c \in Calls \ Confused :
                  pc[c] = "called" /\ outcome[c] = <<>> =>
                     \E i \in Ids :
                        /\ active[i] # NoRequest /\ active[i].call = c
                        /\ ~Free(i, dialogs, responses, storing))
  <1>1. Init => InPursuit
    BY DEF Init, InPursuit, Pursued
  <1>2. DialogInv /\ InPursuit /\ [Next]_vars => InPursuit'
    BY PursuitStep, DialogAssumption DEF DialogInv
  <1>3. DialogInv /\ InPursuit =>
           \A c \in Calls \ Confused :
              pc[c] = "called" /\ outcome[c] = <<>> =>
                 \E i \in Ids :
                    /\ active[i] # NoRequest /\ active[i].call = c
                    /\ ~Free(i, dialogs, responses, storing)
    <2> SUFFICES ASSUME DialogInv, InPursuit, NEW c \in Calls \ Confused,
                        pc[c] = "called", outcome[c] = <<>>
                 PROVE  \E i \in Ids :
                           /\ active[i] # NoRequest /\ active[i].call = c
                           /\ ~Free(i, dialogs, responses, storing)
      OBVIOUS
    <2>1. PICK i \in Ids : active[i] # NoRequest /\ active[i].call = c
      BY DEF InPursuit, Pursued
    <2>2. c \in askers[i]
      BY <2>1 DEF DialogInv, AskersKnown, Asked
    <2>3. i \in Clean
      BY <2>2 DEF Clean, Confused
    <2> QED BY <2>1, <2>3 DEF InPursuit, Pursued
  <1> QED BY <1>1, <1>2, <1>3, Invariant, PTL DEF Spec

-----------------------------------------------------------------------------
(* What a request of a clean id holds is true: it has decisions only for what  *)
(* is needed, its yes is the user's, it asks only for what is needed.         *)

TrueRequest(r, g) ==
    /\ \A p \in Permissions :
          /\ r.result[p] # "none" => p \in Needed(r.call)
          /\ r.result[p] = "yes" => [app |-> AppOf[r.call], perm |-> p] \in g
    /\ \A k \in 1..Len(r.requests) : r.requests[k] \in Needed(r.call)

AllTrue(G, m, g) == \A i \in Ids : i \in G /\ m[i] # NoRequest => TrueRequest(m[i], g)

FoundTrue(f, g) ==
    \A c \in Calls, p \in Permissions :
        f[c][p] = "yes" => [app |-> AppOf[c], perm |-> p] \in g

Truthful == AllTrue(Clean, active, Claimed) /\ FoundTrue(found, Claimed)

LEMMA AnswerStaysTrue ==
    ASSUME NEW g, NEW r \in Request, TrueRequest(r, g), NEW p \in Permissions,
           p \in Needed(r.call), NEW answer \in {"yes", "no"},
           answer = "yes" => [app |-> AppOf[r.call], perm |-> p] \in g
    PROVE  TrueRequest(Answered(r, p, answer), g)
  <1> DEFINE new == Answered(r, p, answer)
  <1>1. /\ new.call = r.call /\ new.requests = r.requests
        /\ new.result = [r.result EXCEPT ![p] = answer]
    BY AnsweredFields
  <1>2. r.result \in Results
    BY DEF Request
  <1> HIDE DEF new
  <1>3. \A q \in Permissions : new.result[q] = IF q = p THEN answer ELSE r.result[q]
    BY <1>1, <1>2 DEF Results
  <1>4. TrueRequest(new, g)
    BY <1>1, <1>3 DEF TrueRequest
  <1> QED BY <1>4 DEF new

\* ToAsk lists what is needed.
LEMMA AsksForTheNeeded ==
    ASSUME DialogAssumption, NEW c \in Calls, NEW n \in 1..Len(ToAsk(c))
    PROVE  ToAsk(c)[n] \in Needed(c)
  <1> DEFINE need == Needs[AppOf[c]]
             S == Undecided(c)
             m == Cardinality(S)
  <1>1. need \in Seq(Permissions) /\ DOMAIN need = 1..Len(need) /\ Len(need) \in Nat
    BY DEF DialogAssumption
  <1>2. S \subseteq DOMAIN need
    BY DEF Undecided
  <1>3. IsFiniteSet(S) /\ S \subseteq Int /\ m \in Nat
    <2>1. IsFiniteSet(1..Len(need))
      BY <1>1, FS_Interval
    <2>2. IsFiniteSet(S)
      BY <1>1, <1>2, <2>1, FS_Subset
    <2> QED BY <1>1, <1>2, <2>2, FS_CardinalityType
  <1>4. ToAsk(c) = [k \in 1..m |-> need[Nth(S, k)]]
    BY DEF ToAsk
  <1>5. Len(ToAsk(c)) = m
    <2>1. ToAsk(c) \in Seq(Permissions) /\ DOMAIN ToAsk(c) = 1..m
      BY <1>4, AsksForTheUndecided
    <2> HIDE DEF m
    <2> QED BY <1>3, <2>1
  <1>6. Nth(S, n) \in S
    BY <1>3, <1>5, NthIsRanked
  <1>7. ToAsk(c)[n] = need[Nth(S, n)]
    BY <1>4, <1>5
  <1> QED BY <1>2, <1>6, <1>7 DEF Needed, Range

\* The next permission a request asks for.
LEMMA NextIsNeeded ==
    ASSUME NEW g, NEW r \in Request, TrueRequest(r, g), r.index < Len(r.requests)
    PROVE  /\ r.requests[r.index + 1] \in Needed(r.call)
           /\ r.requests[r.index + 1] \in Permissions
  <1>1. r.requests \in Seq(Permissions) /\ r.index \in Nat
    BY DEF Request
  <1>2. r.index + 1 \in 1..Len(r.requests)
    BY <1>1
  <1> QED BY <1>1, <1>2 DEF TrueRequest

LEMMA ShowTrue ==
    ASSUME NEW i \in Ids, NEW m \in Map, NEW s, NEW G, NEW g, AllTrue(G, m, g),
           ShowNextDialog(i, m, s)
    PROVE  AllTrue(G, active', g)
  <1>1. CASE ShowNothing(i, m, s) \/ ShowDialog(i, m, s)
    BY <1>1 DEF ShowNothing, ShowDialog
  <1>2. CASE Complete(i, m, s)
    BY <1>2 DEF Complete, Map, AllTrue
  <1>3. CASE DenyUnshown(i, m, s)
    <2> DEFINE p == m[i].requests[m[i].index + 1]
    <2>1. m[i] \in Request /\ m[i].index < Len(m[i].requests)
      BY <1>3 DEF DenyUnshown, AllProcessed, Map, Request
    <2>2. i \in G => TrueRequest(m[i], g) /\ p \in Permissions /\ p \in Needed(m[i].call)
      BY <1>3, <2>1, NextIsNeeded DEF DenyUnshown, AllTrue
    <2>3. active' = [m EXCEPT ![i] = Answered(m[i], p, "no")]
      BY <1>3 DEF DenyUnshown, Dialog, Map
    <2> HIDE DEF p
    <2>4. i \in G => TrueRequest(Answered(m[i], p, "no"), g)
      BY <2>1, <2>2, AnswerStaysTrue
    <2> QED BY <2>3, <2>4 DEF AllTrue, Map
  <1> QED BY <1>1, <1>2, <1>3 DEF ShowNextDialog

LEMMA TruthStep ==
    ASSUME DialogAssumption, DialogInv, Truthful, [Next]_vars
    PROVE  Truthful'
  <1>1. TypeOK /\ active \in Map
    BY DEF DialogInv, TypeOK, Map
  <1>2. PICK G : G = Clean' /\ G \subseteq Clean
    BY <1>1, CleanShrinks
  <1>3. PICK g : g = Claimed' /\ Claimed \subseteq g /\ granted \subseteq g
    BY <1>1, ClaimedGrows DEF Claimed
  <1>4. AllTrue(G, active, g) /\ FoundTrue(found, g)
    BY <1>2, <1>3 DEF Truthful, AllTrue, TrueRequest, FoundTrue
  <1> DEFINE Goal == AllTrue(G, active', g) /\ FoundTrue(found', g)
  <1>5. SUFFICES Goal
    BY <1>2, <1>3 DEF Truthful
  <1>6. ASSUME UNCHANGED <<active, found>> PROVE Goal
    BY <1>4, <1>6
  <1>7. ASSUME NEW c \in Calls, Io(c) PROVE Goal
    <2>1. ASSUME NEW p \in Permissions, LookUpAnswered(c, p) PROVE Goal
      <3>1. PICK status \in {store[AppOf[c]][p], "none"} :
                found' = [found EXCEPT ![c][p] = status]
        BY <2>1 DEF LookUpAnswered
      <3>2. status = "yes" => [app |-> AppOf[c], perm |-> p] \in g
        BY <1>3, <3>1 DEF DialogInv, Allowed, GrantsAreUsers, DialogAssumption
      <3>3. \A d \in Calls, q \in Permissions :
               found'[d][q] = IF d = c /\ q = p THEN status ELSE found[d][q]
        BY <1>1, <3>1 DEF TypeOK
      <3>4. FoundTrue(found', g)
        BY <1>4, <3>2, <3>3 DEF FoundTrue
      <3> QED BY <1>4, <2>1, <3>4 DEF LookUpAnswered
    <2>2. CASE NothingNeeded(c) \/ LookUp(c) \/ NothingToAsk(c)
      BY <1>6, <2>2 DEF NothingNeeded, LookUp, NothingToAsk
    <2>3. CASE Ask(c)
      <3> DEFINE r == NewRequest(c)
      <3>1. PICK i \in Ids :
               r \in Request /\ ShowNextDialog(i, [active EXCEPT ![i] = r], storing)
        BY <1>1, <2>3, AskIsFree
      <3>2. UNCHANGED found
        BY <2>3 DEF Ask
      <3>3. TrueRequest(r, g)
        <4>1. \A p \in Permissions :
                 /\ Known(c)[p] # "none" => p \in Needed(c)
                 /\ Known(c)[p] = "yes" => [app |-> AppOf[c], perm |-> p] \in g
          BY <1>4 DEF Known, FoundTrue
        <4>2. \A k \in 1..Len(ToAsk(c)) : ToAsk(c)[k] \in Needed(c)
          BY AsksForTheNeeded
        <4>3. r.call = c /\ r.result = Known(c) /\ r.requests = ToAsk(c)
          BY DEF NewRequest
        <4> HIDE DEF r
        <4> QED BY <4>1, <4>2, <4>3 DEF TrueRequest
      <3> HIDE DEF r
      <3> DEFINE m == [active EXCEPT ![i] = r]
      <3>4. m \in Map /\ m[i] = r /\ \A j \in Ids : j # i => m[j] = active[j]
        BY <1>1, <3>1 DEF Map
      <3>5. ShowNextDialog(i, m, storing)
        BY <3>1
      <3> HIDE DEF m
      <3>6. AllTrue(G, m, g)
        BY <1>4, <3>3, <3>4 DEF AllTrue
      <3>7. AllTrue(G, active', g)
        BY <3>4, <3>5, <3>6, ShowTrue
      <3> QED BY <1>4, <3>2, <3>7
    <2> HIDE DEF Goal
    <2> QED BY <1>7, <2>1, <2>2, <2>3 DEF Io, Goal
  <1>8. ASSUME NEW i \in Ids, GiveUp(i) PROVE Goal
    <2>1. /\ \A j \in Ids : active'[j] # NoRequest => active'[j] = active[j]
          /\ UNCHANGED found
      BY <1>1, <1>8 DEF GiveUp, Map, flow
    <2> QED BY <1>4, <2>1 DEF AllTrue
  <1>9. ASSUME User \/ Double PROVE Goal
    <2>1. UNCHANGED <<active, found>>
      BY <1>1, <1>9, UserPosts DEF Grant
    <2> QED BY <1>6, <2>1
  <1>10. ASSUME HandlePermissionResponse PROVE Goal
    <2> DEFINE a == Head(responses)
    <2>1. responses # <<>> /\ UNCHANGED found
      BY <1>10 DEF HandlePermissionResponse, flow
    <2>2. a = responses[1] /\ 1 \in 1..Len(responses) /\ a \in Posted
      <3>1. responses \in Seq(Posted)
        BY <1>1 DEF TypeOK, Posted
      <3> QED BY <2>1, <3>1
    <2>3. CASE active[a.id] = NoRequest
      BY <1>6, <1>10, <2>1, <2>3 DEF HandlePermissionResponse
    <2>4. CASE active[a.id] # NoRequest
      <3>1. active' = [active EXCEPT ![a.id] = Answered(active[a.id], a.perm, a.answer)]
        BY <1>1, <1>10, <2>4 DEF HandlePermissionResponse, Map
      <3> HIDE DEF a
      <3>2. a.id \in Ids /\ a.answer \in {"yes", "no"} /\ a.perm \in Permissions
        BY <2>2 DEF Posted
      <3>3. ASSUME a.id \in G
            PROVE  TrueRequest(Answered(active[a.id], a.perm, a.answer), g)
        <4>1. active[a.id] \in Request /\ TrueRequest(active[a.id], g)
          BY <1>1, <1>4, <2>4, <3>2, <3>3 DEF Map, AllTrue
        <4>2. /\ active[a.id].index < Len(active[a.id].requests)
              /\ a.perm = active[a.id].requests[active[a.id].index + 1]
          BY <1>2, <2>2, <2>4, <3>3 DEF DialogInv, Ordered, InOrder, Awaited
        <4>3. a.answer = "yes" =>
                 [app |-> AppOf[active[a.id].call], perm |-> a.perm] \in g
          BY <1>2, <1>3, <2>2, <2>4, <3>3 DEF DialogInv, Allowed, Granted, GrantedTo
        <4>4. a.perm \in Needed(active[a.id].call)
          BY <4>1, <4>2, NextIsNeeded
        <4> QED BY <3>2, <4>1, <4>3, <4>4, AnswerStaysTrue
      <3>4. AllTrue(G, active', g)
        BY <1>1, <1>4, <3>1, <3>2, <3>3 DEF AllTrue, Map
      <3> QED BY <1>4, <2>1, <3>4
    <2> QED BY <2>3, <2>4
  <1>11. ASSUME ListenOrCancel PROVE Goal
    BY <1>6, <1>11 DEF ListenOrCancel, flow
  <1>12. ASSUME NEW w \in storing, PermissionStored(w) PROVE Goal
    <2>1. w.id \in Ids /\ ShowNextDialog(w.id, active, storing \ {w}) /\ UNCHANGED found
      BY <1>12, StoredIsFree DEF DialogInv
    <2>2. AllTrue(G, active', g)
      BY <1>1, <1>4, <2>1, ShowTrue
    <2> QED BY <1>4, <2>1, <2>2
  <1>13. ASSUME UNCHANGED vars PROVE Goal
    BY <1>6, <1>13 DEF vars, flow
  <1> HIDE DEF Goal
  <1> QED BY <1>7, <1>8, <1>9, <1>10, <1>11, <1>12, <1>13 DEF Next

-----------------------------------------------------------------------------
(* What the caller could know of each call, from its parts.                   *)

Unanswered(m, gone) == {m[i].call : i \in {j \in gone : m[j] # NoRequest}}

PhaseOf(c, q, out, m, gone, K) ==
    IF q[c] = "idle" THEN "idle"
    ELSE IF out[c] # <<>> THEN "answered"
    ELSE IF c \in K THEN "confused"
    ELSE IF c \in Unanswered(m, gone) THEN "unheard" ELSE "waiting"

PhaseNow(c) == PhaseOf(c, pc, outcome, active, giveup, Confused)
PhaseNext(c) == PhaseOf(c, pc', outcome', active', giveup', Confused')

DecisionsOf(out) ==
    [c \in Calls |-> IF out[c] = <<>> THEN NoResults ELSE out[c][1]]

LEMMA PhaseParts ==
    /\ Phase = [c \in Calls |-> PhaseNow(c)]
    /\ Phase' = [c \in Calls |-> PhaseNext(c)]
  BY DEF Phase, PhaseNow, PhaseNext, PhaseOf, Unanswered, GivenUp

\* A step of one call, and a step of none.
LEMMA Moves ==
    ASSUME NEW c \in Calls, NEW from, NEW to,
           PhaseNow(c) = from, PhaseNext(c) = to,
           \A d \in Calls : d # c => PhaseNext(d) = PhaseNow(d)
    PROVE  Service!Move(c, from, to)
  <1>1. /\ Phase[c] = from
        /\ \A d \in Calls : Phase[d] = PhaseNow(d)
        /\ Phase' = [d \in Calls |-> PhaseNext(d)]
        /\ Phase = [d \in Calls |-> PhaseNow(d)]
    BY PhaseParts
  <1> HIDE DEF Phase, PhaseNow, PhaseNext
  <1>2. Phase' = [Phase EXCEPT ![c] = to]
    BY <1>1
  <1> QED BY <1>1, <1>2 DEF Service!Move

LEMMA Rests ==
    ASSUME \A c \in Calls : PhaseNext(c) = PhaseNow(c)
    PROVE  UNCHANGED Phase
  <1> HIDE DEF PhaseNow, PhaseNext
  <1> QED BY PhaseParts

\* What is not asked, answered or granted leaves the histories alone.
LEMMA HistoryRests ==
    ASSUME UNCHANGED <<askers, mixed, granted>>
    PROVE  UNCHANGED <<Confused, Claimed>>
  BY DEF Confused, Claimed, Shared

LEMMA NotConfused ==
    ASSUME TypeOK, AskersKnown, NEW c \in Calls, pc[c] # "called"
    PROVE  c \notin Confused /\ \A i \in Ids : c \notin askers[i]
  BY DEF TypeOK, AskersKnown, Confused

LEMMA ClaimedTyped ==
    ASSUME DialogAssumption, TypeOK'
    PROVE  Claimed' \in SUBSET [app : AppIds, perm : Permissions]
  <1>1. PICK g, asked, mix :
           /\ g = granted' /\ asked = askers' /\ mix = mixed'
           /\ g \subseteq [app : AppIds, perm : Permissions]
           /\ asked \in [Ids -> SUBSET Calls] /\ mix \subseteq Ids
    BY DEF TypeOK
  <1>2. ASSUME NEW i \in mix
        PROVE  SharedBy(asked[i], g) \subseteq [app : AppIds, perm : Permissions]
    BY <1>1 DEF SharedBy, DialogAssumption
  <1>3. Claimed' = g \cup UNION {SharedBy(asked[i], g) : i \in mix}
    BY <1>1 DEF Claimed, Shared, SharedBy
  <1> QED BY <1>1, <1>2, <1>3

\* Calls are confused, or more is granted, and nothing else that the caller sees.
LEMMA ConfuseServes ==
    ASSUME DialogAssumption, TypeOK, [Next]_vars, UNCHANGED <<sink, outcome>>,
           \A c \in Calls :
              \/ PhaseNext(c) = PhaseNow(c)
              \/ PhaseNow(c) \in {"waiting", "unheard"} /\ PhaseNext(c) = "confused"
    PROVE  Service!Next
  <1>1. \A c \in Calls : PhaseNext(c) \in Service!Phases
    BY DEF PhaseNext, PhaseOf, Service!Phases
  <1>2. /\ \A c \in Calls : Phase[c] = PhaseNow(c) /\ Phase'[c] = PhaseNext(c)
        /\ Phase' = [c \in Calls |-> PhaseNext(c)]
    <2> HIDE DEF Phase, PhaseNow, PhaseNext
    <2> QED BY PhaseParts
  <1> HIDE DEF PhaseNow, PhaseNext, Phase
  <1>3. Phase' \in [Calls -> Service!Phases]
    BY <1>1, <1>2
  <1>4. \A c \in Calls : \/ Phase'[c] = Phase[c]
                         \/ Phase[c] \in {"waiting", "unheard"} /\ Phase'[c] = "confused"
    BY <1>2
  <1>5. Claimed \subseteq Claimed' /\ Claimed' \in SUBSET [app : AppIds, perm : Permissions]
    BY ClaimedGrows, ClaimedTyped, TypeStep
  <1>6. Service!Confuse
    BY <1>3, <1>4, <1>5 DEF Service!Confuse, Service!MoreGranted
  <1> QED BY <1>6 DEF Service!Next

\* A callback gets r.
LEMMA CallsBack ==
    ASSUME TypeOK, NEW c \in Calls, NEW r \in Results, outcome[c] = <<>>,
           outcome' = [outcome EXCEPT ![c] = Append(@, r)]
    PROVE  Service!CallBack(c, r)
  <1>1. outcome \in [Calls -> Seq(Results)]
    BY DEF TypeOK
  <1>2. outcome'[c] = <<r>> /\ \A d \in Calls : d # c => outcome'[d] = outcome[d]
    BY <1>1
  <1>3. outcome'[c] # <<>> /\ outcome'[c][1] = r
    BY <1>2
  <1>4. DecisionsOf(outcome') = [DecisionsOf(outcome) EXCEPT ![c] = r]
    <2> DEFINE D(out, d) == IF out[d] = <<>> THEN NoResults ELSE out[d][1]
    <2>1. \A d \in Calls : D(outcome', d) = IF d = c THEN r ELSE D(outcome, d)
      BY <1>2, <1>3
    <2>2. /\ DecisionsOf(outcome) = [d \in Calls |-> D(outcome, d)]
          /\ DecisionsOf(outcome') = [d \in Calls |-> D(outcome', d)]
      BY DEF DecisionsOf
    <2> HIDE DEF D
    <2> QED BY <2>1, <2>2
  <1> QED BY <1>4 DEF Service!CallBack, DecisionsOf

\* The decisions of a request that is over.
LEMMA IsDecided ==
    ASSUME DialogAssumption, NEW c \in Calls, NEW r \in Results,
           \A p \in Permissions : r[p] # "none" <=> p \in Needed(c),
           \A p \in Permissions : r[p] = "yes" => [app |-> AppOf[c], perm |-> p] \in Claimed
    PROVE  r \in Service!Decided(c)
  <1>1. AppOf[c] \in AppIds
    BY DEF DialogAssumption
  <1>2. [a \in AppIds |-> Range(Needs[a])][AppOf[c]] = Needed(c)
    BY <1>1 DEF Needed
  <1> QED BY <1>2 DEF Service!Decided, Results

OnceNow == OncePerCall(pc, active, outcome)

LEMMA Appended ==
    ASSUME TypeOK, NEW c \in Calls, NEW r \in Results,
           outcome' = [outcome EXCEPT ![c] = Append(@, r)]
    PROVE  /\ outcome'[c] # <<>>
           /\ \A d \in Calls : d # c => outcome'[d] = outcome[d]
  <1>1. outcome \in [Calls -> Seq(Results)]
    BY DEF TypeOK
  <1>2. outcome'[c] = Append(outcome[c], r) /\ outcome[c] \in Seq(Results)
    BY <1>1
  <1>3. outcome'[c] # <<>>
    <2>1. Len(outcome'[c]) = Len(outcome[c]) + 1 /\ Len(outcome[c]) \in Nat
      BY <1>2
    <2> SUFFICES ASSUME outcome'[c] = <<>> PROVE FALSE
      OBVIOUS
    <2>2. Len(outcome'[c]) = 0
      OBVIOUS
    <2> QED BY <2>1, <2>2
  <1> QED BY <1>1, <1>3

\* The end of a request is that of its call only.
LEMMA EndUnanswered ==
    ASSUME NEW m \in Map, NEW gone \in SUBSET Ids, NEW i \in Ids, NEW c, c # m[i].call
    PROVE  c \in Unanswered([m EXCEPT ![i] = NoRequest], gone) <=> c \in Unanswered(m, gone)
  <1> DEFINE n == [m EXCEPT ![i] = NoRequest]
  <1>1. \A j \in Ids : n[j] = IF j = i THEN NoRequest ELSE m[j]
    BY DEF Map
  <1> HIDE DEF n
  <1>2. c \in Unanswered(n, gone) <=> c \in Unanswered(m, gone)
    BY <1>1 DEF Unanswered
  <1> QED BY <1>2 DEF n

\* ShowNextDialog, for a call whose phase is that of its request: the caller
\* notices its end and its being unheard; of a confused one, its end only.
LEMMA ShowServes ==
    ASSUME DialogAssumption, TypeOK, NEW i \in Ids, NEW m \in Map, NEW s,
           OncePerCall(pc', m, outcome), NEW G, AllTrue(G, m, Claimed),
           m[i] # NoRequest /\ i \in G => DecidedOrAhead(m[i]),
           m[i] # NoRequest /\ i \notin G => m[i].call \in Confused,
           \A c \in Calls : PhaseOf(c, pc', outcome, m, giveup, Confused) = PhaseNow(c),
           ShowNextDialog(i, m, s), UNCHANGED <<sink, Claimed, Confused>>
    PROVE  Service!Next \/ UNCHANGED Service!vars
  <1> DEFINE c == m[i].call
  <1>1. m[i] # NoRequest => m[i] \in Request /\ c \in Calls
    BY DEF Map, Request
  <1>2. giveup \in SUBSET Ids
    BY DEF TypeOK
  <1>3. CASE ShowNothing(i, m, s) \/ ShowDialog(i, m, s)
    <2>1. active' = m /\ UNCHANGED <<giveup, outcome>>
      BY <1>3 DEF ShowNothing, ShowDialog
    <2>2. UNCHANGED Phase
      BY <2>1, Rests DEF PhaseNext
    <2> QED BY <2>1, <2>2 DEF Service!vars
  <1>4. CASE Complete(i, m, s)
    <2>1. /\ m[i] # NoRequest /\ AllProcessed(m[i]) /\ giveup' = giveup
          /\ active' = [m EXCEPT ![i] = NoRequest]
          /\ outcome' = [outcome EXCEPT ![c] = Append(@, m[i].result)]
      BY <1>4 DEF Complete
    <2>2. c \in Calls /\ m[i] \in Request /\ m[i].result \in Results
      BY <1>1, <2>1 DEF Request
    <2>3. pc'[c] = "called" /\ outcome[c] = <<>>
      BY <2>1 DEF OncePerCall
    <2>4. \A d \in Calls : PhaseNext(d) = IF d = c THEN "answered" ELSE PhaseNow(d)
      <3>1. /\ outcome'[m[i].call] # <<>>
            /\ \A d \in Calls : d # m[i].call => outcome'[d] = outcome[d]
        BY <2>1, <2>2, Appended
      <3>2. \A d \in Calls : d # m[i].call =>
               (d \in Unanswered(active', giveup') <=> d \in Unanswered(m, giveup))
        BY <1>2, <2>1, EndUnanswered
      <3> SUFFICES ASSUME NEW d \in Calls
                   PROVE  PhaseNext(d) = IF d = c THEN "answered" ELSE PhaseNow(d)
        OBVIOUS
      <3>3. PhaseNow(d) = PhaseOf(d, pc', outcome, m, giveup, Confused)
        OBVIOUS
      <3>4. CASE d = c
        BY <2>3, <3>1, <3>4 DEF PhaseNext, PhaseOf
      <3>5. CASE d # c
        BY <3>1, <3>2, <3>3, <3>5 DEF PhaseNext, PhaseOf
      <3> QED BY <3>4, <3>5
    <2>5. PhaseNow(c) = IF c \in Confused THEN "confused"
                        ELSE IF c \in Unanswered(m, giveup) THEN "unheard" ELSE "waiting"
      BY <2>2, <2>3 DEF PhaseOf
    <2>6. c \notin Confused => m[i].result \in Service!Decided(c)
      <3> SUFFICES ASSUME i \in G PROVE m[i].result \in Service!Decided(c)
        BY <2>1
      <3>1. \A p \in Permissions : m[i].result[p] # "none" <=> p \in Needed(c)
        BY <2>1, <2>2, ProcessedDecided DEF AllTrue, TrueRequest
      <3>2. \A p \in Permissions : m[i].result[p] = "yes" =>
               [app |-> AppOf[c], perm |-> p] \in Claimed
        BY <2>1 DEF AllTrue, TrueRequest
      <3> HIDE DEF c
      <3> QED BY <2>2, <3>1, <3>2, IsDecided
    <2> HIDE DEF c
    <2>7. Service!CallBack(c, m[i].result)
      BY <2>1, <2>2, <2>3, CallsBack
    <2>8. Service!Move(c, PhaseNow(c), "answered")
      BY <2>2, <2>4, Moves
    <2>9. CASE c \in Confused
      <3>1. m[i].result \in [Permissions -> {"none", "yes", "no"}]
        BY <2>2 DEF Results
      <3>2. Service!Move(c, "confused", "answered")
        BY <2>5, <2>8, <2>9
      <3>3. Service!AnswerConfused(c)
        BY <2>7, <3>1, <3>2 DEF Service!AnswerConfused
      <3> QED BY <2>2, <3>3 DEF Service!Next
    <2>10. CASE c \notin Confused
      <3>1. PhaseNow(c) \in {"waiting", "unheard"}
        BY <2>5, <2>10
      <3>2. Service!Answer(c)
        BY <2>6, <2>7, <2>8, <2>10, <3>1 DEF Service!Answer
      <3> QED BY <2>2, <3>2 DEF Service!Next
    <2> QED BY <2>9, <2>10
  <1>5. CASE DenyUnshown(i, m, s)
    <2> DEFINE p == Dialog(i, m[i]).perm
    <2>1. /\ m[i] # NoRequest /\ ~AllProcessed(m[i]) /\ ~sink
          /\ giveup' = giveup \cup {i} /\ outcome' = outcome
          /\ active' = [m EXCEPT ![i] = Answered(m[i], p, "no")]
      BY <1>5 DEF DenyUnshown, Map
    <2>2. m[i] \in Request /\ c \in Calls /\ p \in Permissions
      BY <1>1, <2>1, DialogTyped DEF Shown
    <2>3. pc'[c] = "called" /\ outcome[c] = <<>>
      BY <2>1 DEF OncePerCall
    <2> HIDE DEF p
    <2>4. /\ active'[i].call = c
          /\ \A j \in Ids : /\ active'[j] # NoRequest <=> m[j] # NoRequest
                            /\ j # i => active'[j] = m[j]
      BY <2>1, <2>2, AnsweredTyped, NoRequestAssumption DEF Map
    <2>5. Unanswered(active', giveup') = Unanswered(m, giveup) \cup {c}
      BY <1>2, <2>1, <2>4 DEF Unanswered
    <2> HIDE DEF c
    <2>6. \A d \in Calls : d # c => PhaseNext(d) = PhaseNow(d)
      BY <2>1, <2>5 DEF PhaseNext, PhaseOf
    <2>7. /\ PhaseNext(c) = IF c \in Confused THEN "confused" ELSE "unheard"
          /\ PhaseNow(c) \in IF c \in Confused THEN {"confused"}
                                               ELSE {"waiting", "unheard"}
      <3>1. PhaseNow(c) = PhaseOf(c, pc', outcome, m, giveup, Confused)
        BY <2>2
      <3> QED BY <2>1, <2>2, <2>3, <2>5, <3>1 DEF PhaseNext, PhaseOf
    <2>8. CASE PhaseNow(c) # "waiting"
      <3>1. UNCHANGED Phase
        BY <2>6, <2>7, <2>8, Rests
      <3> QED BY <2>1, <3>1 DEF Service!vars
    <2>9. CASE PhaseNow(c) = "waiting"
      <3>1. Service!Move(c, "waiting", "unheard")
        BY <2>2, <2>6, <2>7, <2>9, Moves
      <3>2. Service!Unheard(c)
        BY <2>1, <3>1 DEF Service!Unheard
      <3> QED BY <2>2, <3>2 DEF Service!Next
    <2> QED BY <2>8, <2>9
  <1> QED BY <1>3, <1>4, <1>5 DEF ShowNextDialog

\* The end of a call without a request.
LEMMA CallEnds ==
    ASSUME TypeOK, AskersKnown, OnceNow, NEW c \in Calls, pc[c] # "called",
           pc' = [pc EXCEPT ![c] = "called"], NEW r \in Results,
           outcome' = [outcome EXCEPT ![c] = Append(@, r)],
           UNCHANGED <<active, giveup, Confused>>
    PROVE  /\ Service!Move(c, PhaseNow(c), "answered")
           /\ Service!CallBack(c, r)
           /\ PhaseNow(c) = IF pc[c] = "idle" THEN "idle" ELSE "waiting"
  <1>1. outcome[c] = <<>> /\ c \notin Unanswered(active, giveup) /\ c \notin Confused
    <2>1. giveup \subseteq Ids
      BY DEF TypeOK
    <2> QED BY <2>1, NotConfused DEF OnceNow, OncePerCall, Unanswered
  <1>2. /\ pc'[c] = "called" /\ outcome'[c] = Append(outcome[c], r)
        /\ \A d \in Calls : d # c => pc'[d] = pc[d] /\ outcome'[d] = outcome[d]
        /\ outcome[c] \in Seq(Results)
    BY DEF TypeOK
  <1>3. outcome'[c] # <<>>
    <2>1. Len(outcome'[c]) = Len(outcome[c]) + 1 /\ Len(outcome[c]) \in Nat
      BY <1>2
    <2> QED BY <2>1
  <1>4. PhaseNext(c) = "answered"
    BY <1>2, <1>3 DEF PhaseNext, PhaseOf
  <1>5. \A d \in Calls : d # c => PhaseNext(d) = PhaseNow(d)
    BY <1>2 DEF PhaseNext, PhaseNow, PhaseOf
  <1>6. Service!Move(c, PhaseNow(c), "answered")
    BY <1>4, <1>5, Moves
  <1>7. PhaseNow(c) = IF pc[c] = "idle" THEN "idle" ELSE "waiting"
    BY <1>1 DEF PhaseNow, PhaseOf
  <1>8. Service!CallBack(c, r)
    BY <1>1, CallsBack
  <1> QED BY <1>6, <1>7, <1>8

LEMMA ServiceInit == Init => Service!Init
  <1> SUFFICES ASSUME Init PROVE Service!Init
    OBVIOUS
  <1>1. Phase = [c \in Calls |-> "idle"]
    BY DEF Init, Phase
  <1>2. /\ \A c \in Calls : outcome[c] = <<>>
        /\ sink \in BOOLEAN /\ Claimed \in SUBSET [app : AppIds, perm : Permissions]
    BY DEF Init, Claimed
  <1> QED BY <1>1, <1>2 DEF Service!Init, Service!Nothing, NoResults

Kept == DialogInv /\ OnceNow /\ Truthful

\* What does not touch the requests and the callbacks, the caller does not see.
LEMMA PhasesRest ==
    ASSUME UNCHANGED <<pc, outcome, active, giveup, Confused>>
    PROVE  UNCHANGED Phase
  BY Rests DEF PhaseNow, PhaseNext

LEMMA IoServes ==
    ASSUME DialogAssumption, Kept, [Next]_vars, NEW c \in Calls, Io(c)
    PROVE  Service!Next \/ UNCHANGED Service!vars
  <1>1. /\ TypeOK /\ AskersKnown /\ OnceNow /\ Truthful /\ active \in Map
        /\ giveup \subseteq Ids /\ pc \in [Calls -> {"idle", "checking", "called"}]
    BY DEF Kept, DialogInv, TypeOK, Map
  <1>2. CASE \E p \in Permissions : LookUpAnswered(c, p)
    <2>1. /\ UNCHANGED <<pc, outcome, active, giveup, sink>>
          /\ UNCHANGED <<Confused, Claimed>>
      BY <1>2, HistoryRests DEF LookUpAnswered, history
    <2> QED BY <2>1, PhasesRest DEF Service!vars
  <1>3. CASE NothingNeeded(c)
    <2>1. /\ pc[c] = "idle" /\ Needed(c) = {} /\ pc' = [pc EXCEPT ![c] = "called"]
          /\ outcome' = [outcome EXCEPT ![c] = Append(@, NoResults)]
          /\ UNCHANGED <<active, giveup, sink>> /\ UNCHANGED <<Confused, Claimed>>
      BY <1>3, HistoryRests DEF NothingNeeded, history
    <2>2. NoResults \in Results
      BY DEF NoResults, Results
    <2>3. Service!Move(c, "idle", "answered") /\ Service!CallBack(c, NoResults)
      BY <1>1, <2>1, <2>2, CallEnds
    <2>4. [a \in AppIds |-> Range(Needs[a])][AppOf[c]] = {}
      BY <2>1 DEF Needed, DialogAssumption
    <2>5. Service!NothingNeeded(c)
      BY <2>1, <2>3, <2>4 DEF Service!NothingNeeded, Service!Nothing, NoResults
    <2> QED BY <2>5 DEF Service!Next
  <1>4. CASE LookUp(c)
    <2>1. /\ pc[c] = "idle" /\ pc' = [pc EXCEPT ![c] = "checking"]
          /\ UNCHANGED <<outcome, active, giveup, sink>> /\ UNCHANGED <<Confused, Claimed>>
      BY <1>4, HistoryRests DEF LookUp, history
    <2>2. outcome[c] = <<>> /\ c \notin Unanswered(active, giveup) /\ c \notin Confused
      BY <1>1, <2>1, NotConfused DEF OnceNow, OncePerCall, Unanswered
    <2>3. pc'[c] = "checking" /\ \A d \in Calls : d # c => pc'[d] = pc[d]
      BY <1>1, <2>1
    <2>4. /\ PhaseNow(c) = "idle" /\ PhaseNext(c) = "waiting"
          /\ \A d \in Calls : d # c => PhaseNext(d) = PhaseNow(d)
      BY <2>1, <2>2, <2>3 DEF PhaseNow, PhaseNext, PhaseOf
    <2>5. Service!Move(c, "idle", "waiting")
      BY <2>4, Moves
    <2>6. Service!Request(c)
      BY <2>1, <2>5 DEF Service!Request
    <2> QED BY <2>6 DEF Service!Next
  <1>5. CASE NothingToAsk(c)
    <2>1. /\ pc[c] = "checking" /\ pc' = [pc EXCEPT ![c] = "called"]
          /\ outcome' = [outcome EXCEPT ![c] = Append(@, Known(c))]
          /\ AllFound(c) /\ ToAsk(c) = <<>>
          /\ UNCHANGED <<active, giveup, sink>> /\ UNCHANGED <<Confused, Claimed>>
      BY <1>5, HistoryRests DEF NothingToAsk, AllFound, history
    <2>2. PICK known \in Results : known = Known(c)
      BY <1>1, <2>1, KnownTyped
    <2>3. /\ Service!Move(c, PhaseNow(c), "answered")
          /\ Service!CallBack(c, known)
          /\ PhaseNow(c) = "waiting"
      BY <1>1, <2>1, <2>2, CallEnds
    <2>4. \A p \in Needed(c) : found[c][p] # "none"
      BY <2>1, AsksForTheUndecided
    <2>5. \A p \in Permissions : known[p] # "none" <=> p \in Needed(c)
      BY <2>2, <2>4 DEF Known
    <2>6. \A p \in Permissions : known[p] = "yes" =>
             [app |-> AppOf[c], perm |-> p] \in Claimed
      BY <1>1, <2>2 DEF Known, Truthful, FoundTrue
    <2>7. known \in Service!Decided(c)
      BY <2>2, <2>5, <2>6, IsDecided
    <2>8. Service!Answer(c)
      BY <2>1, <2>3, <2>7 DEF Service!Answer
    <2> QED BY <2>8 DEF Service!Next
  <1>6. CASE Ask(c)
    <2> DEFINE r == NewRequest(c)
    <2>1. /\ pc[c] = "checking" /\ pc' = [pc EXCEPT ![c] = "called"] /\ sink' = sink
          /\ granted' = granted
          /\ r.call = c /\ r.result = Known(c) /\ r.index = 0 /\ r.requests = ToAsk(c)
          /\ r.requests # <<>>
      BY <1>6 DEF Ask, AllFound, NewRequest
    <2>2. PICK i \in Ids :
             /\ r \in Request
             /\ ShowNextDialog(i, [active EXCEPT ![i] = r], storing)
             /\ askers' = [askers EXCEPT ![i] = @ \cup {c}]
             /\ mixed' = mixed \/ mixed' = mixed \cup {i}
             /\ i \notin mixed' => active[i] = NoRequest /\ i \notin giveup
      BY <1>1, <1>6, AskIsFree
    <2>3. /\ \A p \in Needed(c) :
                Known(c)[p] # "none" \/ \E k \in 1..Len(ToAsk(c)) : ToAsk(c)[k] = p
          /\ \A p \in Permissions :
                /\ Known(c)[p] # "none" => p \in Needed(c)
                /\ Known(c)[p] = "yes" => [app |-> AppOf[c], perm |-> p] \in Claimed
          /\ \A k \in 1..Len(ToAsk(c)) : ToAsk(c)[k] \in Needed(c)
      <3>1. AllFound(c)
        BY <1>6 DEF Ask
      <3> QED BY <1>1, <3>1, NeededTyped, AsksForTheUndecided, AsksForTheNeeded
              DEF Known, Truthful, FoundTrue
    <2>4. /\ outcome[c] = <<>> /\ c \notin Confused /\ c \notin Unanswered(active, giveup)
          /\ \A j \in Ids : active[j] # NoRequest => active[j].call # c
      BY <1>1, <2>1, NotConfused DEF OnceNow, OncePerCall, Unanswered
    <2>5. pc'[c] = "called" /\ \A d \in Calls : d # c => pc'[d] = pc[d]
      BY <1>1, <2>1
    <2>6. r.index + 1 = 1 /\ ~AllProcessed(r)
      <3>1. r.index = 0 /\ r.requests \in Seq(Permissions) /\ r.requests # <<>>
        BY <2>1, <2>2 DEF Request
      <3> HIDE DEF r
      <3> QED BY <3>1 DEF AllProcessed
    <2>7. r # NoRequest
      BY <2>2, NoRequestAssumption
    <2> HIDE DEF r
    <2> DEFINE m == [active EXCEPT ![i] = r]
    <2>8. m \in Map /\ m[i] = r /\ \A j \in Ids : j # i => m[j] = active[j]
      BY <1>1, <2>2 DEF Map
    <2>9. ShowNextDialog(i, m, storing)
      BY <2>2
    <2> HIDE DEF m
    <2>10. CASE i \notin mixed'
      <3>1. mixed' = mixed /\ i \notin mixed /\ active[i] = NoRequest /\ i \notin giveup
        BY <2>2, <2>10
      <3>2. UNCHANGED Claimed /\ UNCHANGED Confused
        <4>1. \A j \in Ids : j # i => askers'[j] = askers[j]
          BY <1>1, <2>2 DEF TypeOK
        <4> QED BY <1>1, <2>1, <3>1, <4>1, ClaimedStays
      <3>3. DecidedOrAhead(r) /\ TrueRequest(r, Claimed)
        <4>1. DecidedOrAhead(r)
          BY <2>1, <2>3, <2>6 DEF DecidedOrAhead
        <4>2. TrueRequest(r, Claimed)
          BY <2>1, <2>3 DEF TrueRequest
        <4> QED BY <4>1, <4>2
      <3>4. AllTrue(Clean, m, Claimed)
        BY <1>1, <2>8, <3>3 DEF Truthful, AllTrue
      <3>5. Unanswered(m, giveup) = Unanswered(active, giveup)
        BY <1>1, <2>8, <3>1 DEF Unanswered
      <3>6. \A d \in Calls : PhaseOf(d, pc', outcome, m, giveup, Confused) = PhaseNow(d)
        BY <2>1, <2>5, <3>5 DEF PhaseNow, PhaseOf
      <3>7. OncePerCall(pc', m, outcome)
        <4>1. \A j \in Ids : active[j] # NoRequest =>
                 active[j].call \in Calls /\ active[j].call # c
          BY <1>1, <2>4 DEF Map, Request
        <4>2. \A j \in Ids : m[j] # NoRequest =>
                 pc'[m[j].call] = "called" /\ outcome[m[j].call] = <<>>
          <5> SUFFICES ASSUME NEW j \in Ids, m[j] # NoRequest
                       PROVE  pc'[m[j].call] = "called" /\ outcome[m[j].call] = <<>>
            OBVIOUS
          <5>1. CASE j = i
            BY <2>1, <2>4, <2>5, <2>8, <5>1
          <5>2. CASE j # i
            <6>1. m[j] = active[j] /\ active[j].call \in Calls /\ active[j].call # c
              BY <2>8, <4>1, <5>2
            <6>2. pc[active[j].call] = "called" /\ outcome[active[j].call] = <<>>
              BY <1>1, <5>2, <6>1 DEF OnceNow, OncePerCall
            <6> QED BY <2>5, <6>1, <6>2
          <5> QED BY <5>1, <5>2
        <4>3. \A j, k \in Ids :
                 m[j] # NoRequest /\ m[k] # NoRequest /\ m[j].call = m[k].call => j = k
          BY <1>1, <2>1, <2>8, <4>1 DEF OnceNow, OncePerCall
        <4>4. \A d \in Calls : Len(outcome[d]) <= 1 /\ (pc'[d] # "called" => outcome[d] = <<>>)
          BY <1>1, <2>5 DEF OnceNow, OncePerCall
        <4> QED BY <4>2, <4>3, <4>4 DEF OncePerCall
      <3>8. i \in Clean
        BY <3>1 DEF Clean
      <3>9. PICK G : G = Clean
        OBVIOUS
      <3> QED BY <1>1, <2>1, <2>8, <2>9, <3>2, <3>3, <3>4, <3>6, <3>7, <3>8, <3>9, ShowServes
    \* The id is in use, or was when an earlier request got it.
    <2>11. CASE i \in mixed'
      <3>1. /\ outcome' = outcome /\ giveup' \in {giveup, giveup \cup {i}}
            /\ active'[i] # NoRequest /\ active'[i].call = c
            /\ \A j \in Ids : j # i => active'[j] = active[j]
        <4>1. ShowDialog(i, m, storing) \/ DenyUnshown(i, m, storing)
          BY <2>6, <2>7, <2>8, <2>9 DEF ShowNextDialog, ShowNothing, Complete
        <4>2. CASE ShowDialog(i, m, storing)
          BY <2>1, <2>7, <2>8, <4>2 DEF ShowDialog
        <4>3. CASE DenyUnshown(i, m, storing)
          <5> DEFINE p == Dialog(i, m[i]).perm
          <5>1. /\ active' = [m EXCEPT ![i] = Answered(r, p, "no")]
                /\ outcome' = outcome /\ giveup' = giveup \cup {i}
            BY <2>8, <4>3 DEF DenyUnshown, Map
          <5>2. p \in Permissions
            BY <2>2, <2>6, <2>8, DialogTyped DEF Shown
          <5> HIDE DEF p
          <5>3. Answered(r, p, "no") \in Request /\ Answered(r, p, "no").call = c
            BY <2>1, <2>2, <5>2, AnsweredTyped
          <5> QED BY <2>8, <5>1, <5>3, NoRequestAssumption DEF Map
        <4> QED BY <4>1, <4>2, <4>3
      <3>2. askers'[i] \subseteq Confused' /\ c \in askers'[i] /\ Confused \subseteq Confused'
        BY <1>1, <2>2, <2>11, CleanShrinks DEF Confused, TypeOK
      <3>3. active[i] # NoRequest => active[i].call \in Confused'
        BY <1>1, <3>2, HistoryGrows DEF AskersKnown, Asked
      <3>4. \A d \in Calls : d \in Confused' => d \in Confused \/ d = c \/ pc[d] = "called"
        <4> SUFFICES ASSUME NEW d \in Calls, d \in Confused', d \notin Confused, d # c
                     PROVE  pc[d] = "called"
          OBVIOUS
        <4>1. PICK j \in mixed' : d \in askers'[j]
          BY DEF Confused
        <4>2. j \in Ids /\ askers \in [Ids -> SUBSET Calls]
          BY <1>1, <2>2, <4>1 DEF TypeOK
        <4>3. d \in askers[j]
          BY <2>2, <4>1, <4>2
        <4> QED BY <1>1, <4>2, <4>3 DEF AskersKnown
      <3>5. \A d \in Calls : d \notin Confused' =>
               (d \in Unanswered(active', giveup') <=> d \in Unanswered(active, giveup))
        <4>1. c \in Confused'
          BY <3>2
        <4> SUFFICES ASSUME NEW d \in Calls, d \notin Confused'
                     PROVE  d \in Unanswered(active', giveup') <=> d \in Unanswered(active, giveup)
          OBVIOUS
        <4>2. d \in Unanswered(active, giveup) <=>
                 \E j \in giveup : j # i /\ active[j] # NoRequest /\ active[j].call = d
          BY <3>3 DEF Unanswered
        <4>3. d \in Unanswered(active', giveup') <=>
                 \E j \in giveup' : j # i /\ active'[j] # NoRequest /\ active'[j].call = d
          BY <3>1, <4>1 DEF Unanswered
        <4>4. \A j \in Ids : j # i => (j \in giveup' <=> j \in giveup)
          BY <3>1
        <4>5. giveup' \subseteq Ids
          BY <1>1, <3>1
        <4> QED BY <1>1, <3>1, <4>2, <4>3, <4>4, <4>5
      <3>6. ASSUME NEW d \in Calls
            PROVE  \/ PhaseNext(d) = PhaseNow(d)
                   \/ PhaseNow(d) \in {"waiting", "unheard"} /\ PhaseNext(d) = "confused"
        <4>1. CASE d = c
          <5>1. PhaseNow(d) = "waiting"
            BY <2>1, <2>4, <4>1 DEF PhaseNow, PhaseOf
          <5>2. PhaseNext(d) = "confused"
            BY <2>4, <2>5, <3>1, <3>2, <4>1 DEF PhaseNext, PhaseOf
          <5> QED BY <5>1, <5>2
        <4>2. CASE d # c /\ d \notin Confused'
          <5>1. pc'[d] = pc[d] /\ d \notin Confused
            BY <2>5, <3>2, <4>2
          <5> QED BY <3>1, <3>5, <4>2, <5>1 DEF PhaseNow, PhaseNext, PhaseOf
        <4>3. CASE d # c /\ d \in Confused'
          <5>1. pc'[d] = pc[d] /\ (d \in Confused \/ pc[d] = "called")
            BY <2>5, <3>4, <4>3
          <5> QED BY <3>1, <4>3, <5>1 DEF PhaseNow, PhaseNext, PhaseOf
        <4> QED BY <4>1, <4>2, <4>3
      <3>7. Service!Next
        BY <1>1, <2>1, <3>1, <3>6, ConfuseServes
      <3> QED BY <3>7
    <2> QED BY <2>10, <2>11
  <1> QED BY <1>2, <1>3, <1>4, <1>5, <1>6 DEF Io

LEMMA ServiceStep ==
    ASSUME DialogAssumption, Kept, [Next]_vars
    PROVE  [Service!Next]_(Service!vars)
  <1>1. /\ TypeOK /\ AskersKnown /\ OnceNow /\ Truthful /\ active \in Map
        /\ giveup \in SUBSET Ids
    BY DEF Kept, DialogInv, TypeOK, Map
  <1>2. ASSUME UNCHANGED <<pc, outcome, active, giveup, sink, askers, mixed, granted>>
        PROVE  UNCHANGED Service!vars
    BY <1>2, HistoryRests, PhasesRest DEF Service!vars
  <1>3. ASSUME NEW c \in Calls, Io(c) PROVE Service!Next \/ UNCHANGED Service!vars
    BY <1>3, IoServes
  <1>4. ASSUME NEW i \in Ids, GiveUp(i) PROVE Service!Next \/ UNCHANGED Service!vars
    <2>1. /\ i \in giveup /\ giveup' = giveup \ {i}
          /\ active' = [active EXCEPT ![i] = NoRequest]
          /\ UNCHANGED <<pc, sink>> /\ UNCHANGED <<Confused, Claimed>>
      BY <1>4, HistoryRests DEF GiveUp, flow, history
    <2>2. CASE active[i] = NoRequest
      <3>1. outcome' = outcome /\ active' = active
        BY <1>1, <1>4, <2>1, <2>2 DEF GiveUp, Map
      <3>2. Unanswered(active', giveup') = Unanswered(active, giveup)
        BY <2>1, <2>2, <3>1 DEF Unanswered
      <3>3. UNCHANGED Phase
        BY <2>1, <3>1, <3>2, Rests DEF PhaseNow, PhaseNext, PhaseOf
      <3> QED BY <2>1, <3>1, <3>3 DEF Service!vars
    <2>3. CASE active[i] # NoRequest
      <3>0. PICK c \in Calls : c = active[i].call
        BY <1>1, <2>3 DEF Map, Request
      <3>1. outcome' = [outcome EXCEPT ![c] = Append(@, NoResults)]
        BY <1>4, <2>3, <3>0 DEF GiveUp
      <3>2. c \in Calls /\ NoResults \in Results
        BY DEF NoResults, Results
      <3>3. pc[c] = "called" /\ outcome[c] = <<>> /\ c \in Unanswered(active, giveup)
        BY <1>1, <2>1, <2>3, <3>0 DEF OnceNow, OncePerCall, Unanswered
      <3>4. /\ outcome'[c] # <<>>
            /\ \A d \in Calls : d # c => outcome'[d] = outcome[d]
        BY <1>1, <3>1, <3>2, Appended
      <3>5. \A d \in Calls : d # c =>
               (d \in Unanswered(active', giveup) <=> d \in Unanswered(active, giveup))
        BY <1>1, <2>1, <3>0, EndUnanswered
      <3>6. Unanswered(active', giveup') = Unanswered(active', giveup)
        <4>1. active'[i] = NoRequest
          BY <1>1, <2>1 DEF Map
        <4> QED BY <2>1, <4>1 DEF Unanswered
      <3>7. \A d \in Calls : PhaseNext(d) = IF d = c THEN "answered" ELSE PhaseNow(d)
        <4> SUFFICES ASSUME NEW d \in Calls
                     PROVE  PhaseNext(d) = IF d = c THEN "answered" ELSE PhaseNow(d)
          OBVIOUS
        <4>1. CASE d = c
          BY <2>1, <3>3, <3>4, <4>1 DEF PhaseNext, PhaseOf
        <4>2. CASE d # c
          BY <2>1, <3>4, <3>5, <3>6, <4>2 DEF PhaseNext, PhaseNow, PhaseOf
        <4> QED BY <4>1, <4>2
      <3>8. PhaseNow(c) = IF c \in Confused THEN "confused" ELSE "unheard"
        BY <3>3 DEF PhaseNow, PhaseOf
      <3>9. Service!Move(c, PhaseNow(c), "answered")
        BY <3>2, <3>7, Moves
      <3>10. Service!CallBack(c, NoResults)
        BY <1>1, <3>1, <3>2, <3>3, CallsBack
      <3>11. c \notin Confused => Service!GiveUp(c)
        BY <2>1, <3>8, <3>9, <3>10 DEF Service!GiveUp, Service!Nothing, NoResults
      <3>12. c \in Confused => Service!AnswerConfused(c)
        <4>1. NoResults \in [Permissions -> {"none", "yes", "no"}]
          BY DEF NoResults
        <4> QED BY <2>1, <3>8, <3>9, <3>10, <4>1 DEF Service!AnswerConfused
      <3> QED BY <3>2, <3>11, <3>12 DEF Service!Next
    <2> QED BY <2>2, <2>3
  <1>5. CASE User \/ Double
    <2>1. PICK d \in dialogs, answer \in {"yes", "no"} :
             /\ Grant(d, answer) /\ d \in Shown
             /\ mixed' = mixed \/ mixed' = mixed \cup {d.id}
      BY <1>1, <1>5, UserPosts
    <2>2. UNCHANGED <<pc, outcome, active, giveup, sink, askers>> /\ d.id \in Ids
      BY <2>1 DEF Grant, Shown
    <2>3. Confused \subseteq Confused'
      BY <1>1, CleanShrinks
    <2>4. ASSUME NEW c \in Calls, c \in Confused' PROVE pc[c] = "called"
      <3>1. PICK i \in mixed' : c \in askers'[i]
        BY <2>4 DEF Confused
      <3>2. i \in Ids /\ c \in askers[i]
        <4>1. mixed \subseteq Ids
          BY <1>1 DEF TypeOK
        <4>2. i \in mixed \/ i = d.id
          BY <2>1, <3>1
        <4> QED BY <2>2, <3>1, <4>1, <4>2
      <3> QED BY <1>1, <3>2 DEF AskersKnown
    <2>5. ASSUME NEW c \in Calls
          PROVE  \/ PhaseNext(c) = PhaseNow(c)
                 \/ PhaseNow(c) \in {"waiting", "unheard"} /\ PhaseNext(c) = "confused"
      <3>1. CASE c \in Confused'
        BY <2>2, <2>4, <3>1 DEF PhaseNow, PhaseNext, PhaseOf
      <3>2. CASE c \notin Confused'
        BY <2>2, <2>3, <3>2 DEF PhaseNow, PhaseNext, PhaseOf
      <3> QED BY <3>1, <3>2
    <2>6. Service!Next
      BY <1>1, <2>2, <2>5, ConfuseServes
    <2> QED BY <2>6
  <1>6. CASE HandlePermissionResponse
    <2> DEFINE a == Head(responses)
    <2>1. /\ responses # <<>> /\ UNCHANGED <<pc, outcome, giveup, sink>>
          /\ UNCHANGED <<askers, mixed, granted>>
      BY <1>6 DEF HandlePermissionResponse, flow, history
    <2>2. CASE active[a.id] = NoRequest
      BY <1>2, <1>6, <2>1, <2>2 DEF HandlePermissionResponse
    <2>3. CASE active[a.id] # NoRequest
      <3>1. active' = [active EXCEPT ![a.id] = Answered(active[a.id], a.perm, a.answer)]
        BY <1>1, <1>6, <2>3 DEF HandlePermissionResponse, Map
      <3>2. a \in Posted
        <4>1. responses \in Seq(Posted)
          BY <1>1 DEF TypeOK, Posted
        <4> QED BY <2>1, <4>1
      <3> HIDE DEF a
      <3>3. a.id \in Ids /\ a.perm \in Permissions /\ a.answer \in {"yes", "no"}
        BY <3>2 DEF Posted
      <3>4. active[a.id] \in Request
        BY <1>1, <2>3, <3>3 DEF Map
      <3>5. \A j \in Ids : /\ active'[j] # NoRequest <=> active[j] # NoRequest
                           /\ active'[j] # NoRequest => active'[j].call = active[j].call
        BY <1>1, <2>3, <3>1, <3>3, <3>4, AnsweredTyped, NoRequestAssumption DEF Map
      <3>6. Unanswered(active', giveup) = Unanswered(active, giveup)
        BY <1>1, <3>5 DEF Unanswered
      <3>7. UNCHANGED <<Confused, Claimed>>
        BY <2>1, HistoryRests
      <3>8. UNCHANGED Phase
        BY <2>1, <3>6, <3>7, Rests DEF PhaseNow, PhaseNext, PhaseOf
      <3> QED BY <2>1, <3>7, <3>8 DEF Service!vars
    <2> QED BY <2>2, <2>3
  <1>7. CASE ListenOrCancel
    <2>1. /\ sink' = ~sink /\ UNCHANGED <<pc, outcome, active, giveup>>
          /\ UNCHANGED <<Confused, Claimed>>
      BY <1>7, HistoryRests DEF ListenOrCancel, flow, history
    <2>2. Service!ListenOrCancel
      BY <2>1, PhasesRest DEF Service!ListenOrCancel
    <2> QED BY <2>2 DEF Service!Next
  <1>8. ASSUME NEW w \in storing, PermissionStored(w)
        PROVE  Service!Next \/ UNCHANGED Service!vars
    <2>1. /\ w.id \in Ids /\ ShowNextDialog(w.id, active, storing \ {w})
          /\ UNCHANGED <<pc, sink>> /\ UNCHANGED <<Confused, Claimed>>
      BY <1>8, StoredIsFree, HistoryRests DEF Kept, DialogInv
    <2>2. PICK G : G = Clean
      OBVIOUS
    <2>3. /\ active[w.id] # NoRequest /\ w.id \in G => DecidedOrAhead(active[w.id])
          /\ active[w.id] # NoRequest /\ w.id \notin G => active[w.id].call \in Confused
      BY <1>1, <2>1, <2>2 DEF Kept, DialogInv, Ordered, InOrder, AskersKnown, Asked,
                              Clean, Confused
    <2>4. \A c \in Calls : PhaseOf(c, pc', outcome, active, giveup, Confused) = PhaseNow(c)
      BY <2>1 DEF PhaseNow
    <2>5. OncePerCall(pc', active, outcome) /\ AllTrue(G, active, Claimed)
      BY <1>1, <2>1, <2>2 DEF OnceNow, Truthful
    <2> QED BY <1>1, <2>1, <2>3, <2>4, <2>5, ShowServes
  <1>9. CASE UNCHANGED vars
    BY <1>2, <1>9 DEF vars, flow, history
  <1> QED BY <1>3, <1>4, <1>5, <1>6, <1>7, <1>8, <1>9 DEF Next

\* With its dialogs, its ids made of the time, the store and the three threads
\* the code keeps the promise of PermissionService: a call is called back once at
\* most, with every decision its application needs and no yes that the user has
\* not given, or with nothing if Flutter did not listen when somebody should have
\* been asked.  Calls that share an id, or are answered twice, are confused; that
\* harms no call under another id.
THEOREM DialogsKeepPromise == Spec => Service!Spec
  <1>1. Init => Kept
    <2> SUFFICES ASSUME Init PROVE Kept
      OBVIOUS
    <2>1. DialogInv
      BY InvariantInit
    <2>2. /\ \A i \in Ids : active[i] = NoRequest
          /\ \A c \in Calls : outcome[c] = <<>>
          /\ giveup = {}
          /\ \A c \in Calls, p \in Permissions : found[c][p] = "pending"
      BY DEF Init
    <2> QED BY <2>1, <2>2 DEF Kept, OnceNow, OncePerCall, Truthful, AllTrue, FoundTrue
  <1>2. Kept /\ [Next]_vars => Kept'
    <2> SUFFICES ASSUME Kept, [Next]_vars PROVE Kept'
      OBVIOUS
    <2>1. DialogInv'
      BY InvariantStep DEF Kept
    <2>2. OnceNow'
      BY OnceStep, DialogAssumption DEF Kept, DialogInv, OnceNow
    <2>3. Truthful'
      BY TruthStep, DialogAssumption DEF Kept
    <2> QED BY <2>1, <2>2, <2>3 DEF Kept
  <1>3. Kept /\ [Next]_vars => [Service!Next]_(Service!vars)
    BY ServiceStep, DialogAssumption
  <1> QED BY <1>1, <1>2, <1>3, ServiceInit, PTL DEF Spec, Service!Spec
=============================================================================
