------------------------- MODULE StartCommandProofs -------------------------
(***************************************************************************)
(* What resolveLiskCoreStartCommand returns, for answers of any length:    *)
(* the flags that the loop of validateStartCommandFlags lets pass have the *)
(* shape of a command line.                                                *)
(***************************************************************************)
EXTENDS StartCommand, ListLemmas

(***************************************************************************)
(* The loop over the words                                                 *)
(***************************************************************************)
\* P[k] is the verdict after k words.
VerdictsOf(P, words) ==
    /\ P \in [0..Len(words) -> Verdicts]
    /\ P[0] = "clear"
    /\ \A k \in 1..Len(words) : P[k] = Read(words[k], P[k - 1], k = Len(words))
    /\ P[Len(words)] = Verdict(words)

\* A verdict is followed by a verdict.
LEMMA ReadTyped ==
    ASSUME NEW w, NEW verdict \in Verdicts, NEW isLast
    PROVE  Read(w, verdict, isLast) \in Verdicts
  BY DEF Read, Verdicts

\* The fold of validateStartCommandFlags, word by word.
LEMMA VerdictPrefix ==
    ASSUME NEW words \in Seq(Words)
    PROVE  \E P : VerdictsOf(P, words)
<1> DEFINE n == Len(words)
           Step == [q \in (1..n) \X Verdicts |-> Read(words[q[1]], q[2], q[1] = n)]
           Solves(iter) == iter = [t \in SUBSET (1..n) |->
                               IF t = {} THEN "clear"
                               ELSE Read(words[Max(t)], iter[t \ {Max(t)}], Max(t) = n)]
           Solution == CHOOSE iter : Solves(iter)
<1>1. n \in Nat /\ DOMAIN words = 1..n
  OBVIOUS
<1>2. Verdict(words) = Solution[1..n]
  <2> DEFINE domain == [i \in DOMAIN words |-> i]
             iterOf(iter) == iter = [t \in SUBSET (DOMAIN domain) |->
                                 IF t = {} THEN "clear"
                                 ELSE Read(words[domain[Max(t)]], iter[t \ {Max(t)}],
                                           domain[Max(t)] = Len(words))]
  <2>1. Verdict(words) = (CHOOSE iter : iterOf(iter))[DOMAIN domain]
    BY DEF Verdict, FoldLeftDomain, FoldLeft, MapThenFoldSet
  <2>2. DOMAIN domain = 1..n
    BY <1>1
  <2>3. \A t \in SUBSET (1..n) : t # {} => domain[Max(t)] = Max(t)
    BY <1>1, MaxOfInterval
  <2>4. \A iter : [t \in SUBSET (DOMAIN domain) |->
                      IF t = {} THEN "clear"
                      ELSE Read(words[domain[Max(t)]], iter[t \ {Max(t)}],
                                domain[Max(t)] = Len(words))]
                  = [t \in SUBSET (1..n) |->
                      IF t = {} THEN "clear"
                      ELSE Read(words[Max(t)], iter[t \ {Max(t)}], Max(t) = n)]
    BY <2>2, <2>3
  <2>5. \A iter : iterOf(iter) <=> Solves(iter)
    BY <2>4
  <2>6. (CHOOSE iter : iterOf(iter)) = Solution
    <3> HIDE DEF iterOf, Solves
    <3> QED BY <2>5
  <2> QED BY <2>1, <2>2, <2>6
<1>3. Step \in [(1..n) \X Verdicts -> Verdicts]
  <2>1. \A q \in (1..n) \X Verdicts : Read(words[q[1]], q[2], q[1] = n) \in Verdicts
    BY ReadTyped
  <2> QED BY <2>1
<1>4. PICK G : IsFold(G, n, Verdicts, "clear", Step)
  <2> HIDE DEF Step
  <2>1. "clear" \in Verdicts
    BY DEF Verdicts
  <2> QED BY <1>1, <1>3, <2>1, FoldExists
<1>5. Solves(G)
  <2>1. ASSUME NEW t \in SUBSET (1..n), t # {}
        PROVE  G[t] = Read(words[Max(t)], G[t \ {Max(t)}], Max(t) = n)
    <3>1. Max(t) \in 1..n
      BY <1>1, <2>1, MaxOfInterval
    <3>2. G[t \ {Max(t)}] \in Verdicts
      BY <1>4 DEF IsFold
    <3> QED BY <2>1, <1>4, <3>1, <3>2 DEF IsFold
  <2> QED BY <2>1, <1>4 DEF IsFold
<1>6. Solves(Solution)
  <2> HIDE DEF Solves
  <2> QED BY <1>5
<1>7. Solution[{}] = "clear"
  <2> HIDE DEF Solution
  <2> QED BY <1>6
<1>8. ASSUME NEW k \in 1..n
      PROVE  Solution[1..k] = Read(words[k], Solution[1..(k - 1)], k = n)
  <2> HIDE DEF Solution
  <2>1. /\ 1..k \in SUBSET (1..n) /\ 1..k # {}
        /\ Max(1..k) = k
        /\ (1..k) \ {k} = 1..(k - 1)
    BY <1>1, Interval
  <2>2. Solution[1..k] = Read(words[Max(1..k)], Solution[(1..k) \ {Max(1..k)}], Max(1..k) = n)
    BY <1>6, <2>1
  <2> QED BY <2>1, <2>2
<1> DEFINE P == [k \in 0..n |-> Solution[1..k]]
<1>9. P[0] = "clear" /\ P[n] = Verdict(words)
      /\ \A k \in 1..n : P[k] = Read(words[k], P[k - 1], k = n)
  <2>1. 1..0 = {}
    OBVIOUS
  <2> HIDE DEF Solution, n
  <2> QED BY <1>1, <1>2, <1>7, <1>8, <2>1
<1>10. P \in [0..n -> Verdicts]
  <2> DEFINE B == {k \in 0..n : P[k] \in Verdicts}
  <2> HIDE DEF P, n
  <2>1. 0 \in B
    BY <1>1, <1>9 DEF Verdicts
  <2>2. \A k \in 0..(n - 1) : k \in B => k + 1 \in B
    <3> TAKE k \in 0..(n - 1)
    <3>1. k + 1 \in 1..n /\ k + 1 - 1 = k /\ k + 1 \in 0..n
      BY <1>1
    <3> QED BY <1>9, <3>1, ReadTyped
  <2> HIDE DEF B
  <2>3. \A k \in 0..n : k \in B
    BY <1>1, <2>1, <2>2, Induction
  <2>4. \A k \in 0..n : P[k] \in Verdicts
    BY <2>3 DEF B
  <2> HIDE DEF Solution
  <2> QED BY <2>4 DEF P
<1> HIDE DEF P, Solution
<1> QED BY <1>9, <1>10 DEF VerdictsOf

\* What was not rejected after all the words was not rejected before.
LEMMA NeverRejected ==
    ASSUME NEW words \in Seq(Words), validateStartCommandFlags(words),
           NEW P, VerdictsOf(P, words)
    PROVE  \A k \in 0..Len(words) : P[k] # "rejected"
<1> DEFINE n == Len(words)
           B == {d \in 0..n : P[n - d] # "rejected"}
<1>1. n \in Nat
  OBVIOUS
<1> HIDE DEF n
<1>2. 0 \in B
  BY <1>1 DEF VerdictsOf, validateStartCommandFlags, n
<1>3. \A d \in 0..(n - 1) : d \in B => d + 1 \in B
  <2> TAKE d \in 0..(n - 1)
  <2>1. n - d \in 1..n /\ n - d - 1 = n - (d + 1) /\ d + 1 \in 0..n
    BY <1>1
  <2>2. P[n - d] = Read(words[n - d], P[n - (d + 1)], n - d = n)
    BY <2>1 DEF VerdictsOf, n
  <2> QED BY <2>1, <2>2 DEF Read
<1> HIDE DEF B
<1>4. \A d \in 0..n : d \in B
  BY <1>1, <1>2, <1>3, Induction
<1>5. ASSUME NEW k \in 0..n PROVE P[k] # "rejected"
  <2>1. n - k \in 0..n /\ n - (n - k) = k
    BY <1>1
  <2> QED BY <1>4, <2>1 DEF B
<1> QED BY <1>5 DEF n

\* What validateStartCommandFlags takes has the shape of a command line: words
\* are values, options have values, and nothing is unknown.
THEOREM AcceptedIsWellFormed ==
    ASSUME NEW words \in Seq(Words), validateStartCommandFlags(words)
    PROVE  WellFormed(words)
<1> DEFINE n == Len(words)
<1>1. n \in Nat /\ DOMAIN words = 1..n /\ \A i \in 1..n : words[i] \in Words
  OBVIOUS
<1>2. PICK P : VerdictsOf(P, words)
  BY VerdictPrefix
<1>3. /\ P[0] = "clear"
      /\ \A k \in 1..n : P[k] = Read(words[k], P[k - 1], k = n)
      /\ \A k \in 0..n : P[k] # "rejected" /\ P[k] \in Verdicts
  BY <1>2, NeverRejected DEF VerdictsOf
<1> HIDE DEF n
<1>4. ASSUME NEW i \in 1..n
      PROVE  /\ words[i] \notin {"unknown", "network"}
             /\ NeedsValue(words[i]) => i < n /\ P[i] = "expected"
             /\ P[i] = "expected" => NeedsValue(words[i])
             /\ IsFlag(words[i]) => P[i - 1] # "expected"
             /\ words[i] = "word" => P[i - 1] = "expected"
  <2>1. i \in 0..n /\ i - 1 \in 0..n /\ i <= n
    BY <1>1
  <2>2. P[i] = Read(words[i], P[i - 1], i = n)
    BY <1>3
  <2>3. P[i] # "rejected" /\ P[i - 1] # "rejected"
    BY <1>3, <2>1
  <2>4. words[i] \in Words
    BY <1>1
  <2>5. words[i] # "network"
    BY <2>2, <2>3 DEF Read, IsFlag
  <2>6. CASE IsFlag(words[i])
    <3>1. ~Refused(words[i], P[i - 1], i = n)
      BY <2>2, <2>3, <2>5, <2>6 DEF Read
    <3>2. P[i] = IF NeedsValue(words[i]) THEN "expected" ELSE P[i - 1]
      BY <2>2, <2>3, <2>5, <2>6, <3>1 DEF Read
    <3>3. words[i] # "word"
      BY <2>6 DEF IsFlag
    <3>4. i < n
      BY <1>1, <2>1, <3>1 DEF Refused
    <3> QED BY <2>5, <3>1, <3>2, <3>3, <3>4 DEF Refused
  <2>7. CASE ~IsFlag(words[i])
    <3>1. P[i] = IF P[i - 1] = "expected" THEN "clear" ELSE "rejected"
      BY <2>2, <2>3, <2>5, <2>7 DEF Read
    <3> QED BY <2>3, <2>5, <2>7, <3>1 DEF IsFlag, NeedsValue
  <2> QED BY <2>6, <2>7
<1>5. ASSUME NEW i \in 1..n, NeedsValue(words[i])
      PROVE  i < n /\ words[i + 1] = "word"
  <2>1. i < n /\ P[i] = "expected"
    BY <1>4, <1>5
  <2>2. i + 1 \in 1..n /\ i + 1 - 1 = i
    BY <1>1, <2>1
  <2>3. ~IsFlag(words[i + 1]) /\ words[i + 1] # "network"
    BY <1>4, <2>1, <2>2
  <2> QED BY <1>1, <2>1, <2>2, <2>3 DEF Words, IsFlag
<1>6. ASSUME NEW i \in 1..n, words[i] = "word"
      PROVE  i > 1 /\ NeedsValue(words[i - 1])
  <2>1. P[i - 1] = "expected"
    BY <1>4, <1>6
  <2>2. i # 1
    BY <1>3, <2>1
  <2>3. i > 1 /\ i - 1 \in 1..n
    BY <1>1, <2>2
  <2> QED BY <1>4, <2>1, <2>3
<1> QED BY <1>1, <1>4, <1>5, <1>6 DEF WellFormed, n

(***************************************************************************)
(* The dialogue                                                            *)
(***************************************************************************)
\* The tries last as long as the loop, and a custom command is an answer that
\* was validated after it was typed.
Inv ==
    /\ TypeOK
    /\ pc \in {"prompt", "confirm"} => numTriesLeft = 3
    /\ pc = "validate" => numTriesLeft > 0
    /\ startCmd = "custom" => pc = "done" /\ validateStartCommandFlags(userInput)

\* The dialogue starts with all the tries.
LEMMA InitInv == Init => Inv
<1>1. <<"word">> \in Seq(Words)
  <2>1. "word" \in Words
    BY DEF Words
  <2> QED BY <2>1
<1> QED BY <1>1 DEF Init, Inv, TypeOK, Nothing

\* Each step keeps the invariant.
LEMMA StepInv == Inv /\ [Next]_vars => Inv'
<1> SUFFICES ASSUME Inv, [Next]_vars PROVE Inv'
  OBVIOUS
<1> USE DEF Inv, TypeOK
<1>1. \A a \in Answers : a \in Seq(Words)
  BY AnswersAssumption
<1>2. CASE Confirm
  BY <1>2 DEF Confirm
<1>3. CASE Prompt
  BY <1>1, <1>3 DEF Prompt
<1>4. CASE Validate
  BY <1>4 DEF Validate, TriesAfter, TakesAnswer
<1>5. CASE PromptAgain
  BY <1>1, <1>5 DEF PromptAgain, LoopAgain
<1>6. CASE LeaveLoop
  BY <1>6 DEF LeaveLoop
<1>7. CASE UNCHANGED vars
  BY <1>7 DEF vars
<1> QED BY <1>2, <1>3, <1>4, <1>5, <1>6, <1>7 DEF Next

\* The invariant holds of every dialogue.
THEOREM DialogueInvariant == Spec => []Inv
  BY InitInv, StepInv, PTL DEF Spec

\* For any answers, the tries stay in 0..3 and an answer is a sequence of words.
THEOREM TypeCorrect == Spec => []TypeOK
  BY DialogueInvariant, PTL DEF Inv

\* For answers of any length, a customized start command has the shape of a
\* command line: the loop lets no other pass, and it is the last answer that was
\* validated.
THEOREM CustomCommandIsCommand == Spec => []CustomCommandWellFormed
<1>1. Inv => CustomCommandWellFormed
  BY AcceptedIsWellFormed DEF Inv, TypeOK, CustomCommandWellFormed
<1> QED BY <1>1, DialogueInvariant, PTL
=============================================================================
