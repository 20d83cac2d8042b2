---------------------------- MODULE StartCommand ----------------------------
(***************************************************************************)
(* How the start command of Lisk Core v4 is agreed on with the operator:   *)
(* resolveLiskCoreStartCommand and validateStartCommandFlags               *)
(* (src/utils/node.ts).  An answer is the sequence of its words, split at  *)
(* spaces and equal signs; of a word only its kind matters.                *)
(***************************************************************************)
EXTENDS Naturals, Sequences, SequencesExt

CONSTANT Answers  \* the answers the operator may type

\* A flag `lisk-core start --help` lists without and with a value, one it does
\* not list but that is part of a listed option, another one, the network flag,
\* and a word that is no flag.
Words == {"switch", "option", "part", "unknown", "network", "word"}

ASSUME AnswersAssumption == Answers \subseteq Seq(Words) \ {<<>>}

IsFlag(w) == w \in {"switch", "option", "part", "unknown"}

\* The line of the help text that includes the flag ends with a value.
NeedsValue(w) == w \in {"option", "part"}

(***************************************************************************)
(* validateStartCommandFlags                                               *)
(***************************************************************************)
\* The loop's state after a word: rejected, or isOptionOrValueExpected.
Verdicts == {"rejected", "expected", "clear"}

\* Mutant: a flag where a value is due is taken for another flag.
Refused_NotExpected(w, verdict, isLast) == w = "unknown" \/ isLast

\* Unknown flag, value due for the flag before, or nothing after this flag.
Refused(w, verdict, isLast) == w = "unknown" \/ verdict = "expected" \/ isLast

Read(w, verdict, isLast) ==
    CASE verdict = "rejected" -> "rejected"
      [] verdict # "rejected" /\ w = "network" -> "rejected"
      [] verdict # "rejected" /\ IsFlag(w) ->
             IF Refused(w, verdict, isLast) THEN "rejected"
             ELSE IF NeedsValue(w) THEN "expected" ELSE verdict
      [] OTHER -> IF verdict = "expected" THEN "clear" ELSE "rejected"

Verdict(words) ==
    FoldLeftDomain(LAMBDA verdict, i : Read(words[i], verdict, i = Len(words)),
                   "clear", words)

validateStartCommandFlags(words) == Verdict(words) # "rejected"

(***************************************************************************)
(* The dialogue                                                            *)
(***************************************************************************)
VARIABLES
    pc,
    userInput,
    numTriesLeft,
    startCmd       \* "none", "default", "custom" or "base"

vars == <<pc, userInput, numTriesLeft, startCmd>>

Nothing == <<"word">>

Init ==
    /\ pc = "confirm" /\ userInput = Nothing /\ numTriesLeft = 3
    /\ startCmd = "none"

\* Would you like to customize the start command?
Confirm ==
    /\ pc = "confirm"
    /\ \/ pc' = "done" /\ startCmd' = "default"
       \/ pc' = "prompt" /\ UNCHANGED startCmd
    /\ UNCHANGED <<userInput, numTriesLeft>>

\* The flags, and then the ones `lisk-core start --help` lists, which may fail.
Prompt ==
    /\ pc = "prompt"
    /\ userInput' \in Answers
    /\ pc' \in {"validate", "failed"}
    /\ UNCHANGED <<numTriesLeft, startCmd>>

TakesAnswer == validateStartCommandFlags(userInput)

\* Mutant: the tries are not counted.
TriesAfter_Same == numTriesLeft

TriesAfter == numTriesLeft - 1

\* numTriesLeft >= 0 is always true here: the operator is asked again after
\* the third invalid answer too, and the error behind it is out of reach.
Validate ==
    /\ pc = "validate"
    /\ numTriesLeft' = TriesAfter
    /\ IF TakesAnswer
       THEN pc' = "done" /\ startCmd' = "custom"
       ELSE pc' = "again" /\ UNCHANGED startCmd
    /\ UNCHANGED userInput

\* Mutant: the loop does not end at 0.
LoopAgain_Always == "validate"

LoopAgain == IF numTriesLeft > 0 THEN "validate" ELSE "leave"

PromptAgain ==
    /\ pc = "again"
    /\ userInput' \in Answers
    /\ pc' = LoopAgain
    /\ UNCHANGED <<numTriesLeft, startCmd>>

\* After the loop customStartCommand is still the bare command.
LeaveLoop ==
    /\ pc = "leave"
    /\ pc' = "done" /\ startCmd' = "base"
    /\ UNCHANGED <<userInput, numTriesLeft>>

Next == Confirm \/ Prompt \/ Validate \/ PromptAgain \/ LeaveLoop

Spec == Init /\ [][Next]_vars
FairSpec == Spec /\ WF_vars(Next)

(***************************************************************************)
(* Properties                                                              *)
(***************************************************************************)
TypeOK ==
    /\ pc \in {"confirm", "prompt", "validate", "again", "leave", "done", "failed"}
    /\ userInput \in Seq(Words) /\ numTriesLeft \in 0..3
    /\ startCmd \in {"none", "default", "custom", "base"}

\* What a start command line may look like: every option with its value,
\* no value without an option, no flag out of thin air and no network.
WellFormed(words) ==
    \A i \in DOMAIN words :
        /\ words[i] \notin {"unknown", "network"}
        /\ NeedsValue(words[i]) => i < Len(words) /\ words[i + 1] = "word"
        /\ words[i] = "word" => i > 1 /\ NeedsValue(words[i - 1])

\* A customized start command has the shape of a command line, however many
\* answers it took.
CustomCommandWellFormed == startCmd = "custom" => WellFormed(userInput)

\* The dialogue comes to an end, whatever is answered: each wrong answer costs one
\* of the three tries, although the loop never gets to its error.
DialogueEnds == <>(pc \in {"done", "failed"})
=============================================================================
