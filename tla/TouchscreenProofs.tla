------------------------- MODULE TouchscreenProofs --------------------------
(***************************************************************************)
(* Proofs about Touchscreen, for every set of texts, lists of every length *)
(* and every combination of builds and troubles.                           *)
(***************************************************************************)
EXTENDS Touchscreen, FiniteSetTheorems, SequenceTheorems, TLAPS

EntryKinds == {"text", "empty", "other"}

\* The kind of pointer that an entry of the request becomes.
PointerTo(entry) == IF entry = "empty" THEN "slot" ELSE "json"

(***************************************************************************)
(* The semaphore is up only between a text and the end of its prompt, and  *)
(* a prompt starts only after the display thread has initialised it: the   *)
(* late k_sem_init of SemInit cannot take the text of a prompt away.       *)
(***************************************************************************)
SemInv ==
  /\ pc \in {"boot", "serve", "read", "prompt", "fault"}
  /\ displayPc \in {"init", "label", "done"}
  /\ sem \in {0, 1}
  /\ pc # "prompt" => sem = 0
  /\ pc = "prompt" => displayPc # "init"

\* passwords[] and what was typed, against the entries of the request.
ListInv ==
  /\ passwords \in Seq({"json", "slot"})
  /\ typed \in Seq(Texts \cup {NoText})
  /\ pc \in {"read", "prompt"} =>
       /\ request.passwords \in Seq(EntryKinds)
       /\ Len(passwords) <= Len(request.passwords)
       /\ \A i \in 1 .. Len(passwords) : passwords[i] = PointerTo(request.passwords[i])

PromptInv ==
  /\ pc = "prompt" =>
       /\ ~AllRead /\ Entry = "empty"
       /\ Len(typed) = Cardinality(Prompts(passwords)) + 1
       /\ sem = 0 => typed[Len(typed)] = NoText
       /\ sem = 1 => typed[Len(typed)] \in Texts /\ pwd = typed[Len(typed)]
  /\ pc = "read" =>
       /\ Len(typed) = Cardinality(Prompts(passwords))
       /\ typed # << >> => ts_pwd = typed[Len(typed)]

\* The entries of a list are a sequence.
LEMMA EntriesAreSeq ==
  ASSUME NEW lists \in Lists
  PROVE  lists.passwords \in Seq(EntryKinds)
<1>1. PICK n \in 1 .. MaxPasswords : lists.passwords \in [1 .. n -> EntryKinds]
  BY DEF Lists, EntryKinds
<1>2. n \in Nat
  BY TouchscreenAssumption
<1>3. QED
  BY <1>1, <1>2, SeqDef

\* One more pointer to the slot is one more prompt; another pointer is none.
LEMMA PromptsAppend ==
  ASSUME NEW kinds \in Seq({"json", "slot"}), NEW kind \in {"json", "slot"}
  PROVE  /\ IsFiniteSet(Prompts(kinds)) /\ Cardinality(Prompts(kinds)) \in Nat
         /\ Cardinality(Prompts(Append(kinds, kind))) =
              Cardinality(Prompts(kinds)) + IF kind = "slot" THEN 1 ELSE 0
<1> DEFINE n == Len(kinds)
<1>1. n \in Nat /\ DOMAIN kinds = 1 .. n
  OBVIOUS
<1>2. IsFiniteSet(1 .. n)
  BY <1>1, FS_Interval
<1>3. IsFiniteSet(Prompts(kinds)) /\ Cardinality(Prompts(kinds)) \in Nat
  BY <1>1, <1>2, FS_Subset, FS_CardinalityType DEF Prompts
<1>4. CASE kind = "slot"
  <2>1. Prompts(Append(kinds, kind)) = Prompts(kinds) \cup {n + 1}
    BY <1>1, <1>4 DEF Prompts
  <2>2. n + 1 \notin Prompts(kinds)
    BY <1>1 DEF Prompts
  <2>3. QED
    BY <1>3, <1>4, <2>1, <2>2, FS_AddElement
<1>5. CASE kind = "json"
  <2>1. Prompts(Append(kinds, kind)) = Prompts(kinds)
    BY <1>1, <1>5 DEF Prompts
  <2>2. QED
    BY <1>3, <1>5, <2>1
<1>6. QED
  BY <1>3, <1>4, <1>5

\* At the start of a request there were no prompts.
LEMMA NoPrompts == Cardinality(Prompts(<< >>)) = 0
<1>1. Prompts(<< >>) = {}
  BY DEF Prompts
<1>2. QED
  BY <1>1, FS_EmptySet

-----------------------------------------------------------------------------
\* Every step keeps SemInv.
LEMMA SemInductive == SemInv /\ [Next]_vars => SemInv'
<1> SUFFICES ASSUME SemInv, [Next]_vars
             PROVE  SemInv'
  OBVIOUS
<1> USE DEF SemInv, display
<1>1. CASE Display
  BY <1>1 DEF Display, SemInit, createLabel, MainSleeps
<1>2. ASSUME NEW lists, Receive(lists)
      PROVE  SemInv'
  BY <1>2 DEF Receive
<1>3. CASE Boot \/ GivenPassword \/ BadEntry \/ Import
  BY <1>3 DEF Boot, GivenPassword, BadEntry, Import, Pending
<1>4. CASE request_text_kb
  BY <1>4 DEF request_text_kb, Pending
<1>5. CASE get_text_kb
  BY <1>5 DEF get_text_kb
<1>6. ASSUME NEW text, ta_event_cb(text)
      PROVE  SemInv'
  BY <1>6 DEF ta_event_cb
<1>7. CASE UNCHANGED vars
  BY <1>7 DEF vars
<1>8. QED
  BY <1>1, <1>2, <1>3, <1>4, <1>5, <1>6, <1>7 DEF Next, Main, User

\* Every step keeps the lists in order.
LEMMA ListInductive == SemInv /\ ListInv /\ PromptInv /\ [Next]_vars => ListInv'
<1> SUFFICES ASSUME SemInv, ListInv, PromptInv, [Next]_vars
             PROVE  ListInv'
  OBVIOUS
<1> USE DEF ListInv, display
<1>1. CASE Display
  BY <1>1 DEF Display, SemInit, createLabel
<1>2. ASSUME NEW lists \in Lists, Receive(lists)
      PROVE  ListInv'
  <2>1. lists.passwords \in Seq(EntryKinds)
    BY EntriesAreSeq
  <2>2. /\ passwords' = << >> /\ typed' = << >> /\ request' = lists
    BY <1>2 DEF Receive
  <2>3. QED
    BY <2>1, <2>2
<1>3. CASE Boot \/ BadEntry \/ Import
  BY <1>3 DEF Boot, BadEntry, Import
<1>4. CASE GivenPassword
  <2>1. /\ pc = "read" /\ ~AllRead /\ Entry = "text"
        /\ passwords' = Append(passwords, "json")
        /\ UNCHANGED <<pc, request, typed>>
    BY <1>4 DEF GivenPassword, Pending
  <2>2. Len(passwords) < Len(request.passwords)
    BY <2>1 DEF AllRead
  <2>3. "json" = PointerTo(request.passwords[Len(passwords) + 1])
    BY <2>1 DEF Entry, PointerTo
  <2>4. QED
    BY <2>1, <2>2, <2>3
<1>5. CASE request_text_kb
  <2>1. /\ pc = "read" /\ typed' = Append(typed, NoText)
        /\ UNCHANGED <<request, passwords>>
    BY <1>5 DEF request_text_kb, Pending
  <2>2. QED
    BY <2>1
<1>6. CASE get_text_kb
  <2>1. /\ pc = "prompt" /\ ~AllRead /\ Entry = "empty"
        /\ passwords' = Append(passwords, "slot")
        /\ pc' = "read" /\ UNCHANGED <<request, typed>>
    BY <1>6 DEF get_text_kb, PromptInv
  <2>2. Len(passwords) < Len(request.passwords)
    BY <2>1 DEF AllRead
  <2>3. "slot" = PointerTo(request.passwords[Len(passwords) + 1])
    BY <2>1 DEF Entry, PointerTo
  <2>4. QED
    BY <2>1, <2>2, <2>3
<1>7. ASSUME NEW text \in Texts, ta_event_cb(text)
      PROVE  ListInv'
  <2>1. /\ typed' = [typed EXCEPT ![Len(typed)] = text]
        /\ pc = "prompt" /\ UNCHANGED <<pc, request, passwords>>
    BY <1>7 DEF ta_event_cb
  <2>2. typed' \in Seq(Texts \cup {NoText})
    <3>1. Cardinality(Prompts(passwords)) \in Nat
      BY PromptsAppend
    <3>2. Len(typed) \in 1 .. Len(typed)
      BY <2>1, <3>1 DEF PromptInv
    <3>3. QED
      BY <2>1, <3>2, ExceptSeq
  <2>3. QED
    BY <2>1, <2>2
<1>8. CASE UNCHANGED vars
  BY <1>8 DEF vars
<1>9. QED
  BY <1>1, <1>2, <1>3, <1>4, <1>5, <1>6, <1>7, <1>8 DEF Next, Main, User

\* Every step keeps PromptInv.
LEMMA PromptInductive == SemInv /\ ListInv /\ PromptInv /\ [Next]_vars => PromptInv'
<1> SUFFICES ASSUME SemInv, ListInv, PromptInv, [Next]_vars
             PROVE  PromptInv'
  OBVIOUS
<1> USE DEF PromptInv, AllRead, Entry
<1>1. CASE Display
  BY <1>1 DEF Display, SemInit, createLabel, SemInv
<1>2. ASSUME NEW lists, Receive(lists)
      PROVE  PromptInv'
  BY <1>2, NoPrompts DEF Receive
<1>3. CASE Boot \/ BadEntry \/ Import
  BY <1>3 DEF Boot, BadEntry, Import
<1>4. CASE GivenPassword
  <2>1. /\ pc = "read" /\ passwords' = Append(passwords, "json")
        /\ UNCHANGED <<pc, typed, ts_pwd>>
    BY <1>4 DEF GivenPassword, Pending
  <2>2. Cardinality(Prompts(passwords')) = Cardinality(Prompts(passwords))
    BY <2>1, PromptsAppend DEF ListInv
  <2>3. QED
    BY <2>1, <2>2
<1>5. CASE request_text_kb
  <2>1. /\ pc = "read" /\ ~AllRead /\ Entry = "empty" /\ pc' \in {"fault", "prompt"}
        /\ typed' = Append(typed, NoText)
        /\ UNCHANGED <<request, passwords, sem>>
    BY <1>5 DEF request_text_kb, Pending
  <2>2. Len(typed') = Len(typed) + 1 /\ typed'[Len(typed')] = NoText
    BY <2>1 DEF ListInv
  <2>3. sem' = 0
    BY <2>1 DEF SemInv
  <2>4. QED
    BY <2>1, <2>2, <2>3
<1>6. CASE get_text_kb
  <2>1. /\ pc = "prompt" /\ sem = 1 /\ pc' = "read" /\ ts_pwd' = pwd
        /\ passwords' = Append(passwords, "slot") /\ typed' = typed
    BY <1>6 DEF get_text_kb
  <2>2. Cardinality(Prompts(passwords')) = Cardinality(Prompts(passwords)) + 1
    BY <2>1, PromptsAppend DEF ListInv
  <2>3. QED
    BY <2>1, <2>2
<1>7. ASSUME NEW text \in Texts, ta_event_cb(text)
      PROVE  PromptInv'
  <2>1. /\ typed' = [typed EXCEPT ![Len(typed)] = text] /\ pwd' = text
        /\ pc = "prompt" /\ sem' = 1 /\ UNCHANGED <<pc, request, passwords>>
    BY <1>7 DEF ta_event_cb
  <2>2. Cardinality(Prompts(passwords)) \in Nat
    BY PromptsAppend DEF ListInv
  <2>3. Len(typed') = Len(typed) /\ typed'[Len(typed)] = text
    BY <2>1, <2>2 DEF ListInv
  <2>4. QED
    BY <2>1, <2>3
<1>8. CASE UNCHANGED vars
  BY <1>8 DEF vars, display
<1>9. QED
  BY <1>1, <1>2, <1>3, <1>4, <1>5, <1>6, <1>7, <1>8 DEF Next, Main, User

\* What the theorem about prompts rests on, in every reachable state.
LEMMA PromptInvariant == Spec => [](SemInv /\ ListInv /\ PromptInv)
<1>1. Init => SemInv /\ ListInv /\ PromptInv
  BY DEF Init, SemInv, ListInv, PromptInv
<1>2. QED
  BY <1>1, SemInductive, ListInductive, PromptInductive, PTL DEF Spec

(***************************************************************************)
(* Whatever the order in which the display thread, main and the user take  *)
(* their steps, a prompt ends only with the text that was typed for it.    *)
(***************************************************************************)
THEOREM PromptsAreFresh == Spec => []PromptFresh
<1>1. SemInv /\ ListInv /\ PromptInv => PromptFresh
  BY TouchscreenAssumption DEF SemInv, ListInv, PromptInv, PromptFresh
<1>2. QED
  BY <1>1, PromptInvariant, PTL
=============================================================================
