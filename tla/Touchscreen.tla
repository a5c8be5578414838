---------------------------- MODULE Touchscreen -----------------------------
(***************************************************************************)
(* The passwords of an import in a build with TOUCHSCREEN (lib/            *)
(* touchscreen.c and httpImportFromKeystore of lib/httpRemote.h): for an   *)
(* empty password main shows a keyboard and waits for the user.            *)
(*                                                                         *)
(* Two threads share the screen and the semaphore: the display thread      *)
(* (priority 7), which only runs ts_init, and main, which has the higher   *)
(* priority: the display thread runs while main sleeps.  The callback of   *)
(* the text area runs in main, inside lv_task_handler.                     *)
(***************************************************************************)
EXTENDS Integers, Sequences, FiniteSets

CONSTANTS
  Texts,         \* what the user may type
  NoText,        \* a buffer nothing was written to
  InRequest,     \* a password that the request holds
  MaxPasswords,  \* bound: entries of the lists of a request
  Settings       \* builds and troubles

Troubles ==
  {"slow_boot",    \* the host opens the port before the display thread is done
   "no_display",   \* device_is_ready(display_dev) is false
   "blocks"}       \* main sleeps while it waits for a request (WiFi build)

ASSUME TouchscreenAssumption ==
  /\ NoText \notin Texts /\ InRequest \notin Texts \cup {NoText}
  /\ MaxPasswords \in Nat \ {0}
  /\ Settings \subseteq SUBSET Troubles

VARIABLES
  setting,     \* the build and what may happen in this behaviour
  displayPc,   \* the display thread: "init", "label" or "done"
  pc,          \* main: "boot", "serve", "read", "prompt" or "fault"
  sem,         \* count of the semaphore; its limit is 1
  screen,      \* "empty", "label" or "keyboard"
  pwd,         \* what the callback copied
  ts_pwd,      \* the stack slot of ts_pwd: the same one for every prompt
  request,     \* the lists of the request that is handled
  passwords,   \* passwords[]: "json" or "slot" for a pointer to ts_pwd
  typed,       \* history: for every prompt of the request, what was typed
  used         \* the texts the last import took for its passwords

display == <<displayPc, sem, screen>>
vars == <<setting, display, pc, pwd, ts_pwd, request, passwords, typed, used>>

\* The lists of a request: how many keystores, whether the first of them has the
\* fields that the prompt shows, and what the entries of "passwords" are.
Lists ==
  [keystores : 1 .. MaxPasswords, fields : BOOLEAN,
   passwords : UNION {[1 .. n -> {"text", "empty", "other"}] : n \in 1 .. MaxPasswords}]

Init ==
  /\ setting \in Settings
  /\ displayPc = "init" /\ pc = "boot"
  /\ sem = 0 /\ screen = "empty"
  /\ pwd = NoText /\ ts_pwd = NoText
  /\ request = << >> /\ passwords = << >> /\ typed = << >>
  /\ used = << >>

-----------------------------------------------------------------------------
MainSleeps == pc \in {"boot", "prompt"} \/ (pc = "serve" /\ "blocks" \in setting)

\* ts_init: k_sem_init.
SemInit ==
  /\ displayPc = "init" /\ MainSleeps
  /\ sem' = 0
  /\ displayPc' = IF "no_display" \in setting THEN "done" ELSE "label"
  /\ UNCHANGED <<setting, pc, screen, pwd, ts_pwd, request, passwords, typed, used>>

\* ts_init: ts_createLabel, which removes what is on the screen.
createLabel ==
  /\ displayPc = "label" /\ MainSleeps
  /\ screen' = "label"
  /\ displayPc' = "done"
  /\ UNCHANGED <<setting, pc, sem, pwd, ts_pwd, request, passwords, typed, used>>

Display == SemInit \/ createLabel

-----------------------------------------------------------------------------
\* main sleeps until the host opens the port.
Boot ==
  /\ pc = "boot"
  /\ displayPc = "done" \/ "slow_boot" \in setting
  /\ pc' = "serve"
  /\ UNCHANGED <<setting, display, pwd, ts_pwd, request, passwords, typed, used>>

Receive(lists) ==
  /\ pc = "serve"
  /\ request' = lists
  /\ passwords' = << >> /\ typed' = << >> /\ used' = << >>
  /\ pc' = "read"
  /\ UNCHANGED <<setting, display, pwd, ts_pwd>>

AllRead == Len(passwords) = Len(request.passwords)
Entry == request.passwords[Len(passwords) + 1]
Pending(kind) == pc = "read" /\ ~AllRead /\ Entry = kind

GivenPassword ==
  /\ Pending("text")
  /\ passwords' = Append(passwords, "json")
  /\ UNCHANGED <<setting, display, pc, pwd, ts_pwd, request, typed, used>>

\* An entry that is no text, and an empty one when the first keystore has no
\* checksum message to show: an error is returned.
BadEntry ==
  /\ Pending("other") \/ (Pending("empty") /\ ~request.fields)
  /\ pc' = "serve"
  /\ UNCHANGED <<setting, display, pwd, ts_pwd, request, passwords, typed, used>>

\* ts_request_text_kb up to its loop.  Before SemInit there is no display_dev.
request_text_kb ==
  /\ Pending("empty") /\ request.fields
  /\ screen' = "keyboard"
  /\ pc' = IF displayPc = "init" THEN "fault" ELSE "prompt"
  /\ typed' = Append(typed, NoText)
  /\ UNCHANGED <<setting, displayPc, sem, pwd, ts_pwd, request, passwords, used>>

\* The user presses OK: lv_task_handler runs ta_event_cb.
ta_event_cb(text) ==
  /\ pc = "prompt" /\ sem = 0
  /\ screen = "keyboard" /\ "no_display" \notin setting
  /\ pwd' = text
  /\ sem' = 1
  /\ typed' = [typed EXCEPT ![Len(typed)] = text]
  /\ UNCHANGED <<setting, displayPc, screen, pc, ts_pwd, request, passwords, used>>

\* Faulty variant: the semaphore is looked at and not taken.
get_text_kbPeek ==
  /\ pc = "prompt" /\ sem = 1
  /\ ts_pwd' = pwd
  /\ screen' = "label"
  /\ passwords' = Append(passwords, "slot")
  /\ pc' = "read"
  /\ UNCHANGED <<setting, displayPc, sem, pwd, request, typed, used>>

\* k_sem_take succeeds: the rest of ts_get_text_kb and of the iteration.
get_text_kb ==
  /\ pc = "prompt" /\ sem = 1
  /\ sem' = 0
  /\ ts_pwd' = pwd
  /\ screen' = "label"
  /\ passwords' = Append(passwords, "slot")
  /\ pc' = "read"
  /\ UNCHANGED <<setting, displayPc, pwd, request, typed, used>>

\* What import_from_keystore reads behind passwords[i].  The frame of
\* httpImportFromKeystore is still there, and nothing else is put in the slot.
Deref(i) == IF passwords[i] = "slot" THEN ts_pwd ELSE InRequest

\* Faulty variant: nothing is returned when the lists differ in length.
ImportIfEqual ==
  /\ pc = "read" /\ AllRead /\ Len(passwords) = request.keystores
  /\ used' = [i \in 1 .. Len(passwords) |-> Deref(i)]
  /\ pc' = "serve"
  /\ UNCHANGED <<setting, display, pwd, ts_pwd, request, passwords, typed>>

Import ==
  /\ pc = "read" /\ AllRead
  /\ used' = IF Len(passwords) = request.keystores
               THEN [i \in 1 .. Len(passwords) |-> Deref(i)]
               ELSE << >>
  /\ pc' = "serve"
  /\ UNCHANGED <<setting, display, pwd, ts_pwd, request, passwords, typed>>

Main ==
  \/ \E lists \in Lists : Receive(lists)
  \/ Boot \/ GivenPassword \/ BadEntry \/ request_text_kb \/ get_text_kb \/ Import

User == \E text \in Texts : ta_event_cb(text)

Next == Main \/ Display \/ User

Spec == Init /\ [][Next]_vars

\* Both threads run when they can, and a user who sees a keyboard types.
FairSpec ==
  /\ Spec
  /\ WF_vars(Boot \/ GivenPassword \/ BadEntry \/ request_text_kb \/ get_text_kb \/ Import)
  /\ WF_vars(Display) /\ WF_vars(User)

-----------------------------------------------------------------------------
Prompts(kinds) == {i \in DOMAIN kinds : kinds[i] = "slot"}

\* A prompt ends only with what the user typed for it: neither a semaphore that is
\* still up nor the text of an earlier prompt, or of an earlier request, ends it.
PromptFresh ==
  /\ pc = "prompt" => (sem = 1 <=> typed[Len(typed)] # NoText)
  /\ pc = "read" =>
       /\ Len(typed) = Cardinality(Prompts(passwords))
       /\ typed # << >> => ts_pwd = typed[Len(typed)]

\* The user is asked for the password of every keystore that comes without one, so
\* each is opened with its own.  Not so when two passwords are empty: passwords[]
\* holds the same pointer for both.
OwnPassword ==
  \A i \in DOMAIN used :
    request.passwords[i] = "empty" =>
      used[i] = typed[Cardinality({j \in 1 .. i : request.passwords[j] = "empty"})]

\* A prompt ends when its keyboard is on the screen and the display thread, which
\* would remove it, is done: main goes on with the request.
PromptEnds ==
  (/\ pc = "prompt" /\ screen = "keyboard"
   /\ displayPc = "done" /\ "no_display" \notin setting)
     ~> pc = "serve"
=============================================================================
