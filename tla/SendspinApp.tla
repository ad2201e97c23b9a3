----------------------------- MODULE SendspinApp -----------------------------
(* Sendspin in the application: the settings that turn it and the Music      *)
(* Assistant input on and off, selecting a Sendspin speaker or Music         *)
(* Assistant as the output, and the prompt of a pairing.  The window's       *)
(* thread works through a toggle one lock at a time; a select runs in a      *)
(* thread of its own; speakers and the user are the environment's.           *)
EXTENDS Naturals, Sequences

CONSTANTS
    MaxToggles, MaxSelects   \* bounds on what the user does

Kinds == {"player", "ma", "other"}   \* "other": a speaker not reached with Sendspin

ConstantsOK == MaxToggles \in Nat /\ MaxSelects \in Nat

VARIABLES
    enabled, sourceSaved,    \* the settings
    source,                  \* the Music Assistant input runs
    gui,                     \* what is left of the toggle the window's thread is in
    session,                 \* the bound session's kind, or "none"
    select,                  \* the select under way: its kind, or "none" (connecting)
    place,                   \* how far it is
    pairing,                 \* "no", or the pairing it makes: "live" (it asks for the code), "given"
    waits,                   \* the pairing select that waits for the one before it to end
    answer,                  \* what the attempt that asks is told
    prompt,                  \* "none", "live" (an attempt waits for it) or "static"
    ma,                      \* ma_output: the live Music Assistant sessions
    dropping,                \* sessions of it taken from the slot and not dropped yet
    toggles, selects

vars == <<enabled, sourceSaved, source, gui, session, select, place, pairing, waits, answer, prompt, ma,
          dropping, toggles, selects>>
settings == <<enabled, sourceSaved>>
attempt == <<select, place, pairing>>

Init ==
    /\ enabled \in BOOLEAN /\ sourceSaved \in BOOLEAN
    /\ source \in BOOLEAN /\ (source => enabled /\ sourceSaved)
    /\ gui = <<>> /\ session = "none"
    /\ select = "none" /\ place = "none" /\ pairing = "no" /\ waits = "no" /\ answer = "none"
    /\ prompt = "none" /\ ma = 0 /\ dropping = 0 /\ toggles = 0 /\ selects = 0

-----------------------------------------------------------------------------
(* The session slot. *)

Taken(kinds) ==
    /\ session' = IF session \in kinds THEN "none" ELSE session
    /\ dropping' = dropping + (IF session \in kinds \cap {"ma"} THEN 1 ELSE 0)

Uncount == ma - 1

Drops ==
    /\ dropping > 0
    /\ dropping' = dropping - 1
    /\ ma' = Uncount
    /\ UNCHANGED <<settings, source, gui, session, attempt, waits, answer, prompt, toggles, selects>>

-----------------------------------------------------------------------------
(* The window's thread. *)

Toggle(steps) == gui = <<>> /\ toggles < MaxToggles /\ toggles' = toggles + 1 /\ gui' = steps

Enable(on) ==
    /\ Toggle(IF on THEN <<"start">> ELSE <<"take", "endMa", "prompt", "end">>)
    /\ enabled' = on
    /\ UNCHANGED <<sourceSaved, source, session, attempt, waits, answer, prompt, ma, dropping, selects>>

SetSource(on) ==
    /\ Toggle(IF on THEN <<"startSaved">> ELSE <<"take", "endMa">>)
    /\ sourceSaved' = on
    /\ UNCHANGED <<enabled, source, session, attempt, waits, answer, prompt, ma, dropping, selects>>

Does(s) == gui # <<>> /\ Head(gui) = s /\ gui' = Tail(gui)

\* The input starts, unless its port or thread is not to be had.
StartSource ==
    /\ Does("start") \/ Does("startSaved")
    /\ source' \in IF Head(gui) = "startSaved" \/ sourceSaved THEN {source, TRUE} ELSE {source}
    /\ UNCHANGED <<settings, session, attempt, waits, answer, prompt, ma, dropping, toggles, selects>>

\* The service is stopped outside the lock of its slot.
TakeSource ==
    /\ Does("take")
    /\ source' = FALSE
    /\ UNCHANGED <<settings, session, attempt, waits, answer, prompt, ma, dropping, toggles, selects>>

\* Music Assistant is unselected as the output.
EndMaOutput ==
    /\ Does("endMa")
    /\ Taken({"ma"})
    /\ UNCHANGED <<settings, source, attempt, waits, answer, prompt, ma, toggles, selects>>

\* A prompt that goes away answers whoever waits for it.
Unanswered == IF prompt = "live" THEN "cancel" ELSE answer

EndPrompt ==
    /\ Does("prompt")
    /\ prompt' = "none" /\ answer' = Unanswered
    /\ UNCHANGED <<settings, source, session, attempt, waits, ma, dropping, toggles, selects>>

\* The session is stopped in a thread of its own.
EndSession ==
    /\ Does("end")
    /\ Taken({"player", "ma"})
    /\ UNCHANGED <<settings, source, attempt, waits, answer, prompt, ma, toggles, selects>>

-----------------------------------------------------------------------------
(* A select. *)

Begins(k, pair) ==
    /\ select = "none"
    /\ select' = k /\ place' = "replaces" /\ pairing' = pair

UserSelects(k) ==
    /\ selects < MaxSelects
    /\ selects' = selects + 1
    /\ Begins(k, "no")
    /\ UNCHANGED <<settings, source, gui, session, waits, answer, prompt, ma, dropping, toggles>>

\* The pairing select waited for the connect that found the need to pair.
PairSelects ==
    /\ waits # "no"
    /\ \/ Begins("player", waits)
       \/ select # "none" /\ UNCHANGED attempt      \* still connecting: refused
    /\ waits' = "no"
    /\ UNCHANGED <<settings, source, gui, session, answer, prompt, ma, dropping, toggles, selects>>

\* The session of the speaker itself ends first.
ReplacesSame ==
    /\ place = "replaces"
    /\ place' = "starts"
    /\ IF session = select THEN Taken({session}) ELSE UNCHANGED <<session, dropping>>
    /\ UNCHANGED <<settings, source, gui, select, pairing, waits, answer, prompt, ma, toggles, selects>>

Ended == select' = "none" /\ place' = "none" /\ pairing' = "no"

\* Music Assistant is an output only while its input runs.
StartMaOutput ==
    /\ place = "starts" /\ select = "ma"
    /\ IF source THEN ma' = ma + 1 /\ place' = "takesOld" /\ UNCHANGED <<select, pairing>>
       ELSE Ended /\ UNCHANGED ma
    /\ UNCHANGED <<settings, source, gui, session, waits, answer, prompt, dropping, toggles, selects>>

StartOther ==
    /\ place = "starts" /\ select = "other"
    /\ place' = "takesOld"
    /\ UNCHANGED <<settings, source, gui, session, select, pairing, waits, answer, prompt, ma, dropping, toggles, selects>>

\* A Sendspin speaker is not connected to while Sendspin is off.
StartPlayer ==
    /\ place = "starts" /\ select = "player"
    /\ IF enabled THEN place' = "connects" /\ UNCHANGED <<select, pairing>> ELSE Ended
    /\ UNCHANGED <<settings, source, gui, session, waits, answer, prompt, ma, dropping, toggles, selects>>

\* Connected; or it needs pairing: with a live code the next attempt asks, otherwise a prompt opens.
PlayerConnects ==
    /\ place = "connects"
    /\ \/ IF enabled THEN place' = "takesOld" /\ UNCHANGED <<select, pairing, waits, prompt, answer>>
          ELSE Ended /\ UNCHANGED <<waits, prompt, answer>>
       \/ pairing = "no" /\ Ended /\ waits' = "live" /\ UNCHANGED <<prompt, answer>>
       \/ pairing = "no" /\ Ended /\ prompt' = "static" /\ answer' = Unanswered /\ UNCHANGED waits
       \/ pairing = "live" /\ place' = "asks" /\ prompt' = "live" /\ answer' = "none" /\ UNCHANGED <<select, pairing, waits>>
       \/ Ended /\ UNCHANGED <<waits, prompt, answer>>
    /\ UNCHANGED <<settings, source, gui, session, ma, dropping, toggles, selects>>

PromptAfter == IF prompt = "live" THEN "none" ELSE prompt

Asked ==
    /\ place = "asks"
    /\ prompt' = PromptAfter
    /\ IF answer = "code" THEN \/ place' = IF enabled THEN "takesOld" ELSE "failed"
                             \/ place' = "failed"
       ELSE place' = "failed"
    /\ answer' = "none"
    /\ UNCHANGED <<settings, source, gui, session, select, pairing, waits, ma, dropping, toggles, selects>>

PairingFailed ==
    /\ place = "failed"
    /\ Ended
    /\ UNCHANGED <<settings, source, gui, session, waits, answer, prompt, ma, dropping, toggles, selects>>

\* The user answers the prompt, or cancels it; a token goes to a select of its own.
Submit ==
    /\ prompt # "none"
    /\ prompt' = "none"
    /\ \/ prompt = "live" /\ answer' \in {"code", "cancel"} /\ UNCHANGED waits
       \/ answer' = Unanswered /\ waits' = "given"
       \/ prompt = "static" /\ UNCHANGED <<answer, waits>>
    /\ UNCHANGED <<settings, source, gui, session, attempt, ma, dropping, toggles, selects>>

TakesOld ==
    /\ place = "takesOld"
    /\ place' = "binds"
    /\ Taken({session})
    /\ UNCHANGED <<settings, source, gui, select, pairing, waits, answer, prompt, ma, toggles, selects>>

\* Looked at under the session's lock.
AllowedAtStart == TRUE
Allowed == CASE select = "player" -> enabled [] select = "ma" -> source [] OTHER -> TRUE

Binds ==
    /\ place = "binds"
    /\ Ended
    /\ IF Allowed THEN session' = select /\ UNCHANGED dropping
       ELSE dropping' = dropping + (IF select = "ma" THEN 1 ELSE 0) /\ UNCHANGED session
    /\ UNCHANGED <<settings, source, gui, waits, answer, prompt, ma, toggles, selects>>

\* The speaker or the user ends the session.
SessionEnds ==
    /\ session # "none"
    /\ Taken({session})
    /\ UNCHANGED <<settings, source, gui, attempt, waits, answer, prompt, ma, toggles, selects>>

-----------------------------------------------------------------------------
Next ==
    \/ Enable(TRUE) \/ Enable(FALSE) \/ SetSource(TRUE) \/ SetSource(FALSE)
    \/ StartSource \/ TakeSource \/ EndMaOutput \/ EndPrompt \/ EndSession \/ Drops
    \/ \E k \in Kinds : UserSelects(k)
    \/ PairSelects \/ ReplacesSame \/ StartMaOutput \/ StartOther \/ StartPlayer \/ PlayerConnects
    \/ Asked \/ PairingFailed \/ Submit \/ TakesOld \/ Binds \/ SessionEnds

Spec == Init /\ [][Next]_vars

-----------------------------------------------------------------------------
\* Once a toggle has run, no session is left that needs what is off, whatever was connecting meanwhile.
OffEndsItsSessions ==
    gui = <<>> => /\ session = "player" => enabled
                  /\ session = "ma" => source

\* While Music Assistant is the output the input knows: no late drop of an older session
\* takes that from it.
SelectedIsCounted == session = "ma" => ma > 0

=============================================================================
