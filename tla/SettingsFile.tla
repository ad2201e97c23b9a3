---------------------------- MODULE SettingsFile ----------------------------
(* config.json and the two processes that write it: the app, which keeps its *)
(* settings in memory and saves after each change, and `--web-link`, which   *)
(* loads, makes the web UI's key if the file has none, saves and loads again *)
(* before it prints the link.  A save writes config.json.tmp and renames it  *)
(* over config.json; both processes use the same names and either can be     *)
(* killed between two steps.  A setting of the user stands for all the       *)
(* others.                                                                   *)
EXTENDS Naturals

CONSTANTS MaxKeys, MaxSettings, MaxRuns

VARIABLES
    disk,       \* the files, by name: a text, or one of Missing and Torn
    handle,     \* the file a process's open handle writes to, by process
    proc,       \* the processes: what each is at, and the settings it holds
    web,        \* the app's WebAccess: on or off, and the secret it checks
    keys,       \* keys made so far
    runs,       \* processes started so far
    both,       \* the app saved while --web-link ran
    printed,    \* the key of the link printed last, 0 for none
    kept        \* the setting the app saved last, 0 for none

vars == <<disk, handle, proc, web, keys, runs, both, printed, kept>>

Processes == {"app", "link"}
Other(p) == CHOOSE q \in Processes : q # p
Files == {"config", "tmp"}

(* The texts a file can hold: a key, 0 for none, and the setting.            *)
Text(key, setting) == [whole |-> TRUE, here |-> TRUE, key |-> key, setting |-> setting]
Torn == [whole |-> FALSE, here |-> TRUE, key |-> 0, setting |-> 0]
Missing == [whole |-> FALSE, here |-> FALSE, key |-> 0, setting |-> 0]
Defaults == [key |-> 0, setting |-> 0]

(* at: "off" not running, "idle" running, "load", then the steps of a save,  *)
(* then what follows it.  keep: config.json could not be read, and saves     *)
(* fail.  before: the key to go back to, or to check.                        *)
NotRunning == [at |-> "off", mem |-> Defaults, keep |-> FALSE, doing |-> "none", out |-> Defaults,
               before |-> 0]

Init ==
    /\ disk = [config |-> Missing, tmp |-> Missing]
    /\ handle = [p \in Processes |-> "none"]
    /\ proc = [p \in Processes |-> NotRunning]
    /\ web = [on |-> FALSE, secret |-> 0]
    /\ keys = 0 /\ runs = 0
    /\ both = FALSE /\ printed = 0 /\ kept = 0

At(p, place) == proc[p].at = place
Saving(p) == proc[p].at \in {"open", "write", "rename", "saved", "failed"}
StoredKey == disk.config.key

------------------------------------------------------------------------------
(* load_from: a missing file is a fresh install, one that is not text is     *)
(* moved aside and the defaults are used, one that cannot be read is left    *)
(* alone, and so are the settings of this run.                               *)
Load(p, start, next) ==
    \/ /\ disk.config.here
       /\ proc' = [proc EXCEPT ![p] = [start EXCEPT !.at = next, !.keep = TRUE]]
       /\ UNCHANGED disk
    \/ /\ ~disk.config.here
       /\ proc' = [proc EXCEPT ![p] = [start EXCEPT !.at = next]]
       /\ UNCHANGED disk
    \/ /\ disk.config.whole
       /\ proc' = [proc EXCEPT ![p] =
              [start EXCEPT !.at = next, !.mem = [key |-> disk.config.key, setting |-> disk.config.setting]]]
       /\ UNCHANGED disk
    \/ /\ disk.config.here /\ ~disk.config.whole
       /\ proc' = [proc EXCEPT ![p] = [start EXCEPT !.at = next]]
       /\ disk' = [disk EXCEPT !.config = Missing]

(* Mutant: the file is not looked at again.                                  *)
KeyHeld(settings) == settings.mem.key

KeyToSave(settings) ==
    IF settings.mem.key = 0 /\ disk.config.whole THEN StoredKey ELSE settings.mem.key

(* try_save_to_with: settings without a key keep the one the file holds.     *)
SaveStarts(p, settings, doing, before) ==
    IF settings.keep
    THEN proc' = [proc EXCEPT ![p] = [settings EXCEPT !.at = "failed", !.doing = doing, !.before = before]]
    ELSE proc' = [proc EXCEPT ![p] = [settings EXCEPT
             !.at = "open", !.doing = doing, !.before = before,
             !.out = [settings.mem EXCEPT !.key = KeyToSave(settings)]]]

(* fs::write opens the file and empties it, then writes.                     *)
Open(p) ==
    /\ At(p, "open")
    /\ disk' = [disk EXCEPT !.tmp = Torn]
    /\ handle' = [handle EXCEPT ![p] = "tmp"]
    /\ proc' = [proc EXCEPT ![p].at = "write"]
    /\ UNCHANGED <<web, keys, runs>>

(* Two writers of one file leave whichever text, or a mix.                   *)
Write(p) ==
    /\ At(p, "write")
    /\ LET f == handle[p]
           text == Text(proc[p].out.key, proc[p].out.setting)
       IN  IF f \in Files
           THEN \E mixed \in (IF handle[Other(p)] = f \/ disk[f].whole THEN BOOLEAN ELSE {FALSE}) :
                   disk' = [disk EXCEPT ![f] = IF mixed THEN Torn ELSE text]
           ELSE UNCHANGED disk
    /\ handle' = [handle EXCEPT ![p] = "none"]
    /\ proc' = [proc EXCEPT ![p].at = "rename"]
    /\ UNCHANGED <<web, keys, runs>>

(* The disk is full, or the file cannot be written.                          *)
WriteFails(p) ==
    /\ proc[p].at \in {"open", "write"}
    /\ handle' = [handle EXCEPT ![p] = "none"]
    /\ proc' = [proc EXCEPT ![p].at = "failed"]
    /\ UNCHANGED <<disk, web, keys, runs>>

(* The rename takes whatever config.json.tmp is by now, the other's half     *)
(* written text included, and the handle it is written through with it.      *)
Rename(p) ==
    /\ At(p, "rename") /\ disk.tmp.here
    /\ disk' = [config |-> disk.tmp, tmp |-> Missing]
    /\ handle' = [q \in Processes |->
          CASE handle[q] = "tmp" -> "config" [] handle[q] = "config" -> "none" [] OTHER -> "none"]
    /\ proc' = [proc EXCEPT ![p].at = "saved"]
    /\ UNCHANGED <<web, keys, runs>>

(* A failed rename removes the temporary file.                               *)
RenameFails(p) ==
    /\ At(p, "rename")
    /\ disk' = [disk EXCEPT !.tmp = Missing]
    /\ handle' = [q \in Processes |-> IF handle[q] = "tmp" THEN "none" ELSE handle[q]]
    /\ proc' = [proc EXCEPT ![p].at = "failed"]
    /\ UNCHANGED <<web, keys, runs>>

------------------------------------------------------------------------------
AppStarts ==
    /\ At("app", "off") /\ runs < MaxRuns
    /\ runs' = runs + 1
    /\ Load("app", NotRunning, "idle")
    /\ web' = [on |-> FALSE, secret |-> 0]
    /\ UNCHANGED <<handle, keys>>

(* A setting changes, under the settings' lock until it is saved.            *)
ChangeSetting ==
    /\ At("app", "idle") /\ proc["app"].mem.setting < MaxSettings
    /\ SaveStarts("app", [proc["app"] EXCEPT !.mem.setting = @ + 1], "setting", 0)
    /\ UNCHANGED <<disk, handle, web, keys, runs>>

(* stored_or_new_secret: the key held, else the one the file has by now,     *)
(* else a new one, saved.                                                    *)
EnableWeb ==
    /\ At("app", "idle") /\ ~web.on
    /\ \/ /\ proc["app"].mem.key # 0
          /\ web' = [on |-> TRUE, secret |-> proc["app"].mem.key]
          /\ UNCHANGED <<proc, keys>>
       \/ /\ proc["app"].mem.key = 0 /\ ~proc["app"].keep /\ StoredKey # 0
          /\ web' = [on |-> TRUE, secret |-> StoredKey]
          /\ proc' = [proc EXCEPT !["app"].mem.key = StoredKey]
          /\ UNCHANGED keys
       \/ /\ proc["app"].mem.key = 0 /\ (proc["app"].keep \/ StoredKey = 0)
          /\ keys < MaxKeys
          /\ keys' = keys + 1
          /\ SaveStarts("app", [proc["app"] EXCEPT !.mem.key = keys'], "enable", 0)
          /\ UNCHANGED web
    /\ UNCHANGED <<disk, handle, runs>>

DisableWeb ==
    /\ At("app", "idle") /\ web.on
    /\ web' = [web EXCEPT !.on = FALSE]
    /\ UNCHANGED <<disk, handle, proc, keys, runs>>

(* new_web_link: in force once saved, given up otherwise.                    *)
NewLink ==
    /\ At("app", "idle") /\ web.on /\ keys < MaxKeys
    /\ keys' = keys + 1
    /\ SaveStarts("app", [proc["app"] EXCEPT !.mem.key = keys'], "link", proc["app"].mem.key)
    /\ UNCHANGED <<disk, handle, web, runs>>

(* The save is over and the lock is released.                                *)
AppSaved ==
    /\ proc["app"].at \in {"saved", "failed"}
    /\ LET done == At("app", "saved")
           doing == proc["app"].doing
           key == IF doing = "link" /\ ~done THEN proc["app"].before ELSE proc["app"].mem.key
       IN  /\ proc' = [proc EXCEPT !["app"] = [@ EXCEPT
                  !.at = "idle", !.doing = "none", !.out = Defaults, !.before = 0, !.mem.key = key]]
           /\ web' = CASE doing = "enable" -> [on |-> TRUE, secret |-> key]
                       [] doing = "link" /\ done -> [web EXCEPT !.secret = key]
                       [] OTHER -> web
    /\ UNCHANGED <<disk, handle, keys, runs>>

------------------------------------------------------------------------------
(* link_from_settings: load, and save if that had no key; then load again.   *)
LinkLoads ==
    /\ At("link", "off") /\ runs < MaxRuns
    /\ runs' = runs + 1
    /\ Load("link", NotRunning, "load")
    /\ UNCHANGED <<handle, web, keys>>

LinkKey ==
    /\ At("link", "load")
    /\ \/ /\ proc["link"].mem.key # 0
          /\ proc' = [proc EXCEPT !["link"].at = "saved"]
          /\ UNCHANGED keys
       \/ /\ proc["link"].mem.key = 0 /\ keys < MaxKeys
          /\ keys' = keys + 1
          /\ SaveStarts("link", [proc["link"] EXCEPT !.mem.key = keys'], "link", 0)
    /\ UNCHANGED <<disk, handle, web, runs>>

LinkPrints ==
    /\ proc["link"].at \in {"saved", "failed"}
    /\ Load("link", [NotRunning EXCEPT !.before = proc["link"].mem.key], "check")
    /\ UNCHANGED <<handle, web, keys, runs>>

(* Only a key the settings hold now is printed.                              *)
LinkEnds ==
    /\ At("link", "check")
    /\ proc' = [proc EXCEPT !["link"] = NotRunning]
    /\ UNCHANGED <<disk, handle, web, keys, runs>>

(* A process ends, is killed, or the power fails, wherever it is.            *)
Kill(p) ==
    /\ ~At(p, "off")
    /\ proc' = [proc EXCEPT ![p] = NotRunning]
    /\ handle' = [handle EXCEPT ![p] = "none"]
    /\ web' = IF p = "app" THEN [on |-> FALSE, secret |-> 0] ELSE web
    /\ UNCHANGED <<disk, keys, runs>>

Step ==
    \/ \E p \in Processes : Open(p) \/ Write(p) \/ WriteFails(p) \/ Rename(p) \/ RenameFails(p) \/ Kill(p)
    \/ AppStarts \/ ChangeSetting \/ EnableWeb \/ DisableWeb \/ NewLink \/ AppSaved
    \/ LinkLoads \/ LinkKey \/ LinkPrints \/ LinkEnds

(* What is promised outside a moment when both save: the last link printed   *)
(* until the user makes a new one, unless the app holds a key that is not in *)
(* config.json, and the setting the app saved last.                          *)
Note ==
    LET quiet   == proc'["link"].at = "off" /\ proc'["app"].at \in {"off", "idle"}
        overlap == both \/ (proc'["link"].at # "off" /\ proc'["app"].at \notin {"off", "idle"})
        renamed == At("app", "rename") /\ proc'["app"].at = "saved"
        ended   == At("link", "check") /\ proc'["link"].at = "off"
        good    == proc["link"].mem.key # 0 /\ proc["link"].mem.key = proc["link"].before
                     /\ proc["app"].mem.key \in {0, proc["link"].before}
    IN  /\ both' = (overlap /\ ~quiet)
        /\ printed' = IF overlap \/ (renamed /\ proc["app"].doing = "link") THEN 0
                      ELSE IF ended /\ good THEN proc["link"].before ELSE printed
        /\ kept' = IF overlap THEN 0 ELSE IF renamed THEN proc["app"].out.setting ELSE kept

Next == Step /\ Note

Spec == Init /\ [][Next]_vars

------------------------------------------------------------------------------
(* The link `--web-link` prints is the one in config.json, and the one the   *)
(* app accepts while its web UI is on, until the user makes a new link,      *)
(* whoever saves or is killed since; except for an app whose settings are    *)
(* not those of config.json.                                                 *)
PrintedLinkWorks ==
    printed # 0 =>
      /\ disk.config.whole /\ disk.config.key = printed
      /\ (web.on /\ ~proc["app"].keep) => web.secret = printed

(* A setting the app saved is in config.json, whatever is killed since.      *)
SavedSettingStays == kept # 0 => disk.config.whole /\ disk.config.setting = kept

SettingsKept == PrintedLinkWorks /\ SavedSettingStays

(* "A crash or power cut mid-write can then never leave a truncated          *)
(* config.json" (user_config.rs:569).                                        *)
NeverTruncated == disk.config.here => disk.config.whole
==============================================================================
