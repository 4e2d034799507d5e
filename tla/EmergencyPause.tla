--------------------------- MODULE EmergencyPause ---------------------------
(***************************************************************************)
(* The emergency pause of one wallet on one chain: what                    *)
(* POST /automation/settings and POST /automation/policies write, and what *)
(* checkEmergencyPaused reads (services/automation-emergency-check.ts).    *)
(*                                                                         *)
(* A setting and a policy belong to one position or, with positionId NULL, *)
(* to the whole wallet.  The unique indexes on these columns never see two *)
(* NULLs as equal, so ON CONFLICT updates the row of a position but always *)
(* inserts a new row for the whole wallet.  Of the wallet's setting rows a *)
(* reader gets any (LIMIT 1 without an order): only the values among them  *)
(* matter.  Of the policy rows it gets the newest: only the last value     *)
(* written matters.                                                        *)
(*                                                                         *)
(* Each statement of the routes and each lookup of the check is an action. *)
(***************************************************************************)
EXTENDS Integers

CONSTANTS
    Position,   \* positions of the wallet
    Whole,      \* positionId NULL: the whole wallet
    Saver,      \* requests to POST /automation/settings
    Body,       \* what they may ask for: [target, pause, by]
    PolicyBody, \* what POST /automation/policies may ask for: [target, value]
    Checker     \* concurrent callers of checkEmergencyPaused

Target == Position \cup {Whole}

Pause == {"paused", "active"}

\* An operator with canChangeStrategy either has canPause ("pauser") or not.
Role == {"owner", "pauser", "operator"}

ASSUME PauseAssumption ==
    /\ Whole \notin Position
    /\ Body # {}
    /\ Body \subseteq [target : Target, pause : BOOLEAN, by : Role]
    /\ PolicyBody \subseteq [target : Target, value : Pause]

\* The column of a row, or "none" where there is no row.
Column == Pause \cup {"none"}
AsPause(bool) == IF bool THEN "paused" ELSE "active"

\* The settings route and the check spell the wallet in lower case, the policies
\* route in its checksummed form: they never meet in a WHERE clause.
Spelling == {"lower", "checksum"}

SaverPlace == {"idle", "readSetting", "readPolicy", "authorize", "upsertSetting",
               "upsertPolicy", "done", "refused", "dead"}
Save == [at : SaverPlace, body : Body, current : Column]

CheckPlace == {"idle", "position", "global", "policy", "passed", "blocked"}
Check == [at : CheckPlace, target : Target, sure : BOOLEAN, missed : BOOLEAN]

VARIABLES
    setting,    \* AutomationSetting.emergencyPaused of each position's row
    globals,    \* the values among the setting rows of the whole wallet
    policy,     \* the newest AutomationPolicy row: "active" is enabled
    save,       \* the settings requests: place, body, currentPaused
    check,      \* the calls of checkEmergencyPaused.  History: "sure", the settings
                \* blocked the target ever since the call began; "missed", its
                \* position got a row of its own behind the lookup that found none
    overtaken,  \* history: the requests whose target was written after their read
    word        \* history: the last value upserted for the whole wallet

pauseVars == <<setting, globals, policy, save, check, overtaken, word>>
pauseHistory == <<overtaken, word>>
tables == <<setting, globals, policy>>

-----------------------------------------------------------------------------
NoBody == CHOOSE b \in Body : TRUE
NoCheck == [at |-> "idle", target |-> Whole, sure |-> FALSE, missed |-> FALSE]

PauseInit ==
    /\ setting = [p \in Position |-> "none"]
    /\ globals = {}
    /\ policy = [s \in Spelling |-> [t \in Target |-> "none"]]
    /\ save = [s \in Saver |-> [at |-> "idle", body |-> NoBody, current |-> "none"]]
    /\ check = [c \in Checker |-> NoCheck]
    /\ overtaken = {}
    /\ word = "none"

\* The settings block a target: its own row says paused, or it has none and every
\* row of the whole wallet says so.
Blocks(st, gl, t) ==
    IF t \in Position /\ st[t] # "none" THEN st[t] = "paused" ELSE gl = {"paused"}

\* The step gives a position the row it did not have.
GetsRow(t) == t \in Position /\ setting[t] = "none" /\ setting'[t] # "none"

\* The tables change: every check under way and every request past its read is
\* affected.  (History only; no guard reads it.)
Touch(t) ==
    /\ check' = [c \in Checker |->
            LET here == check[c]
            IN  [here EXCEPT !.sure = @ /\ Blocks(setting', globals', here.target),
                             !.missed = @ \/ (here.at \in {"global", "policy"} /\ GetsRow(here.target))]]
    /\ overtaken' = overtaken \cup
            {s \in Saver : save[s].body.target = t /\ save[s].at \in {"readPolicy", "authorize", "upsertSetting"}}

-----------------------------------------------------------------------------
(***************************************************************************)
(* POST /automation/settings, by somebody who may change the strategy.     *)
(***************************************************************************)
MoveTo(s, place) == save' = [save EXCEPT ![s].at = place]

ReceiveSave(s, b) ==
    /\ save[s].at = "idle"
    /\ save' = [save EXCEPT ![s] = [at |-> "readSetting", body |-> b, current |-> "none"]]
    /\ UNCHANGED <<tables, check, pauseHistory>>

\* The rows the first SELECT may return.
SettingRows(t) == IF t \in Position THEN {setting[t]} \ {"none"} ELSE globals

\* Mutant: the current value is not read, the body's is taken for it.
ReadNothing(s) ==
    /\ save[s].at = "readSetting"
    /\ save' = [save EXCEPT ![s].at = "authorize", ![s].current = AsPause(save[s].body.pause)]
    /\ UNCHANGED <<tables, check, pauseHistory>>

ReadSetting(s) ==
    /\ save[s].at = "readSetting"
    /\ LET rows == SettingRows(save[s].body.target)
       IN  IF rows = {}
           THEN MoveTo(s, "readPolicy")
           ELSE \E row \in rows :
                    save' = [save EXCEPT ![s].at = "authorize", ![s].current = row]
    /\ UNCHANGED <<tables, check, pauseHistory>>

\* No setting yet: the newest policy decides, and without one it is not paused.
ReadPolicy(s) ==
    /\ save[s].at = "readPolicy"
    /\ LET row == policy["lower"][save[s].body.target]
       IN  save' = [save EXCEPT ![s].at = "authorize",
                                ![s].current = IF row = "none" THEN "active" ELSE row]
    /\ UNCHANGED <<tables, check, pauseHistory>>

\* An operator who changes the pause needs canPause.
Authorize(s) ==
    /\ save[s].at = "authorize"
    /\ LET b == save[s].body
       IN  IF b.by = "operator" /\ save[s].current # AsPause(b.pause)
           THEN MoveTo(s, "refused")
           ELSE MoveTo(s, "upsertSetting")
    /\ UNCHANGED <<tables, check, pauseHistory>>

UpsertSetting(s) ==
    LET t == save[s].body.target
        value == AsPause(save[s].body.pause)
    IN  /\ save[s].at = "upsertSetting"
        /\ IF t \in Position
           THEN setting' = [setting EXCEPT ![t] = value] /\ UNCHANGED <<globals, word>>
           ELSE globals' = globals \cup {value} /\ word' = value /\ UNCHANGED setting
        /\ MoveTo(s, "upsertPolicy")
        /\ Touch(t)
        /\ UNCHANGED policy

\* The policy follows in a statement of its own; the audit row after it changes
\* nothing here.
UpsertPolicy(s) ==
    LET t == save[s].body.target
    IN  /\ save[s].at = "upsertPolicy"
        /\ policy' = [policy EXCEPT !["lower"][t] = AsPause(save[s].body.pause)]
        /\ MoveTo(s, "done")
        /\ UNCHANGED <<setting, globals, word>>
        /\ Touch(t)

\* A statement throws, or the process ends: the rest of the handler does not happen.
SaveDies(s) ==
    /\ save[s].at \notin {"idle", "done", "refused", "dead"}
    /\ MoveTo(s, "dead")
    /\ UNCHANGED <<tables, check, pauseHistory>>

\* POST /automation/policies, by the owner.  Its SELECT of the newest row (for
\* the whole wallet) only decides between UPDATE and INSERT: either way its value
\* is the newest.
SavePolicy(b) ==
    /\ policy' = [policy EXCEPT !["checksum"][b.target] = b.value]
    /\ UNCHANGED <<setting, globals, save, check, pauseHistory>>

-----------------------------------------------------------------------------
(***************************************************************************)
(* checkEmergencyPaused: up to three lookups, one await each.              *)
(***************************************************************************)
\* A caller without a positionId starts at the second lookup.
BeginCheckOf(c, t) ==
    [at |-> IF t \in Position THEN "position" ELSE "global",
     target |-> t, sure |-> Blocks(setting, globals, t), missed |-> FALSE]

BeginCheck(c, t) ==
    /\ check[c].at = "idle"
    /\ check' = [check EXCEPT ![c] = BeginCheckOf(c, t)]

Verdict(c, row) == check' = [check EXCEPT ![c].at = IF row = "paused" THEN "blocked" ELSE "passed"]

LookupPosition(c) ==
    /\ check[c].at = "position"
    /\ LET row == setting[check[c].target]
       IN  IF row = "none"
           THEN check' = [check EXCEPT ![c].at = "global"]
           ELSE Verdict(c, row)
    /\ UNCHANGED <<tables, save, pauseHistory>>

\* Mutant: the policy is asked before the rows of the whole wallet.
LookupPolicyFirst(c) ==
    /\ check[c].at = "global"
    /\ check' = [check EXCEPT ![c].at = "policy"]
    /\ UNCHANGED <<tables, save, pauseHistory>>

LookupGlobal(c) ==
    /\ check[c].at = "global"
    /\ IF globals = {}
       THEN check' = [check EXCEPT ![c].at = "policy"]
       ELSE \E row \in globals : Verdict(c, row)
    /\ UNCHANGED <<tables, save, pauseHistory>>

\* The position's newest policy before the whole wallet's; no row means not paused.
LookupPolicy(c) ==
    /\ check[c].at = "policy"
    /\ LET own == policy["lower"][check[c].target]
       IN  Verdict(c, IF own # "none" THEN own ELSE policy["lower"][Whole])
    /\ UNCHANGED <<tables, save, pauseHistory>>

Lookup(c) == LookupPosition(c) \/ LookupGlobal(c) \/ LookupPolicy(c)

\* The caller takes the verdict and goes on.
EndCheck(c) ==
    /\ check[c].at \in {"passed", "blocked"}
    /\ check' = [check EXCEPT ![c] = NoCheck]

-----------------------------------------------------------------------------
SaverStep(s) ==
    \/ \E b \in Body : ReceiveSave(s, b)
    \/ ReadSetting(s)
    \/ ReadPolicy(s)
    \/ Authorize(s)
    \/ UpsertSetting(s)
    \/ UpsertPolicy(s)
    \/ SaveDies(s)

SettingsNext ==
    \/ \E s \in Saver : SaverStep(s)
    \/ \E b \in PolicyBody : SavePolicy(b)
    \/ \E c \in Checker : Lookup(c)

\* The settings and the check alone; AutomationDaemon has the callers of the check.
PauseNext ==
    \/ SettingsNext
    \/ \E c \in Checker :
        /\ EndCheck(c) \/ \E t \in Target : BeginCheck(c, t)
        /\ UNCHANGED <<tables, save, pauseHistory>>

PauseSpec == PauseInit /\ [][PauseNext]_pauseVars

-----------------------------------------------------------------------------
TablesOK ==
    /\ setting \in [Position -> Column]
    /\ globals \subseteq Pause
    /\ policy \in [Spelling -> [Target -> Column]]

\* A request that has read the current pause knows it: no row means "active".
SavesOK ==
    /\ save \in [Saver -> Save]
    /\ \A s \in Saver : save[s].at \in {"authorize", "upsertSetting", "upsertPolicy", "done"}
                            => save[s].current # "none"

\* Only a call with a positionId looks its row up.
ChecksOK ==
    /\ check \in [Checker -> Check]
    /\ \A c \in Checker : check[c].at = "position" => check[c].target \in Position
PauseHistoryOK == overtaken \subseteq Saver /\ word \in Column

PauseTypeOK == TablesOK /\ SavesOK /\ ChecksOK /\ PauseHistoryOK

\* No check passes if the settings blocked its target from its first lookup to
\* its verdict, whatever the policies say meanwhile (the comment at
\* automation-settings.ts:229), but for one race of the lookups with two saves:
\* the whole wallet is paused and the position has no row; the first lookup finds
\* none; one save gives the position a row that pauses it, another resumes the
\* whole wallet; the second lookup finds the wallet active.  The target was paused
\* all along and the check passes.
PauseHolds == \A c \in Checker : check[c].at = "passed" /\ check[c].sure => check[c].missed

\* What the route takes for the current value of a target.
Effective(t) ==
    IF SettingRows(t) # {} THEN SettingRows(t)
    ELSE {IF policy["lower"][t] = "none" THEN "active" ELSE policy["lower"][t]}

\* An operator without canPause leaves the pause as it is, unless another request
\* wrote between its read and its upsert (automation-settings.ts:159).
PauseNeedsPermission ==
    [][\A s \in Saver :
        LET b == save[s].body
        IN  save[s].at = "upsertSetting" /\ save'[s].at = "upsertPolicy"
                /\ b.by = "operator" /\ s \notin overtaken
            => Effective(b.target)' = Effective(b.target)]_pauseVars
=============================================================================
