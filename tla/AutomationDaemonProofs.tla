----------------------- MODULE AutomationDaemonProofs -----------------------
(***************************************************************************)
(* Proofs about EmergencyPause and AutomationDaemon.  First what every     *)
(* step of the settings and of the check preserves, then the daemon.       *)
(***************************************************************************)
EXTENDS AutomationDaemon, TLAPS

(***************************************************************************)
(* Why a check that was blocked all along cannot pass: its blocking rows   *)
(* are still there, and past the first lookup they are the whole wallet's  *)
(* unless the position has since got a row that this lookup missed.        *)
(***************************************************************************)
CheckKnows(c) ==
    check[c].sure /\ ~check[c].missed =>
        /\ Blocks(setting, globals, check[c].target)
        /\ check[c].at \notin {"policy", "passed"}
        /\ check[c].at = "global" /\ check[c].target \in Position
                => setting[check[c].target] = "none"
ChecksKnow == \A c \in Checker : CheckKnows(c)

(***************************************************************************)
(* What a request knows that nobody has overtaken, and why an operator     *)
(* without canPause came to its upsert.                                    *)
(***************************************************************************)
SaveKnows(s) ==
    /\ s \notin overtaken /\ save[s].at = "readPolicy"
            => SettingRows(save[s].body.target) = {}
    /\ s \notin overtaken /\ save[s].at \in {"authorize", "upsertSetting"}
            => save[s].current \in Effective(save[s].body.target)
    /\ save[s].at = "upsertSetting" /\ save[s].body.by = "operator"
            => save[s].current = AsPause(save[s].body.pause)
SavesKnow == \A s \in Saver : SaveKnows(s)

PauseInv == PauseTypeOK /\ ChecksKnow /\ SavesKnow

-----------------------------------------------------------------------------
LEMMA PauseValues == \A x \in BOOLEAN : AsPause(x) \in Pause /\ AsPause(x) \in Column /\ AsPause(x) # "none"
  BY DEF AsPause, Pause, Column

LEMMA TargetTypes ==
    /\ Whole \in Target
    /\ Position \subseteq Target
    /\ \A t \in Target : t \notin Position => t = Whole
    /\ \A b \in Body : b.target \in Target /\ b.pause \in BOOLEAN /\ b.by \in Role
  BY PauseAssumption DEF Target

LEMMA NoCheckType == NoCheck \in Check /\ NoCheck.sure = FALSE /\ NoCheck.at = "idle"
  BY TargetTypes DEF NoCheck, Check, CheckPlace

\* The request s moves to another place and keeps the rest.
LEMMA MoveType ==
    ASSUME SavesOK, NEW s \in Saver, NEW place \in SaverPlace, MoveTo(s, place),
           place \in {"authorize", "upsertSetting", "upsertPolicy", "done"} => save[s].current # "none"
    PROVE  /\ SavesOK'
           /\ save'[s] = [save[s] EXCEPT !.at = place]
           /\ \A r \in Saver : r # s => save'[r] = save[r]
  <1>1. save'[s] = [save[s] EXCEPT !.at = place]
    BY DEF SavesOK, MoveTo
  <1>2. \A r \in Saver : r # s => save'[r] = save[r]
    BY DEF SavesOK, MoveTo
  <1>3. save[s] \in Save
    BY DEF SavesOK
  <1>4. save'[s] \in Save /\ save'[s].current = save[s].current /\ save'[s].at = place
    BY <1>1, <1>3 DEF Save
  <1>5. save' \in [Saver -> Save]
    BY <1>4 DEF SavesOK, MoveTo
  <1> QED
    BY <1>1, <1>2, <1>4, <1>5 DEF SavesOK

\* What a request's step leaves alone as long as the tables and the other requests stay.
LEMMA OthersKnow ==
    ASSUME SavesKnow, UNCHANGED <<tables, pauseHistory>>, NEW s \in Saver,
           \A r \in Saver : r # s => save'[r] = save[r],
           SaveKnows(s)'
    PROVE  SavesKnow'
  <1> SUFFICES ASSUME NEW r \in Saver, r # s PROVE SaveKnows(r)'
    BY DEF SavesKnow
  <1>1. save'[r] = save[r] /\ SaveKnows(r)
    BY DEF SavesKnow
  <1>2. /\ SettingRows(save[r].body.target)' = SettingRows(save[r].body.target)
        /\ Effective(save[r].body.target)' = Effective(save[r].body.target)
    BY <1>1 DEF SettingRows, Effective, tables
  <1> QED
    BY <1>1, <1>2 DEF SaveKnows, pauseHistory


-----------------------------------------------------------------------------
(***************************************************************************)
(* The steps of the settings requests.                                     *)
(***************************************************************************)
LEMMA PauseInitInv == ASSUME PauseInit PROVE PauseInv
  <1>1. NoBody \in Body
    BY PauseAssumption DEF NoBody
  <1>2. TablesOK /\ PauseHistoryOK
    BY DEF PauseInit, TablesOK, PauseHistoryOK, Column
  <1>3. SavesOK
    BY <1>1 DEF PauseInit, SavesOK, Save, SaverPlace, Column
  <1>4. ChecksOK /\ ChecksKnow
    BY NoCheckType DEF PauseInit, ChecksOK, ChecksKnow, CheckKnows
  <1>5. SavesKnow
    BY DEF PauseInit, SavesKnow, SaveKnows
  <1> QED
    BY <1>2, <1>3, <1>4, <1>5 DEF PauseInv, PauseTypeOK

\* Nothing but the request moves.
LEMMA ChecksStay ==
    ASSUME PauseInv, UNCHANGED <<tables, check, pauseHistory>>
    PROVE  TablesOK' /\ PauseHistoryOK' /\ ChecksOK' /\ ChecksKnow'
  BY DEF PauseInv, PauseTypeOK, TablesOK, PauseHistoryOK, ChecksOK, ChecksKnow, CheckKnows,
         Blocks, tables, pauseHistory

LEMMA ReceiveSaveInv ==
    ASSUME PauseInv, NEW s \in Saver, NEW b \in Body, ReceiveSave(s, b)
    PROVE  PauseInv'
  <1>1. [at |-> "readSetting", body |-> b, current |-> "none"] \in Save
    BY DEF Save, SaverPlace, Column
  <1>2. SavesOK'
    BY <1>1 DEF PauseInv, PauseTypeOK, SavesOK, ReceiveSave
  <1>3. SavesKnow'
    <2>1. SaveKnows(s)'
      BY DEF PauseInv, PauseTypeOK, SavesOK, ReceiveSave, SaveKnows
    <2>2. \A r \in Saver : r # s => save'[r] = save[r]
      BY DEF PauseInv, PauseTypeOK, SavesOK, ReceiveSave
    <2> QED
      BY <2>1, <2>2, OthersKnow DEF PauseInv, ReceiveSave
  <1> QED
    BY <1>2, <1>3, ChecksStay DEF ReceiveSave, PauseInv, PauseTypeOK

\* The value read is an effective one.
LEMMA ReadType ==
    ASSUME SavesOK, NEW s \in Saver, NEW row \in Pause,
           save' = [save EXCEPT ![s].at = "authorize", ![s].current = row]
    PROVE  /\ SavesOK'
           /\ save'[s].at = "authorize" /\ save'[s].current = row /\ save'[s].body = save[s].body
           /\ \A r \in Saver : r # s => save'[r] = save[r]
  <1>1. save[s] \in Save /\ save'[s] = [save[s] EXCEPT !.at = "authorize", !.current = row]
    BY DEF SavesOK
  <1>2. save'[s] = [at |-> "authorize", body |-> save[s].body, current |-> row] /\ save[s].body \in Body
    BY <1>1 DEF Save
  <1>4. row \in Column /\ "authorize" \in SaverPlace
    BY DEF SaverPlace, Pause, Column
  <1>6. [at |-> "authorize", body |-> save[s].body, current |-> row] \in Save
    BY <1>2, <1>4 DEF Save
  <1>5. save'[s] \in Save
    BY <1>2, <1>6
  <1>3. \A r \in Saver : r # s => save'[r] = save[r]
    BY DEF SavesOK
  <1> QED
    BY <1>2, <1>3, <1>5 DEF SavesOK, Pause

LEMMA ReadSettingInv ==
    ASSUME PauseInv, NEW s \in Saver, ReadSetting(s)
    PROVE  PauseInv'
  <1> DEFINE t == save[s].body.target
  <1>1. t \in Target
    BY TargetTypes DEF PauseInv, PauseTypeOK, SavesOK, Save
  <1>2. SettingRows(t) \subseteq Pause
    BY <1>1 DEF SettingRows, PauseInv, PauseTypeOK, TablesOK, Column
  <1>3. SavesOK' /\ SavesKnow'
    <2>1. CASE SettingRows(t) = {}
      <3>1. MoveTo(s, "readPolicy")
        BY <2>1 DEF ReadSetting
      <3>2. SavesOK' /\ save'[s] = [save[s] EXCEPT !.at = "readPolicy"]
            /\ \A r \in Saver : r # s => save'[r] = save[r]
        BY <3>1, MoveType DEF PauseInv, PauseTypeOK, SaverPlace
      <3>3. save'[s].at = "readPolicy" /\ save'[s].body = save[s].body
        BY <3>2 DEF PauseInv, PauseTypeOK, SavesOK, Save
      <3>4. SettingRows(t)' = SettingRows(t)
        BY <3>3 DEF ReadSetting, tables, SettingRows
      <3>5. SaveKnows(s)'
        BY <2>1, <3>3, <3>4 DEF SaveKnows
      <3> QED
        BY <3>2, <3>5, OthersKnow DEF PauseInv, ReadSetting
    <2>2. CASE SettingRows(t) # {}
      <3>1. PICK row \in SettingRows(t) :
                save' = [save EXCEPT ![s].at = "authorize", ![s].current = row]
        BY <2>2 DEF ReadSetting
      <3>2. row \in Pause
        BY <1>2
      <3>3. /\ SavesOK'
            /\ save'[s].at = "authorize" /\ save'[s].current = row /\ save'[s].body = save[s].body
            /\ \A r \in Saver : r # s => save'[r] = save[r]
        BY <3>1, <3>2, ReadType DEF PauseInv, PauseTypeOK
      <3>4. Effective(t)' = SettingRows(t)
        BY <2>2, <3>3 DEF ReadSetting, tables, SettingRows, Effective
      <3>5. SaveKnows(s)'
        BY <3>3, <3>4 DEF SaveKnows
      <3> QED
        BY <3>3, <3>5, OthersKnow DEF PauseInv, ReadSetting
    <2> QED
      BY <2>1, <2>2
  <1> QED
    BY <1>3, ChecksStay DEF ReadSetting, PauseInv, PauseTypeOK

LEMMA ReadPolicyInv ==
    ASSUME PauseInv, NEW s \in Saver, ReadPolicy(s)
    PROVE  PauseInv'
  <1> DEFINE t == save[s].body.target
             row == policy["lower"][t]
             value == IF row = "none" THEN "active" ELSE row
  <1>1. t \in Target
    BY TargetTypes DEF PauseInv, PauseTypeOK, SavesOK, Save
  <1>2. value \in Pause
    BY <1>1 DEF PauseInv, PauseTypeOK, TablesOK, Spelling, Column, Pause
  <1>3. save' = [save EXCEPT ![s].at = "authorize", ![s].current = value]
    BY DEF ReadPolicy
  <1>4. /\ SavesOK'
        /\ save'[s].at = "authorize" /\ save'[s].current = value /\ save'[s].body = save[s].body
        /\ \A r \in Saver : r # s => save'[r] = save[r]
    BY <1>2, <1>3, ReadType DEF PauseInv, PauseTypeOK
  <1>5. SaveKnows(s)'
    <2>1. s \notin overtaken => SettingRows(t) = {}
      BY DEF PauseInv, SavesKnow, SaveKnows, ReadPolicy
    <2>2. SettingRows(t)' = SettingRows(t) /\ policy' = policy /\ overtaken' = overtaken
      BY <1>4 DEF SettingRows, ReadPolicy, tables, pauseHistory
    <2>3. s \notin overtaken' => value \in Effective(t)'
      BY <2>1, <2>2, <1>4 DEF Effective
    <2> QED
      BY <2>3, <1>4 DEF SaveKnows
  <1>6. SavesKnow'
    BY <1>4, <1>5, OthersKnow DEF PauseInv, ReadPolicy
  <1> QED
    BY <1>4, <1>6, ChecksStay DEF ReadPolicy, PauseInv, PauseTypeOK

LEMMA AuthorizeInv ==
    ASSUME PauseInv, NEW s \in Saver, Authorize(s)
    PROVE  PauseInv'
  <1> DEFINE t == save[s].body.target
             place == IF save[s].body.by = "operator" /\ save[s].current # AsPause(save[s].body.pause)
                      THEN "refused" ELSE "upsertSetting"
  <1>1. MoveTo(s, place) /\ place \in SaverPlace
    BY DEF Authorize, SaverPlace
  <1>2. save[s] \in Save /\ save[s].current # "none"
    BY DEF PauseInv, PauseTypeOK, SavesOK, Authorize
  <1>3. /\ SavesOK'
        /\ save'[s] = [save[s] EXCEPT !.at = place]
        /\ \A r \in Saver : r # s => save'[r] = save[r]
    BY <1>1, <1>2, MoveType DEF PauseInv, PauseTypeOK
  <1>4. save'[s].at = place /\ save'[s].body = save[s].body /\ save'[s].current = save[s].current
    BY <1>2, <1>3 DEF Save
  <1>5. Effective(t)' = Effective(t) /\ overtaken' = overtaken
    BY <1>4 DEF Effective, SettingRows, Authorize, tables, pauseHistory
  <1>6. SaveKnows(s)'
    <2>1. s \notin overtaken => save[s].current \in Effective(t)
      BY DEF PauseInv, SavesKnow, SaveKnows, Authorize
    <2> QED
      BY <2>1, <1>4, <1>5 DEF SaveKnows
  <1>7. SavesKnow'
    BY <1>3, <1>6, OthersKnow DEF PauseInv, Authorize
  <1> QED
    BY <1>3, <1>7, ChecksStay DEF Authorize, PauseInv, PauseTypeOK

LEMMA SaveDiesInv ==
    ASSUME PauseInv, NEW s \in Saver, SaveDies(s)
    PROVE  PauseInv'
  <1>1. /\ SavesOK'
        /\ save'[s] = [save[s] EXCEPT !.at = "dead"]
        /\ \A r \in Saver : r # s => save'[r] = save[r]
    BY MoveType DEF PauseInv, PauseTypeOK, SaverPlace, SaveDies
  <1>2. save'[s].at = "dead"
    BY <1>1 DEF PauseInv, PauseTypeOK, SavesOK, Save
  <1>3. SaveKnows(s)'
    BY <1>2 DEF SaveKnows
  <1>4. SavesKnow'
    BY <1>1, <1>3, OthersKnow DEF PauseInv, SaveDies
  <1> QED
    BY <1>1, <1>4, ChecksStay DEF SaveDies, PauseInv, PauseTypeOK

LEMMA SavePolicyInv ==
    ASSUME PauseInv, NEW b \in PolicyBody, SavePolicy(b)
    PROVE  PauseInv'
  <1>1. b.value \in Column /\ b.target \in Target
    BY PauseAssumption DEF Column
  <1>2. TablesOK'
    BY <1>1 DEF PauseInv, PauseTypeOK, TablesOK, SavePolicy, Spelling
  <1>3. policy'["lower"] = policy["lower"]
    BY DEF PauseInv, PauseTypeOK, TablesOK, SavePolicy, Spelling
  <1>4. SavesKnow'
    BY <1>3 DEF PauseInv, SavesKnow, SaveKnows, Effective, SettingRows, SavePolicy, pauseHistory
  <1>5. ChecksKnow' /\ ChecksOK' /\ SavesOK' /\ PauseHistoryOK'
    BY DEF PauseInv, PauseTypeOK, ChecksKnow, CheckKnows, ChecksOK, SavesOK, PauseHistoryOK, Blocks,
           SavePolicy, pauseHistory
  <1> QED
    BY <1>2, <1>4, <1>5 DEF PauseInv, PauseTypeOK

-----------------------------------------------------------------------------
(***************************************************************************)
(* The two upserts.                                                        *)
(***************************************************************************)

\* A check that still counts as blocked after a write, and has missed no row, is
\* blocked by the rows it has still to look up.
LEMMA TouchChecks ==
    ASSUME PauseInv, NEW t \in Target, Touch(t)
    PROVE  ChecksOK' /\ ChecksKnow'
  <1> DEFINE missed(c) == \/ check[c].missed
                          \/ check[c].at \in {"global", "policy"} /\ GetsRow(check[c].target)
  <1>1. \A c \in Checker :
            check'[c] = [check[c] EXCEPT !.sure = @ /\ Blocks(setting', globals', check[c].target),
                                         !.missed = missed(c)]
    BY DEF Touch
  <1>2. \A c \in Checker : check[c] \in Check
    BY DEF PauseInv, PauseTypeOK, ChecksOK
  <1>3. \A c \in Checker :
            /\ check'[c].at = check[c].at
            /\ check'[c].target = check[c].target
            /\ check'[c].sure = (check[c].sure /\ Blocks(setting', globals', check[c].target))
            /\ check'[c].missed = missed(c)
    BY <1>1, <1>2 DEF Check
  <1>4. ChecksOK'
    <2>1. check' \in [Checker -> Check]
      BY <1>1, <1>2 DEF Check, Touch
    <2> QED
      BY <2>1, <1>3 DEF PauseInv, PauseTypeOK, ChecksOK, Touch
  <1>5. ASSUME NEW c \in Checker PROVE CheckKnows(c)'
    <2>1. CheckKnows(c)
      BY DEF PauseInv, ChecksKnow
    <2> QED
      BY <2>1, <1>3 DEF CheckKnows, GetsRow
  <1> QED
    BY <1>4, <1>5 DEF ChecksKnow

\* A request with another target knows what it knew, one with the same is overtaken.
LEMMA TouchSaves ==
    ASSUME PauseInv, NEW s \in Saver, Touch(save[s].body.target),
           \A r \in Saver : r # s => save'[r] = save[r],
           SaveKnows(s)',
           \A t \in Target : t # save[s].body.target =>
                SettingRows(t)' = SettingRows(t) /\ Effective(t)' = Effective(t)
    PROVE  SavesKnow'
  <1> SUFFICES ASSUME NEW r \in Saver, r # s PROVE SaveKnows(r)'
    BY DEF SavesKnow
  <1>1. save'[r] = save[r] /\ SaveKnows(r)
    BY DEF PauseInv, SavesKnow
  <1>2. save[r].body.target \in Target
    BY TargetTypes DEF PauseInv, PauseTypeOK, SavesOK, Save
  <1>3. CASE save[r].body.target = save[s].body.target
    <2>1. save[r].at \in {"readPolicy", "authorize", "upsertSetting"} => r \in overtaken'
      BY <1>3 DEF Touch
    <2> QED
      BY <1>1, <2>1 DEF SaveKnows
  <1>4. CASE save[r].body.target # save[s].body.target
    BY <1>1, <1>2, <1>4 DEF SaveKnows, Touch
  <1> QED
    BY <1>3, <1>4

LEMMA UpsertSettingInv ==
    ASSUME PauseInv, NEW s \in Saver, UpsertSetting(s)
    PROVE  PauseInv'
  <1> DEFINE t == save[s].body.target
             value == AsPause(save[s].body.pause)
  <1>1. save[s] \in Save /\ t \in Target /\ value \in Pause /\ value \in Column /\ value # "none"
    BY TargetTypes, PauseValues DEF PauseInv, PauseTypeOK, SavesOK, Save
  <1>2. save[s].current # "none"
    BY DEF PauseInv, PauseTypeOK, SavesOK, UpsertSetting
  <1>3. /\ SavesOK'
        /\ save'[s] = [save[s] EXCEPT !.at = "upsertPolicy"]
        /\ \A r \in Saver : r # s => save'[r] = save[r]
    BY <1>2, MoveType DEF PauseInv, PauseTypeOK, SaverPlace, UpsertSetting
  <1>4. save'[s].at = "upsertPolicy"
    BY <1>1, <1>3 DEF Save
  <1>5. SaveKnows(s)'
    BY <1>4 DEF SaveKnows
  <1>6. TablesOK' /\ PauseHistoryOK'
    BY <1>1 DEF PauseInv, PauseTypeOK, TablesOK, PauseHistoryOK, UpsertSetting, Touch
  <1>7. ASSUME NEW u \in Target, u # t
        PROVE  SettingRows(u)' = SettingRows(u) /\ Effective(u)' = Effective(u)
    <2>1. SettingRows(u)' = SettingRows(u)
      <3>1. CASE t \in Position
        BY <3>1, <1>7 DEF UpsertSetting, SettingRows, PauseInv, PauseTypeOK, TablesOK
      <3>2. CASE t \notin Position
        BY <3>2, <1>1, <1>7, TargetTypes DEF UpsertSetting, SettingRows
      <3> QED
        BY <3>1, <3>2
    <2> QED
      BY <2>1 DEF Effective, UpsertSetting
  <1>8. SavesKnow'
    BY <1>3, <1>5, <1>7, TouchSaves DEF UpsertSetting
  <1>9. ChecksOK' /\ ChecksKnow'
    BY <1>1, TouchChecks DEF UpsertSetting
  <1> QED
    BY <1>3, <1>6, <1>8, <1>9 DEF PauseInv, PauseTypeOK

LEMMA UpsertPolicyInv ==
    ASSUME PauseInv, NEW s \in Saver, UpsertPolicy(s)
    PROVE  PauseInv'
  <1> DEFINE t == save[s].body.target
             value == AsPause(save[s].body.pause)
  <1>1. save[s] \in Save /\ t \in Target /\ value \in Column
    BY TargetTypes, PauseValues DEF PauseInv, PauseTypeOK, SavesOK, Save
  <1>2. save[s].current # "none"
    BY DEF PauseInv, PauseTypeOK, SavesOK, UpsertPolicy
  <1>3. /\ SavesOK'
        /\ save'[s] = [save[s] EXCEPT !.at = "done"]
        /\ \A r \in Saver : r # s => save'[r] = save[r]
    BY <1>2, MoveType DEF PauseInv, PauseTypeOK, SaverPlace, UpsertPolicy
  <1>4. save'[s].at = "done"
    BY <1>1, <1>3 DEF Save
  <1>5. SaveKnows(s)'
    BY <1>4 DEF SaveKnows
  <1>6. policy' = [policy EXCEPT !["lower"] = [policy["lower"] EXCEPT ![t] = value]]
    BY DEF UpsertPolicy
  <1>7. policy["lower"] \in [Target -> Column] /\ policy'["lower"] = [policy["lower"] EXCEPT ![t] = value]
    BY <1>6 DEF PauseInv, PauseTypeOK, TablesOK, Spelling
  <1>8. TablesOK' /\ PauseHistoryOK'
    <2>1. policy' \in [Spelling -> [Target -> Column]]
      BY <1>1, <1>6, <1>7 DEF PauseInv, PauseTypeOK, TablesOK
    <2> QED
      BY <2>1 DEF PauseInv, PauseTypeOK, TablesOK, PauseHistoryOK, UpsertPolicy, Touch
  <1>9. ASSUME NEW u \in Target, u # t
        PROVE  SettingRows(u)' = SettingRows(u) /\ Effective(u)' = Effective(u)
    BY <1>7, <1>9 DEF UpsertPolicy, SettingRows, Effective
  <1>10. SavesKnow'
    BY <1>3, <1>5, <1>9, TouchSaves DEF UpsertPolicy
  <1>11. ChecksOK' /\ ChecksKnow'
    BY <1>1, TouchChecks DEF UpsertPolicy
  <1> QED
    BY <1>3, <1>8, <1>10, <1>11 DEF PauseInv, PauseTypeOK

-----------------------------------------------------------------------------
(***************************************************************************)
(* The steps of the check.                                                 *)
(***************************************************************************)

\* Only the calls of the check move: what they know is all there is to show.
LEMMA CheckMoves ==
    ASSUME PauseInv, UNCHANGED <<tables, save, pauseHistory>>, ChecksOK', ChecksKnow'
    PROVE  PauseInv'
  <1>1. TablesOK' /\ SavesOK' /\ PauseHistoryOK'
    BY DEF PauseInv, PauseTypeOK, TablesOK, SavesOK, PauseHistoryOK, tables, pauseHistory
  <1>2. SavesKnow'
    BY DEF PauseInv, SavesKnow, SaveKnows, Effective, SettingRows, tables, pauseHistory
  <1> QED
    BY <1>1, <1>2 DEF PauseInv, PauseTypeOK

\* The call c becomes the record new.
LEMMA OneCheckMoves ==
    ASSUME PauseInv, UNCHANGED <<tables, save, pauseHistory>>, NEW c \in Checker, NEW new \in Check,
           check' = [check EXCEPT ![c] = new],
           new.at = "position" => new.target \in Position,
           new.sure /\ ~new.missed =>
                /\ Blocks(setting, globals, new.target)
                /\ new.at \notin {"policy", "passed"}
                /\ new.at = "global" /\ new.target \in Position => setting[new.target] = "none"
    PROVE  PauseInv'
  <1>1. check \in [Checker -> Check]
    BY DEF PauseInv, PauseTypeOK, ChecksOK
  <1>3. check'[c] = new /\ \A d \in Checker : d # c => check'[d] = check[d]
    BY <1>1
  <1>2. ChecksOK'
    BY <1>1, <1>3 DEF PauseInv, PauseTypeOK, ChecksOK
  <1>4. CheckKnows(c)'
    BY <1>3 DEF CheckKnows, tables, Blocks
  <1>5. \A d \in Checker : d # c => CheckKnows(d)'
    BY <1>3 DEF PauseInv, ChecksKnow, CheckKnows, tables, Blocks
  <1> QED
    BY <1>2, <1>4, <1>5, CheckMoves DEF ChecksKnow

LEMMA LookupInv ==
    ASSUME PauseInv, NEW c \in Checker, Lookup(c)
    PROVE  PauseInv'
  <1> DEFINE here == check[c]
             moved(place) == [here EXCEPT !.at = place]
  <1>1. here \in Check /\ check \in [Checker -> Check] /\ CheckKnows(c)
    BY DEF PauseInv, PauseTypeOK, ChecksOK, ChecksKnow
  <1>2. \A place \in CheckPlace :
            /\ moved(place) \in Check
            /\ moved(place).at = place /\ moved(place).target = here.target
            /\ moved(place).sure = here.sure /\ moved(place).missed = here.missed
    BY <1>1 DEF Check
  <1>3. \A row : Verdict(c, row) =>
            \/ row = "paused" /\ check' = [check EXCEPT ![c] = moved("blocked")]
            \/ row # "paused" /\ check' = [check EXCEPT ![c] = moved("passed")]
    BY DEF Verdict
  <1>4. {"blocked", "passed", "global", "policy"} \subseteq CheckPlace \ {"position"}
    BY DEF CheckPlace
  <1>5. UNCHANGED <<tables, save, pauseHistory>>
    BY DEF Lookup, LookupPosition, LookupGlobal, LookupPolicy
  <1>6. CASE check' = [check EXCEPT ![c] = moved("blocked")]
    BY <1>1, <1>2, <1>4, <1>5, <1>6, OneCheckMoves DEF CheckKnows
  <1>7. CASE LookupPosition(c)
    <2>1. CASE setting[here.target] = "none"
      <3>1. check' = [check EXCEPT ![c] = moved("global")]
        BY <1>7, <2>1 DEF LookupPosition
      <3> QED
        BY <3>1, <1>1, <1>2, <1>4, <1>5, <2>1, OneCheckMoves DEF CheckKnows
    <2>2. CASE setting[here.target] \notin {"none", "paused"}
      <3>1. check' = [check EXCEPT ![c] = moved("passed")]
        BY <1>3, <1>7, <2>2 DEF LookupPosition
      <3>2. here.target \in Position => ~here.sure \/ here.missed
        BY <1>1, <2>2 DEF CheckKnows, Blocks
      <3>3. here.target \in Position
        BY <1>7 DEF LookupPosition, PauseInv, PauseTypeOK, ChecksOK
      <3> QED
        BY <3>1, <3>2, <3>3, <1>1, <1>2, <1>4, <1>5, OneCheckMoves
    <2>3. CASE setting[here.target] = "paused"
      BY <1>3, <1>6, <1>7, <2>3 DEF LookupPosition
    <2> QED
      BY <2>1, <2>2, <2>3
  <1>8. CASE LookupGlobal(c)
    <2>1. here.sure /\ ~here.missed => globals = {"paused"}
      BY <1>1, <1>8 DEF CheckKnows, Blocks, LookupGlobal
    <2>2. CASE globals = {}
      <3>1. check' = [check EXCEPT ![c] = moved("policy")]
        BY <1>8, <2>2 DEF LookupGlobal
      <3> QED
        BY <3>1, <1>2, <1>4, <1>5, <2>1, <2>2, OneCheckMoves
    <2>3. CASE globals # {}
      <3>1. PICK row \in globals : Verdict(c, row)
        BY <1>8, <2>3 DEF LookupGlobal
      <3>2. CASE row = "paused"
        BY <1>3, <1>6, <3>1, <3>2
      <3>3. CASE row # "paused"
        <4>1. check' = [check EXCEPT ![c] = moved("passed")] /\ (~here.sure \/ here.missed)
          BY <1>3, <3>1, <3>3, <2>1
        <4> QED
          BY <4>1, <1>2, <1>4, <1>5, OneCheckMoves
      <3> QED
        BY <3>2, <3>3
    <2> QED
      BY <2>2, <2>3
  <1>9. CASE LookupPolicy(c)
    <2>1. ~here.sure \/ here.missed
      BY <1>1, <1>9 DEF CheckKnows, LookupPolicy
    <2>2. PICK row : Verdict(c, row)
      BY <1>9 DEF LookupPolicy
    <2> QED
      BY <1>2, <1>3, <1>4, <1>5, <2>1, <2>2, OneCheckMoves
  <1> QED
    BY <1>7, <1>8, <1>9 DEF Lookup

\* A call begins with what the settings say now.
LEMMA BeginCheckInv ==
    ASSUME PauseInv, NEW c \in Checker, NEW t \in Target, BeginCheck(c, t),
           UNCHANGED <<tables, save, pauseHistory>>
    PROVE  PauseInv'
  <1> DEFINE new == BeginCheckOf(c, t)
  <1>1. new \in Check
    BY DEF BeginCheckOf, Check, CheckPlace, Blocks
  <1>2. new.at \notin {"policy", "passed"} /\ (new.at = "position" <=> t \in Position)
        /\ new.target = t /\ new.sure = Blocks(setting, globals, t)
    BY DEF BeginCheckOf
  <1>3. check' = [check EXCEPT ![c] = new]
    BY DEF BeginCheck
  <1>4. new.at = "global" => t \notin Position
    BY <1>2
  <1> QED
    BY <1>1, <1>2, <1>3, <1>4, OneCheckMoves

LEMMA EndCheckInv ==
    ASSUME PauseInv, NEW c \in Checker, check' = [check EXCEPT ![c] = NoCheck],
           UNCHANGED <<tables, save, pauseHistory>>
    PROVE  PauseInv'
  BY NoCheckType, OneCheckMoves

LEMMA SettingsNextInv == ASSUME PauseInv, SettingsNext PROVE PauseInv'
  <1>1. ASSUME NEW s \in Saver, SaverStep(s) PROVE PauseInv'
    BY <1>1, ReceiveSaveInv, ReadSettingInv, ReadPolicyInv, AuthorizeInv, UpsertSettingInv,
       UpsertPolicyInv, SaveDiesInv DEF SaverStep
  <1> QED
    BY <1>1, SavePolicyInv, LookupInv DEF SettingsNext

LEMMA PauseStutter == ASSUME PauseInv, UNCHANGED pauseVars PROVE PauseInv'
  <1>1. UNCHANGED <<tables, save, pauseHistory>> /\ check' = check
    BY DEF pauseVars, tables, pauseHistory
  <1> QED
    BY <1>1, CheckMoves DEF PauseInv, PauseTypeOK, ChecksOK, ChecksKnow, CheckKnows, tables, Blocks

LEMMA PauseInvHolds == PauseInv => PauseHolds
  BY DEF PauseInv, ChecksKnow, CheckKnows, PauseHolds

-----------------------------------------------------------------------------
(***************************************************************************)
(* Theorems about EmergencyPause by itself.                                *)
(***************************************************************************)
LEMMA PauseInvariant == PauseSpec => []PauseInv
  <1>1. PauseInit => PauseInv
    BY PauseInitInv
  <1>2. PauseInv /\ [PauseNext]_pauseVars => PauseInv'
    <2> SUFFICES ASSUME PauseInv, [PauseNext]_pauseVars PROVE PauseInv'
      OBVIOUS
    <2>1. CASE SettingsNext
      BY <2>1, SettingsNextInv
    <2>2. ASSUME NEW c \in Checker, EndCheck(c) \/ \E t \in Target : BeginCheck(c, t),
                 UNCHANGED <<tables, save, pauseHistory>>
          PROVE  PauseInv'
      BY <2>2, EndCheckInv, BeginCheckInv DEF EndCheck
    <2>3. CASE UNCHANGED pauseVars
      BY <2>3, PauseStutter
    <2> QED
      BY <2>1, <2>2, <2>3 DEF PauseNext
  <1> QED
    BY <1>1, <1>2, PTL DEF PauseSpec

\* The state of the settings, the requests and the checks is well formed
\* (automation-settings.ts, automation-emergency-check.ts).
THEOREM PauseTypeCorrect == PauseSpec => []PauseTypeOK
  <1>1. PauseInv => PauseTypeOK
    BY DEF PauseInv
  <1> QED
    BY <1>1, PauseInvariant, PTL

\* A check that the settings block from its first lookup to its verdict passes
\* only if its position got its row behind the first lookup
\* (automation-emergency-check.ts:32).
THEOREM PauseAlwaysHolds == PauseSpec => []PauseHolds
  BY PauseInvariant, PauseInvHolds, PTL

\* An operator without canPause changes no pause that nobody else changed since
\* the route read it (automation-settings.ts:159).
THEOREM PermissionAlwaysNeeded == PauseSpec => PauseNeedsPermission
  <1> DEFINE Keeps(s) ==
        save[s].at = "upsertSetting" /\ save'[s].at = "upsertPolicy"
            /\ save[s].body.by = "operator" /\ s \notin overtaken
        => Effective(save[s].body.target)' = Effective(save[s].body.target)
  <1>1. ASSUME PauseInv, [PauseNext]_pauseVars, NEW s \in Saver PROVE Keeps(s)
    <2> SUFFICES ASSUME save[s].at = "upsertSetting", save'[s].at = "upsertPolicy",
                        save[s].body.by = "operator", s \notin overtaken
                 PROVE  Effective(save[s].body.target)' = Effective(save[s].body.target)
      OBVIOUS
    <2> DEFINE t == save[s].body.target
    <2>1. save \in [Saver -> Save] /\ save[s] \in Save /\ t \in Target
      BY <1>1, TargetTypes DEF PauseInv, PauseTypeOK, SavesOK, Save
    <2>2. save' # save
      OBVIOUS
    <2>3. PICK r \in Saver : SaverStep(r)
      BY <1>1, <2>2 DEF PauseNext, SettingsNext, SavePolicy, Lookup, LookupPosition, LookupGlobal,
         LookupPolicy, pauseVars
    <2>4. \A u \in Saver : u # r => save'[u] = save[u]
      BY <2>1, <2>3 DEF SaverStep, ReceiveSave, ReadSetting, ReadPolicy, Authorize, UpsertSetting,
         UpsertPolicy, SaveDies, MoveTo
    <2>5. r = s
      BY <2>4
    <2>6. UpsertSetting(s) \/ SaveDies(s)
      BY <2>3, <2>5 DEF SaverStep, ReceiveSave, ReadSetting, ReadPolicy, Authorize, UpsertPolicy
    <2>7. UpsertSetting(s)
      <3>1. SaveDies(s) => save'[s].at = "dead"
        BY <2>1 DEF SaveDies, MoveTo, Save
      <3> QED
        BY <2>6, <3>1
    <2>8. save'[s].body = save[s].body
      BY <2>1, <2>7 DEF UpsertSetting, MoveTo, Save
    <2>9. AsPause(save[s].body.pause) \in Effective(t)
      BY <1>1 DEF PauseInv, SavesKnow, SaveKnows
    <2>10. SettingRows(t)' = IF t \in Position THEN {AsPause(save[s].body.pause)}
                             ELSE globals \cup {AsPause(save[s].body.pause)}
      <3>1. AsPause(save[s].body.pause) # "none"
        BY <2>1, TargetTypes, PauseValues DEF Save
      <3>2. t' = t
        BY <2>8
      <3>3. CASE t \in Position
        <4>1. setting'[t] = AsPause(save[s].body.pause)
          BY <1>1, <2>7, <3>3 DEF UpsertSetting, PauseInv, PauseTypeOK, TablesOK
        <4> QED
          BY <4>1, <3>1, <3>2, <3>3 DEF SettingRows
      <3>4. CASE t \notin Position
        <4>1. globals' = globals \cup {AsPause(save[s].body.pause)}
          BY <2>7, <3>4 DEF UpsertSetting
        <4> QED
          BY <4>1, <3>2, <3>4 DEF SettingRows
      <3> QED
        BY <3>3, <3>4
    <2>11. CASE t \in Position
      BY <2>8, <2>9, <2>10, <2>11 DEF Effective, SettingRows
    <2>12. CASE t \notin Position
      BY <2>8, <2>9, <2>10, <2>12 DEF Effective, SettingRows
    <2> QED
      BY <2>11, <2>12
  <1>2. PauseInv /\ [PauseNext]_pauseVars => [\A s \in Saver : Keeps(s)]_pauseVars
    BY <1>1
  <1> QED
    BY <1>2, PauseInvariant, PTL DEF PauseSpec, PauseNeedsPermission

-----------------------------------------------------------------------------
(***************************************************************************)
(* The daemon.  Its variables and the ones of the pause are typed apart,   *)
(* so that a step has to show only what it moves.                          *)
(***************************************************************************)
GuardsOK == running \in BOOLEAN /\ inTick \in BOOLEAN /\ throws \in 0 .. MaxThrows
JobsOK == job \in [Wallet -> JobStatus]
PlacesOK ==
    /\ at \in [Actor -> Place]
    /\ todo \in [Actor -> SUBSET Wallet]
    /\ kind \in [Actor -> Kind]
    /\ \A t \in Tick : at[t] \in TickPlace /\ kind[t] = "tick"
    /\ \A r \in Request : at[r] \in RequestPlace /\ (at[r] # "idle" => kind[r] \in RequestKind)
    /\ \A a \in Actor : at[a] \in {"check", "strategyCheck"} => todo[a] # {}

DaemonInv == GuardsOK /\ JobsOK /\ PlacesOK /\ OneTickAtATime
IInv == PauseInv /\ DaemonInv

LEMMA TypeFromIInv == IInv => TypeOK
  BY DEF IInv, DaemonInv, GuardsOK, JobsOK, PlacesOK, PauseInv, TypeOK

LEMMA ActorTypes ==
    /\ Tick \subseteq Actor /\ Request \subseteq Actor /\ Actor = Checker
    /\ \A a \in Actor : a \in Tick <=> a \notin Request
    /\ "tick" \in Kind /\ "tick" \notin RequestKind /\ RequestKind \subseteq Kind
    /\ Managed \in Wallet /\ JobTarget \in Target
  BY DaemonAssumption DEF Actor, Kind

\* The actor a goes to a place of its kind without starting or ending a tick.
LEMMA ActorMoves ==
    ASSUME DaemonInv, NEW a \in Actor, NEW place \in Place, NEW wallets \in SUBSET Wallet,
           Goto(a, place), Do(a, wallets), UNCHANGED <<inTick, kind>>,
           a \in Tick => /\ place \in TickPlace
                         /\ at[a] # "idle" /\ place # "idle",
           a \in Request => place \in RequestPlace \ {"idle"} /\ kind[a] \in RequestKind,
           place \in {"check", "strategyCheck"} => wallets # {}
    PROVE  PlacesOK' /\ OneTickAtATime'
  <1>1. /\ at' \in [Actor -> Place] /\ todo' \in [Actor -> SUBSET Wallet]
        /\ at'[a] = place /\ todo'[a] = wallets
        /\ \A b \in Actor : b # a => at'[b] = at[b] /\ todo'[b] = todo[b]
    BY DEF DaemonInv, PlacesOK, Goto, Do
  <1>2. PlacesOK'
    BY <1>1, ActorTypes DEF DaemonInv, PlacesOK
  <1>3. \A t \in Tick : Busy(t)' <=> Busy(t)
    BY <1>1, ActorTypes DEF Busy
  <1> QED
    BY <1>2, <1>3 DEF DaemonInv, OneTickAtATime

\* The same when the list of wallets stays.
LEMMA ActorGoes ==
    ASSUME DaemonInv, NEW a \in Actor, NEW place \in Place,
           Goto(a, place), UNCHANGED <<inTick, kind, todo>>,
           a \in Tick => /\ place \in TickPlace
                         /\ at[a] # "idle" /\ place # "idle",
           a \in Request => place \in RequestPlace \ {"idle"} /\ kind[a] \in RequestKind,
           place \in {"check", "strategyCheck"} => todo[a] # {}
    PROVE  PlacesOK' /\ OneTickAtATime'
  <1>1. todo[a] \in SUBSET Wallet /\ Do(a, todo[a])
    BY DEF DaemonInv, PlacesOK, Do
  <1> QED
    BY <1>1, ActorMoves

LEMMA DaemonStutter == ASSUME DaemonInv, UNCHANGED daemonVars PROVE DaemonInv'
  BY DEF DaemonInv, GuardsOK, JobsOK, PlacesOK, OneTickAtATime, Busy, daemonVars

LEMMA InitInv == ASSUME Init PROVE IInv
  <1>1. PauseInv
    BY PauseInitInv DEF Init
  <1>2. GuardsOK /\ JobsOK
    <2>1. 0 \in 0 .. MaxThrows
      BY DaemonAssumption
    <2>2. GuardsOK
      BY <2>1 DEF Init, GuardsOK
    <2>3. JobsOK
      BY DEF Init, JobsOK, JobStatus
    <2> QED
      BY <2>2, <2>3
  <1>3. PlacesOK
    BY ActorTypes DEF Init, PlacesOK, Place, TickPlace, RequestPlace
  <1>4. OneTickAtATime
    BY ActorTypes DEF Init, OneTickAtATime, Busy
  <1> QED
    BY <1>1, <1>2, <1>3, <1>4 DEF IInv, DaemonInv

-----------------------------------------------------------------------------
(***************************************************************************)
(* One lemma per action of the daemon and of the requests.                 *)
(***************************************************************************)
LEMMA RunTickInv == ASSUME IInv, NEW t \in Tick, RunTick(t) PROVE IInv'
  <1>1. PauseInv'
    BY PauseStutter DEF IInv, RunTick
  <1>2. GuardsOK' /\ JobsOK'
    BY DEF IInv, DaemonInv, GuardsOK, JobsOK, RunTick
  <1>3. at' = [at EXCEPT ![t] = "evaluate"] /\ t \in Actor /\ t \notin Request
    BY ActorTypes DEF RunTick, Goto
  <1>4. at'[t] = "evaluate" /\ \A b \in Actor : b # t => at'[b] = at[b]
    BY <1>3 DEF IInv, DaemonInv, PlacesOK
  <1>5. "evaluate" \in Place /\ "evaluate" \in TickPlace
    BY DEF Place, TickPlace
  <1>6. PlacesOK'
    BY <1>3, <1>4, <1>5, ActorTypes DEF IInv, DaemonInv, PlacesOK, RunTick
  <1>7. OneTickAtATime'
    BY <1>4, ActorTypes DEF IInv, DaemonInv, OneTickAtATime, Busy, RunTick
  <1> QED
    BY <1>1, <1>2, <1>6, <1>7 DEF IInv, DaemonInv

LEMMA StartStopInv == ASSUME IInv, Start \/ Stop PROVE IInv'
  <1>1. PauseInv'
    BY PauseStutter DEF IInv, Start, Stop
  <1>2. GuardsOK' /\ JobsOK'
    BY DEF IInv, DaemonInv, GuardsOK, JobsOK, Start, Stop
  <1>3. PlacesOK' /\ OneTickAtATime'
    BY DEF IInv, DaemonInv, PlacesOK, OneTickAtATime, Busy, Start, Stop
  <1> QED
    BY <1>1, <1>2, <1>3 DEF IInv, DaemonInv

\* A tick at work is in a tick's place.
LEMMA AtWork ==
    ASSUME DaemonInv, NEW a \in Actor
    PROVE  /\ a \in Tick => at[a] \in TickPlace /\ kind[a] = "tick"
           /\ a \in Request => /\ at[a] \in RequestPlace
                               /\ at[a] # "idle" => kind[a] \in RequestKind /\ kind[a] # "tick"
           /\ todo[a] \in SUBSET Wallet
           /\ at[a] \in {"check", "strategyCheck"} => todo[a] # {}
  BY ActorTypes DEF DaemonInv, PlacesOK

LEMMA EvaluateInv == ASSUME IInv, NEW t \in Tick, Evaluate(t) \/ StrategyIdle(t) PROVE IInv'
  <1>1. PauseInv'
    BY PauseStutter DEF IInv, Evaluate, StrategyIdle
  <1>2. GuardsOK' /\ JobsOK'
    BY DEF IInv, DaemonInv, GuardsOK, JobsOK, Evaluate, StrategyIdle
  <1>3. PICK place \in {"strategy", "retry"} : Goto(t, place)
    BY DEF Evaluate, StrategyIdle
  <1>4. place \in Place /\ place \in TickPlace /\ place # "idle" /\ place \notin {"check", "strategyCheck"}
    BY DEF Place, TickPlace
  <1>5. at[t] # "idle" /\ UNCHANGED <<inTick, kind, todo>>
    BY DEF Evaluate, StrategyIdle
  <1>6. PlacesOK' /\ OneTickAtATime'
    BY <1>3, <1>4, <1>5, ActorGoes, ActorTypes DEF IInv
  <1> QED
    BY <1>1, <1>2, <1>6 DEF IInv, DaemonInv

LEMMA StrategyActsInv == ASSUME IInv, NEW t \in Tick, StrategyActs(t) PROVE IInv'
  <1>1. PauseInv'
    BY BeginCheckInv, ActorTypes DEF IInv, StrategyActs, settingVars
  <1>2. GuardsOK' /\ JobsOK'
    BY ActorTypes DEF IInv, DaemonInv, GuardsOK, JobsOK, JobStatus, StrategyActs
  <1>3. "strategyCheck" \in Place /\ "strategyCheck" \in TickPlace /\ {Managed} \in SUBSET Wallet
        /\ {Managed} # {}
    BY ActorTypes DEF Place, TickPlace
  <1>4. PlacesOK' /\ OneTickAtATime'
    BY <1>3, ActorMoves, ActorTypes DEF IInv, StrategyActs
  <1> QED
    BY <1>1, <1>2, <1>4 DEF IInv, DaemonInv

LEMMA RetryFailedInv == ASSUME IInv, NEW a \in Actor, RetryFailed(a) PROVE IInv'
  <1>1. PauseInv'
    BY PauseStutter DEF IInv, RetryFailed
  <1>2. GuardsOK' /\ JobsOK'
    BY DEF IInv, DaemonInv, GuardsOK, JobsOK, JobStatus, RetryFailed, Requeue
  <1> DEFINE place == IF kind[a] = "tick" THEN "list" ELSE "job"
  <1>3. place \in Place /\ place \notin {"idle", "check", "strategyCheck"}
        /\ (kind[a] = "tick" => place \in TickPlace) /\ (kind[a] # "tick" => place \in RequestPlace)
    BY DEF Place, TickPlace, RequestPlace
  <1>4. at[a] # "idle" /\ Goto(a, place) /\ UNCHANGED <<inTick, kind, todo>>
    BY DEF RetryFailed
  <1>5. PlacesOK' /\ OneTickAtATime'
    BY <1>3, <1>4, ActorGoes, AtWork DEF IInv
  <1> QED
    BY <1>1, <1>2, <1>5 DEF IInv, DaemonInv

LEMMA ListWalletsInv == ASSUME IInv, NEW t \in Tick, ListWallets(t) PROVE IInv'
  <1>1. PauseInv'
    BY PauseStutter DEF IInv, ListWallets
  <1>2. GuardsOK' /\ JobsOK'
    BY DEF IInv, DaemonInv, GuardsOK, JobsOK, ListWallets
  <1> DEFINE listed == {w \in PendingWallets : Cardinality({v \in PendingWallets : v < w}) < MaxWallets}
  <1>4. listed \in SUBSET Wallet
    BY DEF PendingWallets
  <1>5. "job" \in Place /\ "job" \in TickPlace
    BY DEF Place, TickPlace
  <1>6. PlacesOK' /\ OneTickAtATime'
    BY <1>4, <1>5, ActorMoves, ActorTypes DEF IInv, ListWallets
  <1> QED
    BY <1>1, <1>2, <1>6 DEF IInv, DaemonInv

LEMMA SkipWalletInv == ASSUME IInv, NEW a \in Actor, SkipWallet(a) PROVE IInv'
  <1>1. PauseInv'
    BY PauseStutter DEF IInv, SkipWallet
  <1>2. GuardsOK' /\ JobsOK'
    BY DEF IInv, DaemonInv, GuardsOK, JobsOK, SkipWallet
  <1>3. Goto(a, "job") /\ todo[a] \ {Current(a)} \in SUBSET Wallet
    BY DEF SkipWallet, Goto, IInv, DaemonInv, PlacesOK
  <1>4. "job" \in Place /\ "job" \in TickPlace /\ "job" \in RequestPlace
    BY DEF Place, TickPlace, RequestPlace
  <1>5. PlacesOK' /\ OneTickAtATime'
    BY <1>3, <1>4, ActorMoves, AtWork DEF IInv, SkipWallet, NextWallet
  <1> QED
    BY <1>1, <1>2, <1>5 DEF IInv, DaemonInv

LEMMA SelectJobInv == ASSUME IInv, NEW a \in Actor, SelectJob(a) PROVE IInv'
  <1>1. PauseInv'
    <2>1. CASE Current(a) = Managed
      BY <2>1, BeginCheckInv, ActorTypes DEF IInv, SelectJob, settingVars
    <2>2. CASE Current(a) # Managed
      <3>1. UNCHANGED pauseVars
        BY <2>2 DEF SelectJob, settingVars, pauseVars, tables, pauseHistory
      <3> QED
        BY <3>1, PauseStutter DEF IInv
    <2> QED
      BY <2>1, <2>2
  <1>2. GuardsOK' /\ JobsOK'
    BY DEF IInv, DaemonInv, GuardsOK, JobsOK, SelectJob
  <1>3. "check" \in Place /\ "check" \in TickPlace /\ "check" \in RequestPlace
    BY DEF Place, TickPlace, RequestPlace
  <1>4. PlacesOK' /\ OneTickAtATime'
    BY <1>3, ActorGoes, AtWork DEF IInv, SelectJob
  <1> QED
    BY <1>1, <1>2, <1>4 DEF IInv, DaemonInv

\* An actor is done with its job.
LEMMA AfterJobMoves ==
    ASSUME DaemonInv, NEW a \in Actor, at[a] \in {"check", "strategyCheck"}, AfterJob(a),
           UNCHANGED <<inTick, kind>>
    PROVE  PlacesOK' /\ OneTickAtATime'
  <1> DEFINE place == IF at[a] = "strategyCheck" THEN "retry" ELSE "job"
  <1>1. place \in Place /\ place \in TickPlace /\ place \in RequestPlace
        /\ place \notin {"idle", "check", "strategyCheck"}
    BY DEF Place, TickPlace, RequestPlace
  <1>2. todo[a] \ {Current(a)} \in SUBSET Wallet
    BY DEF DaemonInv, PlacesOK
  <1>3. Goto(a, place) /\ Do(a, todo[a] \ {Current(a)}) /\ at[a] # "idle"
    BY DEF AfterJob, NextWallet
  <1> QED
    BY <1>1, <1>2, <1>3, ActorMoves, AtWork

LEMMA ExecuteJobInv == ASSUME IInv, NEW a \in Actor, ExecuteJob(a) PROVE IInv'
  <1>1. PauseInv'
    <2>1. CASE Current(a) = Managed
      BY <2>1, EndCheckInv, ActorTypes DEF IInv, ExecuteJob, EndCheck, settingVars
    <2>2. CASE Current(a) # Managed
      <3>1. UNCHANGED pauseVars
        BY <2>2 DEF ExecuteJob, settingVars, pauseVars, tables, pauseHistory
      <3> QED
        BY <3>1, PauseStutter DEF IInv
    <2> QED
      BY <2>1, <2>2
  <1>2. GuardsOK' /\ JobsOK'
    <2>1. \E outcome \in {"FAILED", "SUCCEEDED"} : job' = [job EXCEPT ![Current(a)] = outcome]
      BY DEF ExecuteJob
    <2> QED
      BY <2>1 DEF IInv, DaemonInv, GuardsOK, JobsOK, JobStatus, ExecuteJob
  <1>3. PlacesOK' /\ OneTickAtATime'
    BY AfterJobMoves DEF IInv, ExecuteJob
  <1> QED
    BY <1>1, <1>2, <1>3 DEF IInv, DaemonInv

LEMMA EndLoopInv == ASSUME IInv, NEW a \in Actor, EndLoop(a) PROVE IInv'
  <1>1. PauseInv'
    BY PauseStutter DEF IInv, EndLoop
  <1>2. GuardsOK' /\ JobsOK'
    BY DEF IInv, DaemonInv, GuardsOK, JobsOK, EndLoop
  <1> DEFINE place == IF kind[a] = "tick" THEN "log" ELSE "done"
  <1>3. place \in Place /\ place \notin {"idle", "check", "strategyCheck"}
        /\ (kind[a] = "tick" => place \in TickPlace) /\ (kind[a] # "tick" => place \in RequestPlace)
    BY DEF Place, TickPlace, RequestPlace
  <1>4. at[a] # "idle" /\ Goto(a, place) /\ UNCHANGED <<inTick, kind, todo>>
    BY DEF EndLoop
  <1>5. PlacesOK' /\ OneTickAtATime'
    BY <1>3, <1>4, ActorGoes, AtWork DEF IInv
  <1> QED
    BY <1>1, <1>2, <1>5 DEF IInv, DaemonInv

LEMMA EndTickInv == ASSUME IInv, NEW t \in Tick, EndTick(t) PROVE IInv'
  <1>1. PauseInv'
    BY PauseStutter DEF IInv, EndTick
  <1>2. GuardsOK' /\ JobsOK'
    BY DEF IInv, DaemonInv, GuardsOK, JobsOK, EndTick
  <1>3. t \in Actor /\ t \notin Request /\ at'[t] = "idle" /\ \A b \in Actor : b # t => at'[b] = at[b]
    BY ActorTypes DEF IInv, DaemonInv, PlacesOK, EndTick, Goto
  <1>4. "idle" \in Place /\ "idle" \in TickPlace
    BY DEF Place, TickPlace
  <1>5. PlacesOK'
    BY <1>3, <1>4, ActorTypes DEF IInv, DaemonInv, PlacesOK, EndTick, Goto
  <1>6. OneTickAtATime'
    BY <1>3, ActorTypes DEF IInv, DaemonInv, OneTickAtATime, Busy, EndTick
  <1> QED
    BY <1>1, <1>2, <1>5, <1>6 DEF IInv, DaemonInv

LEMMA ReceiveInv ==
    ASSUME IInv, NEW r \in Request, NEW k \in RequestKind, NEW w \in Wallet, Receive(r, k, w)
    PROVE  IInv'
  <1>1. PauseInv'
    <2>1. CASE k = "executeNow" /\ w = Managed
      BY <2>1, BeginCheckInv, ActorTypes DEF IInv, Receive, settingVars
    <2>2. CASE ~(k = "executeNow" /\ w = Managed)
      <3>1. UNCHANGED pauseVars
        BY <2>2 DEF Receive, settingVars, pauseVars, tables, pauseHistory
      <3> QED
        BY <3>1, PauseStutter DEF IInv
    <2> QED
      BY <2>1, <2>2
  <1>2. GuardsOK' /\ JobsOK'
    BY DEF IInv, DaemonInv, GuardsOK, JobsOK, Receive
  <1>3. PICK place \in {"precheck", "retry", "enqueue"} : Goto(r, place)
    BY DEF Receive
  <1>4. r \in Actor /\ r \notin Tick /\ place \in Place /\ place \in RequestPlace
        /\ place \notin {"idle", "check", "strategyCheck"}
    BY ActorTypes DEF Place, RequestPlace
  <1>5. /\ at' \in [Actor -> Place] /\ kind' \in [Actor -> Kind] /\ todo' \in [Actor -> SUBSET Wallet]
        /\ at'[r] = place /\ kind'[r] = k
        /\ \A b \in Actor : b # r => at'[b] = at[b] /\ kind'[b] = kind[b] /\ todo'[b] = todo[b]
    BY <1>3, <1>4, ActorTypes DEF IInv, DaemonInv, PlacesOK, Receive, Goto, Do
  <1>6. PlacesOK'
    BY <1>4, <1>5, ActorTypes DEF IInv, DaemonInv, PlacesOK
  <1>7. OneTickAtATime'
    BY <1>4, <1>5, ActorTypes DEF IInv, DaemonInv, OneTickAtATime, Busy, Receive
  <1> QED
    BY <1>1, <1>2, <1>6, <1>7 DEF IInv, DaemonInv

LEMMA EndPrecheckInv == ASSUME IInv, NEW r \in Request, EndPrecheck(r) PROVE IInv'
  <1>1. PauseInv'
    BY EndCheckInv, ActorTypes DEF IInv, EndPrecheck, EndCheck, settingVars
  <1>2. GuardsOK' /\ JobsOK'
    BY DEF IInv, DaemonInv, GuardsOK, JobsOK, EndPrecheck
  <1>3. PICK place \in {"done", "enqueue"} : Goto(r, place)
    BY DEF EndPrecheck
  <1>4. place \in Place /\ place \in RequestPlace /\ place \notin {"idle", "check", "strategyCheck"}
    BY DEF Place, RequestPlace
  <1>5. r \in Actor /\ r \notin Tick /\ at[r] # "idle" /\ UNCHANGED <<inTick, kind, todo>>
    BY ActorTypes DEF EndPrecheck
  <1>6. PlacesOK' /\ OneTickAtATime'
    BY <1>3, <1>4, <1>5, ActorGoes, AtWork DEF IInv
  <1> QED
    BY <1>1, <1>2, <1>6 DEF IInv, DaemonInv

LEMMA EnqueueInv == ASSUME IInv, NEW r \in Request, Enqueue(r) PROVE IInv'
  <1>1. PauseInv'
    BY PauseStutter DEF IInv, Enqueue
  <1>2. GuardsOK' /\ JobsOK'
    BY DEF IInv, DaemonInv, GuardsOK, JobsOK, JobStatus, Enqueue
  <1>3. PICK place \in {"done", "job"} : Goto(r, place)
    BY DEF Enqueue
  <1>4. place \in Place /\ place \in RequestPlace /\ place \notin {"idle", "check", "strategyCheck"}
    BY DEF Place, RequestPlace
  <1>5. r \in Actor /\ r \notin Tick /\ at[r] # "idle" /\ UNCHANGED <<inTick, kind, todo>>
    BY ActorTypes DEF Enqueue
  <1>6. PlacesOK' /\ OneTickAtATime'
    BY <1>3, <1>4, <1>5, ActorGoes, AtWork DEF IInv
  <1> QED
    BY <1>1, <1>2, <1>6 DEF IInv, DaemonInv

\* Another failure is still counted.
LEMMA ThrowsCount == ASSUME GuardsOK, throws < MaxThrows PROVE throws + 1 \in 0 .. MaxThrows
  BY DaemonAssumption DEF GuardsOK

\* The finally clause is still to come: the tick stays at work.
LEMMA ThrowInv == ASSUME IInv, NEW a \in Actor, Throw(a) PROVE IInv'
  <1>1. PauseInv'
    BY EndCheckInv, ActorTypes DEF IInv, Throw, settingVars
  <1>2. GuardsOK' /\ JobsOK'
    BY ThrowsCount DEF IInv, DaemonInv, GuardsOK, JobsOK, Throw
  <1>3. /\ Leave(a) \in Place /\ Leave(a) \notin {"idle", "check", "strategyCheck"}
        /\ kind[a] = "tick" => Leave(a) \in TickPlace
        /\ kind[a] # "tick" => Leave(a) \in RequestPlace
    BY DEF Place, TickPlace, RequestPlace, Leave
  <1>4. Goto(a, Leave(a)) /\ Do(a, {}) /\ at[a] # "idle" /\ UNCHANGED <<inTick, kind>>
        /\ {} \in SUBSET Wallet
    BY DEF Throw
  <1>5. PlacesOK' /\ OneTickAtATime'
    BY <1>3, <1>4, ActorMoves, AtWork DEF IInv
  <1> QED
    BY <1>1, <1>2, <1>5 DEF IInv, DaemonInv

LEMMA JobThrowsInv == ASSUME IInv, NEW a \in Actor, JobThrows(a) PROVE IInv'
  <1>1. PauseInv'
    BY EndCheckInv, ActorTypes DEF IInv, JobThrows, settingVars
  <1>2. GuardsOK' /\ JobsOK'
    BY ThrowsCount DEF IInv, DaemonInv, GuardsOK, JobsOK, JobStatus, JobThrows
  <1>3. PlacesOK' /\ OneTickAtATime'
    BY AfterJobMoves DEF IInv, JobThrows
  <1> QED
    BY <1>1, <1>2, <1>3 DEF IInv, DaemonInv

LEMMA CatchThrowsInv == ASSUME IInv, NEW a \in Actor, CatchThrows(a) PROVE IInv'
  <1>1. PauseInv'
    BY EndCheckInv, ActorTypes DEF IInv, CatchThrows, settingVars
  <1>2. Current(a) \in Wallet => {job[Current(a)]} \cup MarksOf(a) \subseteq JobStatus
    BY DEF MarksOf, JobStatus, IInv, DaemonInv, JobsOK
  <1>3. PICK mark \in {job[Current(a)]} \cup MarksOf(a) : job' = [job EXCEPT ![Current(a)] = mark]
    BY DEF CatchThrows
  <1>4. GuardsOK' /\ JobsOK'
    <2>1. JobsOK'
      BY <1>2, <1>3 DEF IInv, DaemonInv, JobsOK
    <2> QED
      BY <2>1, ThrowsCount DEF IInv, DaemonInv, GuardsOK, CatchThrows
  <1> DEFINE place == IF at[a] = "strategyCheck" THEN "retry" ELSE Leave(a)
  <1>5. /\ place \in Place /\ place \notin {"idle", "check", "strategyCheck"}
        /\ kind[a] = "tick" => place \in TickPlace
        /\ kind[a] # "tick" => place \in RequestPlace
    BY DEF Place, TickPlace, RequestPlace, Leave
  <1>6. Goto(a, place) /\ Do(a, {}) /\ at[a] # "idle" /\ UNCHANGED <<inTick, kind>> /\ {} \in SUBSET Wallet
    BY DEF CatchThrows
  <1>7. PlacesOK' /\ OneTickAtATime'
    BY <1>5, <1>6, ActorMoves, AtWork DEF IInv
  <1> QED
    BY <1>1, <1>4, <1>7 DEF IInv, DaemonInv

LEMMA CrashInv == ASSUME IInv, Crash PROVE IInv'
  <1>1. ChecksOK' /\ ChecksKnow'
    BY NoCheckType DEF Crash, ChecksOK, ChecksKnow, CheckKnows
  <1>2. ASSUME NEW s \in Saver
        PROVE  /\ save'[s] \in Save
               /\ save'[s] = save[s] \/ save'[s].at = "dead"
               /\ save'[s].at \in {"authorize", "upsertSetting", "upsertPolicy", "done"}
                    => save'[s] = save[s]
    <2>1. save[s] \in Save /\ "dead" \in SaverPlace
      BY DEF IInv, PauseInv, PauseTypeOK, SavesOK, SaverPlace
    <2>2. [save[s] EXCEPT !.at = "dead"] \in Save /\ [save[s] EXCEPT !.at = "dead"].at = "dead"
      BY <2>1 DEF Save
    <2> QED
      BY <2>1, <2>2 DEF Crash
  <1>3. SavesOK'
    <2>1. save' = [s \in Saver |-> save'[s]]
      BY DEF Crash
    <2>2. save' \in [Saver -> Save]
      BY <1>2, <2>1
    <2> QED
      BY <1>2, <2>2 DEF IInv, PauseInv, PauseTypeOK, SavesOK
  <1>4. SavesKnow'
    <2> SUFFICES ASSUME NEW s \in Saver PROVE SaveKnows(s)'
      BY DEF SavesKnow
    <2>1. CASE save'[s] = save[s]
      <3>1. /\ SettingRows(save[s].body.target)' = SettingRows(save[s].body.target)
            /\ Effective(save[s].body.target)' = Effective(save[s].body.target)
        BY <2>1 DEF SettingRows, Effective, tables, Crash
      <3> QED
        BY <2>1, <3>1 DEF IInv, PauseInv, SavesKnow, SaveKnows, Crash, pauseHistory
    <2>2. CASE save'[s].at = "dead"
      BY <2>2 DEF SaveKnows
    <2> QED
      BY <1>2, <2>1, <2>2
  <1>5. PauseInv'
    BY <1>1, <1>3, <1>4 DEF IInv, PauseInv, PauseTypeOK, TablesOK, PauseHistoryOK, Crash, tables,
       pauseHistory
  <1>6. GuardsOK' /\ JobsOK'
    BY DEF IInv, DaemonInv, GuardsOK, JobsOK, Crash
  <1>7. "idle" \in TickPlace /\ "idle" \in Place /\ "done" \in Place /\ "done" \in RequestPlace
        /\ "idle" \in RequestPlace
    BY DEF Place, TickPlace, RequestPlace
  <1>8. /\ \A t \in Tick : at'[t] = "idle"
        /\ \A a \in Actor : at'[a] \in {"idle", "done"}
        /\ \A r \in Request : at'[r] # "idle" => at[r] # "idle"
    BY ActorTypes DEF Crash
  <1>9. PlacesOK'
    <2>1. at' \in [Actor -> Place] /\ todo' \in [Actor -> SUBSET Wallet]
      BY <1>7 DEF Crash
    <2>2. kind' = kind /\ PlacesOK
      BY DEF IInv, DaemonInv, Crash
    <2>3. \A t \in Tick : at'[t] \in TickPlace /\ kind'[t] = "tick"
      BY <1>7, <1>8, <2>2 DEF PlacesOK
    <2>4. \A r \in Request : at'[r] \in RequestPlace /\ (at'[r] # "idle" => kind'[r] \in RequestKind)
      BY <1>7, <1>8, <2>2, ActorTypes DEF PlacesOK
    <2>5. \A a \in Actor : at'[a] \in {"check", "strategyCheck"} => todo'[a] # {}
      BY <1>8
    <2> QED
      BY <2>1, <2>2, <2>3, <2>4, <2>5 DEF PlacesOK
  <1>10. OneTickAtATime'
    BY <1>8 DEF OneTickAtATime, Busy, Crash
  <1> QED
    BY <1>5, <1>6, <1>9, <1>10 DEF IInv, DaemonInv

-----------------------------------------------------------------------------
(***************************************************************************)
(* The theorems of the daemon.                                             *)
(***************************************************************************)
LEMMA NextInv == ASSUME IInv, [Next]_vars PROVE IInv'
  <1>1. ASSUME NEW t \in Tick, RunTick(t) \/ TickStep(t) PROVE IInv'
    BY <1>1, RunTickInv, EvaluateInv, StrategyActsInv, ListWalletsInv, EndTickInv DEF TickStep
  <1>2. ASSUME NEW r \in Request, RequestStep(r) PROVE IInv'
    BY <1>2, ReceiveInv, EndPrecheckInv, EnqueueInv DEF RequestStep
  <1>3. ASSUME NEW a \in Actor, ActorStep(a) \/ Failure(a) PROVE IInv'
    BY <1>3, RetryFailedInv, SkipWalletInv, SelectJobInv, ExecuteJobInv, EndLoopInv, ThrowInv,
       JobThrowsInv, CatchThrowsInv DEF ActorStep, Failure
  <1>4. CASE Start \/ Stop \/ Crash
    BY <1>4, StartStopInv, CrashInv
  <1>5. CASE SettingsNext /\ UNCHANGED daemonVars
    BY <1>5, SettingsNextInv, DaemonStutter DEF IInv
  <1>6. CASE UNCHANGED vars
    BY <1>6, PauseStutter, DaemonStutter DEF IInv, vars
  <1> QED
    BY <1>1, <1>2, <1>3, <1>4, <1>5, <1>6 DEF Next

LEMMA Invariant == Spec => []IInv
  <1>1. Init => IInv
    BY InitInv
  <1>2. IInv /\ [Next]_vars => IInv'
    BY NextInv
  <1> QED
    BY <1>1, <1>2, PTL DEF Spec

\* The daemon's flags, its ticks' places and the jobs are well formed
\* (automation-daemon.ts).
THEOREM TypeCorrect == Spec => []TypeOK
  BY Invariant, TypeFromIInv, PTL

\* inTick is set exactly while one tick is at work (automation-daemon.ts:119).
THEOREM OneTickAlways == Spec => []OneTickAtATime
  <1>1. IInv => OneTickAtATime
    BY DEF IInv, DaemonInv
  <1> QED
    BY <1>1, Invariant, PTL

\* A check of the daemon or of a route passes a target that the settings block all
\* the time only if its position got its row behind the first lookup, through
\* ticks, exceptions and restarts (automation-emergency-check.ts:32).
THEOREM DaemonPauseHolds == Spec => []PauseHolds
  <1>1. IInv => PauseHolds
    BY PauseInvHolds DEF IInv
  <1> QED
    BY <1>1, Invariant, PTL

\* A job whose target is paused from the first lookup of its check on fails, also
\* when a statement or the catch clause throws, unless its position got its row
\* behind that lookup (automation-executor.ts:171).
THEOREM PausedJobsAlwaysFail == Spec => PausedJobsFail
  <1> DEFINE Fails(a) ==
        at[a] \in {"check", "strategyCheck"} /\ at'[a] # at[a]
                /\ Current(a) = Managed /\ check[a].sure /\ ~check[a].missed
            => job'[Managed] \in {job[Managed], "FAILED"}
  <1>1. ASSUME IInv, [Next]_vars, NEW a \in Actor PROVE Fails(a)
    <2> SUFFICES ASSUME at[a] \in {"check", "strategyCheck"}, at'[a] # at[a],
                        Current(a) = Managed, check[a].sure, ~check[a].missed
                 PROVE  job'[Managed] \in {job[Managed], "FAILED"}
      OBVIOUS
    <2>1. at \in [Actor -> Place] /\ job \in [Wallet -> JobStatus] /\ Managed \in Wallet
      BY <1>1, ActorTypes DEF IInv, DaemonInv, PlacesOK, JobsOK
    <2>2. \A b \in Actor : \A place : Goto(b, place) => b = a
      BY <2>1 DEF Goto
    <2>3. check[a].at # "passed"
      BY <1>1, ActorTypes, PauseInvHolds DEF IInv, PauseHolds
    <2>4. ASSUME NEW b \in Actor, ExecuteJob(b) PROVE job'[Managed] = "FAILED"
      <3>1. b = a
        BY <2>2, <2>4 DEF ExecuteJob, AfterJob
      <3>2. check[a].at = "blocked"
        BY <2>4, <2>3, <3>1 DEF ExecuteJob, EndCheck
      <3>3. job' = [job EXCEPT ![Managed] = "FAILED"]
        BY <2>4, <3>1, <3>2 DEF ExecuteJob
      <3> QED
        BY <2>1, <3>3
    <2>5. ASSUME NEW b \in Actor, Failure(b) PROVE job'[Managed] \in {job[Managed], "FAILED"}
      <3>1. b = a
        BY <2>2, <2>5 DEF Failure, Throw, JobThrows, CatchThrows, AfterJob
      <3>2. MarksOf(a) \subseteq {"FAILED"}
        BY <2>3 DEF MarksOf
      <3>3. CASE CatchThrows(a)
        <4>1. PICK mark \in {job[Managed], "FAILED"} : job' = [job EXCEPT ![Managed] = mark]
          BY <3>2, <3>3 DEF CatchThrows
        <4> QED
          BY <2>1, <4>1
      <3> QED
        BY <2>1, <2>5, <3>1, <3>3 DEF Failure, Throw, JobThrows
    <2>6. ASSUME NEW b \in Actor, ActorStep(b) PROVE ExecuteJob(b) \/ job' = job
      <3>1. CASE RetryFailed(b)
        <4>1. b = a
          BY <2>2, <3>1 DEF RetryFailed
        <4> QED
          BY <3>1, <4>1 DEF RetryFailed
      <3> QED
        BY <2>6, <3>1 DEF ActorStep, SkipWallet, SelectJob, EndLoop
    <2>7. ASSUME NEW t \in Tick, RunTick(t) \/ TickStep(t) PROVE job' = job
      <3>1. CASE StrategyActs(t)
        <4>1. t = a
          BY <2>2, <3>1, ActorTypes DEF StrategyActs
        <4> QED
          BY <3>1, <4>1 DEF StrategyActs
      <3> QED
        BY <2>7, <3>1 DEF TickStep, RunTick, Evaluate, StrategyIdle, ListWallets, EndTick
    <2>8. ASSUME NEW r \in Request, RequestStep(r) PROVE job' = job
      <3>1. CASE Enqueue(r)
        <4>1. r = a
          BY <2>2, <3>1, ActorTypes DEF Enqueue
        <4> QED
          BY <3>1, <4>1 DEF Enqueue
      <3> QED
        BY <2>8, <3>1 DEF RequestStep, Receive, EndPrecheck
    <2>9. CASE Start \/ Stop \/ Crash \/ (SettingsNext /\ UNCHANGED daemonVars) \/ UNCHANGED vars
      <3>1. job' = job
        BY <2>9 DEF Start, Stop, Crash, daemonVars, vars
      <3> QED
        BY <3>1
    <2> QED
      BY <1>1, <2>4, <2>5, <2>6, <2>7, <2>8, <2>9 DEF Next
  <1>2. IInv /\ [Next]_vars => [\A a \in Actor : Fails(a)]_vars
    BY <1>1
  <1> QED
    BY <1>2, Invariant, PTL DEF Spec, PausedJobsFail
=============================================================================
