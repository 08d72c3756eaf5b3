-------------------------- MODULE IntegrationProofs --------------------------
(***************************************************************************)
(* Proofs about the app and Home Assistant, for any cameras, commands,     *)
(* schedules and numbers of deaths, changes and restarts: types, and that  *)
(* values, streams and the token survive them.                             *)
(*                                                                         *)
(* None of the properties is inductive: each rests on what the steps of a  *)
(* start have established so far, which IInv adds.                         *)
(***************************************************************************)
EXTENDS Integration, TLAPS

\* What has been written for the options of this start.
ConfigInv ==
  /\ apc # "down" => bridgeConfig = options
  /\ apc \notin {"down", "streams"} => streams = options

\* The file has what was stored for a camera that is still in the options, and the
\* bridge serves what is in the file.
StateInv ==
  /\ \A c \in Cameras : stored[c] # Nothing => c \in options /\ stateFile[c] = stored[c]
  /\ apc = "serving" => memory = stateFile

\* Whoever has a token has the one in the file, unless the app was installed afresh.
TokenInv ==
  /\ entryInstall <= reinstalls
  /\ discovery # 0 => discovery = tokenFile
  /\ entry # "none" /\ entryInstall = reinstalls => entryToken = tokenFile

\* Only an entry that is being set up or is loaded is polled for.
PollInv == polling => entry \in {"setup", "loaded"}

IInv == TypeOK /\ PollInv /\ ConfigInv /\ StateInv /\ TokenInv
-----------------------------------------------------------------------------
(* The app's own steps.                                                    *)

\* What haVars stands for is unchanged.
LEMMA HomeAssistantRests ==
  ASSUME App
  PROVE  /\ Startup \/ Mishap
         /\ UNCHANGED <<entry, entryToken, entryInstall, data, updated, entities, polling,
                        awaited, details, reloads, calls, chosen>>
BY DEF App, haVars, entryVars, pollVars

\* A step of the app keeps the types of the app's state.
LEMMA AppTypes ==
  ASSUME AppTypeOK, Startup \/ Mishap
  PROVE  AppTypeOK'
<1> USE AppBoundsAssumption, NothingAssumption DEF AppTypeOK, Retained, NoValues, files, bounds
<1>1. CASE WriteBridgeConfig
  BY <1>1 DEF WriteBridgeConfig
<1>2. CASE WriteStreams
  BY <1>2 DEF WriteStreams
<1>3. CASE EnsureState
  BY <1>3 DEF EnsureState, OnlyOf
<1>4. CASE EnsureToken
  BY <1>4 DEF EnsureToken
<1>5. CASE RegisterDiscovery
  BY <1>5 DEF RegisterDiscovery
<1>6. CASE StartBridge
  BY <1>6 DEF StartBridge, OnlyOf
<1>7. CASE Crash
  BY <1>7 DEF Crash
<1>8. CASE BridgeDies
  BY <1>8 DEF BridgeDies
<1>9. CASE Configure
  BY <1>9 DEF Configure, OnlyOf
<1>10. CASE Reinstall
  BY <1>10 DEF Reinstall
<1> QED
  BY <1>1, <1>2, <1>3, <1>4, <1>5, <1>6, <1>7, <1>8, <1>9, <1>10 DEF Startup, Mishap

\* The two configurations are written, in order, from the options of this start.
LEMMA AppConfig ==
  ASSUME AppTypeOK, ConfigInv, Startup \/ Mishap
  PROVE  ConfigInv'
<1> USE AppBoundsAssumption, NothingAssumption DEF AppTypeOK, ConfigInv, files, bounds
<1>1. CASE WriteBridgeConfig
  BY <1>1 DEF WriteBridgeConfig
<1>2. CASE WriteStreams
  BY <1>2 DEF WriteStreams
<1>3. CASE EnsureState
  BY <1>3 DEF EnsureState, OnlyOf
<1>4. CASE EnsureToken
  BY <1>4 DEF EnsureToken
<1>5. CASE RegisterDiscovery
  BY <1>5 DEF RegisterDiscovery
<1>6. CASE StartBridge
  BY <1>6 DEF StartBridge, OnlyOf
<1>7. CASE Crash
  BY <1>7 DEF Crash
<1>8. CASE BridgeDies
  BY <1>8 DEF BridgeDies
<1>9. CASE Configure
  BY <1>9 DEF Configure, OnlyOf
<1>10. CASE Reinstall
  BY <1>10 DEF Reinstall
<1> QED
  BY <1>1, <1>2, <1>3, <1>4, <1>5, <1>6, <1>7, <1>8, <1>9, <1>10 DEF Startup, Mishap

\* The retained values survive the app's steps.
LEMMA AppState ==
  ASSUME AppTypeOK, ConfigInv, StateInv, Startup \/ Mishap
  PROVE  StateInv'
<1> USE AppBoundsAssumption, NothingAssumption DEF AppTypeOK, ConfigInv, StateInv, Retained, NoValues, files, bounds
<1>1. CASE WriteBridgeConfig
  BY <1>1 DEF WriteBridgeConfig
<1>2. CASE WriteStreams
  BY <1>2 DEF WriteStreams
<1>3. CASE EnsureState
  BY <1>3 DEF EnsureState, OnlyOf
<1>4. CASE EnsureToken
  BY <1>4 DEF EnsureToken
<1>5. CASE RegisterDiscovery
  BY <1>5 DEF RegisterDiscovery
<1>6. CASE StartBridge
  BY <1>6 DEF StartBridge, OnlyOf
<1>7. CASE Crash
  BY <1>7 DEF Crash
<1>8. CASE BridgeDies
  BY <1>8 DEF BridgeDies
<1>9. CASE Configure
  BY <1>9 DEF Configure, OnlyOf
<1>10. CASE Reinstall
  BY <1>10 DEF Reinstall
<1> QED
  BY <1>1, <1>2, <1>3, <1>4, <1>5, <1>6, <1>7, <1>8, <1>9, <1>10 DEF Startup, Mishap

\* A token is generated only where nobody has one, or where all who have it had it
\* from an earlier installation.
LEMMA AppToken ==
  ASSUME TypeOK, TokenInv, App
  PROVE  TokenInv'
<1>1. UNCHANGED <<entry, entryToken, entryInstall>>
  BY HomeAssistantRests
<1> USE <1>1 DEF TypeOK, AppTypeOK, TokenInv, files, bounds
<1>2. CASE WriteBridgeConfig
  BY <1>2 DEF WriteBridgeConfig
<1>3. CASE WriteStreams
  BY <1>3 DEF WriteStreams
<1>4. CASE EnsureState
  BY <1>4 DEF EnsureState
<1>5. CASE EnsureToken
  BY <1>5 DEF EnsureToken
<1>6. CASE RegisterDiscovery
  BY <1>6 DEF RegisterDiscovery
<1>7. CASE StartBridge
  BY <1>7 DEF StartBridge
<1>8. CASE Crash
  BY <1>8 DEF Crash
<1>9. CASE BridgeDies
  BY <1>9 DEF BridgeDies
<1>10. CASE Configure
  BY <1>10 DEF Configure
<1>11. CASE Reinstall
  BY <1>11 DEF Reinstall
<1> QED
  BY <1>2, <1>3, <1>4, <1>5, <1>6, <1>7, <1>8, <1>9, <1>10, <1>11, HomeAssistantRests DEF Startup, Mishap

-----------------------------------------------------------------------------
(* The steps of Home Assistant.                                            *)

\* A step of the entry, of a poll or of a command up to its arrival.
Quiet ==
  \/ ConfigFlow \/ RemoveEntry \/ Unload \/ RestartHomeAssistant \/ Poll
  \/ \E k \in Calls, c \in Cameras : TurnOn(k, c) \/ TurnOff(k, c) \/ SetSchedule(k, c)
  \/ \E k \in Calls : Refuse(k)

\* Such a step leaves the app alone.
LEMMA AppRests ==
  ASSUME Quiet
  PROVE  UNCHANGED appVars
<1>1. ASSUME Poll
      PROVE  UNCHANGED appVars
  BY <1>1 DEF Poll, PollList, PollDetail, PollDone, PollFails
<1>2. ASSUME NEW k \in Calls, NEW c \in Cameras,
             TurnOn(k, c) \/ TurnOff(k, c) \/ SetSchedule(k, c)
      PROVE  UNCHANGED appVars
  BY <1>2 DEF TurnOn, TurnOff, SetSchedule, Send
<1> QED
  BY <1>1, <1>2 DEF Quiet, ConfigFlow, RemoveEntry, Unload, RestartHomeAssistant, Refuse

\* What is left alone keeps what only concerns the app.
LEMMA AppRestsInv ==
  ASSUME AppTypeOK, ConfigInv, StateInv, UNCHANGED appVars
  PROVE  AppTypeOK' /\ ConfigInv' /\ StateInv'
BY DEF AppTypeOK, ConfigInv, StateInv, Retained, appVars, files, bounds

\* The types of a command that is sent.
LEMMA SendTypes ==
  ASSUME TypeOK, NEW k \in Calls, NEW c \in Cameras, NEW value \in Values,
         NEW service \in BOOLEAN, Send(k, c, value, service)
  PROVE  TypeOK'
<1>1. UNCHANGED <<appVars, entry, entryToken, entryInstall, data, updated, entities,
                  polling, awaited, details, reloads, chosen>>
  BY DEF Send, entryVars, pollVars
<1>2. AppTypeOK'
  BY <1>1 DEF TypeOK, AppTypeOK, Retained, appVars, files, bounds
<1>3. calls' \in [Calls -> Sent \union {NotSent, Over}]
  BY DEF Send, TypeOK, Sent
<1>4. generated' = generated
  BY <1>1 DEF appVars
<1> QED
  BY <1>1, <1>2, <1>3, <1>4 DEF TypeOK, Known, Sent, NotSent, Over

\* The steps of the entry, of the polls and of the commands keep the types.
LEMMA QuietTypes ==
  ASSUME TypeOK, PollInv, Quiet
  PROVE  TypeOK'
<1>1. UNCHANGED appVars /\ AppTypeOK' /\ generated' = generated
  BY AppRests DEF TypeOK, AppTypeOK, Retained, appVars, files, bounds
<1> USE <1>1, IntegrationAssumption DEF TypeOK, Known, NoData, pollVars, Sent, NotSent, Over
<1>2. CASE ConfigFlow
  BY <1>2 DEF ConfigFlow, AppTypeOK
<1>3. ASSUME Forget
      PROVE  /\ data' \in [Cameras -> Known] /\ details' \in [Cameras -> Known]
             /\ updated' \in BOOLEAN /\ polling' \in BOOLEAN
             /\ entities' \in SUBSET Cameras /\ awaited' \in SUBSET Cameras
  BY <1>3 DEF Forget
<1>4. CASE RemoveEntry
  BY <1>4, <1>3 DEF RemoveEntry, AppTypeOK
<1>5. CASE Unload
  <2>1. reloads' \in 0..MaxReloads
    BY <1>5 DEF Unload
  <2>2. CASE entry' = "setup" /\ Forget
    BY <1>5, <1>3, <2>1, <2>2 DEF Unload
  <2>3. CASE /\ entry' = "stuck"
             /\ polling' = FALSE /\ awaited' = {} /\ details' = NoData
             /\ UNCHANGED <<data, updated, entities>>
    BY <1>5, <2>1, <2>3 DEF Unload
  <2> QED
    BY <1>5, <2>2, <2>3 DEF Unload
<1>6. CASE RestartHomeAssistant
  BY <1>6, <1>3 DEF RestartHomeAssistant
<1>7. CASE PollList
  BY <1>7 DEF PollList, AppTypeOK
<1>8. ASSUME NEW c \in Cameras, PollDetail(c)
      PROVE  TypeOK'
  BY <1>8 DEF PollDetail, AppTypeOK, Retained
<1>9. CASE PollDone
  BY <1>9 DEF PollDone, PollInv
<1>10. CASE PollFails
  BY <1>10 DEF PollFails
<1>11. ASSUME NEW k \in Calls, NEW c \in Cameras, TurnOn(k, c)
       PROVE  TypeOK'
  <2>1. [enabled |-> TRUE, schedule |-> data[c].schedule] \in Values
    BY <1>11, ValuesAssumption DEF TurnOn, IsKnown
  <2> QED
    BY <1>11, <2>1, SendTypes DEF TurnOn
<1>12. ASSUME NEW k \in Calls, NEW c \in Cameras, TurnOff(k, c)
       PROVE  TypeOK'
  <2>1. [enabled  |-> FALSE,
         schedule |-> IF IsKnown(c) THEN data[c].schedule ELSE Default] \in Values
    BY <1>12, ValuesAssumption DEF TurnOff, IsKnown
  <2> QED
    BY <1>12, <2>1, SendTypes DEF TurnOff
<1>13. ASSUME NEW k \in Calls, NEW c \in Cameras, SetSchedule(k, c)
       PROVE  TypeOK'
  BY <1>13, SendTypes DEF SetSchedule
<1>14. ASSUME NEW k \in Calls, Refuse(k)
       PROVE  TypeOK'
  BY <1>14 DEF Refuse, entryVars
<1> QED
  BY <1>2, <1>4, <1>5, <1>6, <1>7, <1>8, <1>9, <1>10, <1>11, <1>12, <1>13, <1>14
  DEF Quiet, Poll

\* ... what is known of polls and of tokens, and leave the app alone.
LEMMA QuietInv ==
  ASSUME TypeOK, PollInv, TokenInv, Quiet
  PROVE  PollInv' /\ TokenInv'
<1>1. UNCHANGED <<discovery, tokenFile, reinstalls>>
  BY AppRests DEF appVars, files, bounds
<1> USE <1>1 DEF TypeOK, AppTypeOK, PollInv, TokenInv, pollVars
<1>2. CASE ConfigFlow
  BY <1>2 DEF ConfigFlow
<1>3. CASE RemoveEntry \/ Unload \/ RestartHomeAssistant
  BY <1>3 DEF RemoveEntry, Unload, RestartHomeAssistant, Forget
<1>4. CASE PollList \/ PollDone \/ PollFails
  BY <1>4 DEF PollList, PollDone, PollFails
<1>5. ASSUME NEW c \in Cameras, PollDetail(c)
      PROVE  PollInv' /\ TokenInv'
  BY <1>5 DEF PollDetail
<1>6. ASSUME NEW k \in Calls, NEW c \in Cameras,
             TurnOn(k, c) \/ TurnOff(k, c) \/ SetSchedule(k, c)
      PROVE  PollInv' /\ TokenInv'
  BY <1>6 DEF TurnOn, TurnOff, SetSchedule, Send, entryVars
<1>7. ASSUME NEW k \in Calls, Refuse(k)
      PROVE  PollInv' /\ TokenInv'
  BY <1>7 DEF Refuse, entryVars
<1> QED
  BY <1>2, <1>3, <1>4, <1>5, <1>6, <1>7 DEF Quiet, Poll

\* A command the app takes changes memory, file and history alike, for a camera that is
\* configured.
LEMMA TakeInv ==
  ASSUME IInv, NEW k \in Calls, Take(k)
  PROVE  IInv'
<1>1. /\ calls[k] \in Sent
      /\ apc = "serving" /\ calls[k].camera \in bridgeConfig
      /\ memory' = [memory EXCEPT ![calls[k].camera] = calls[k].value]
      /\ stateFile' = memory'
      /\ stored' = [stored EXCEPT ![calls[k].camera] = calls[k].value]
      /\ UNCHANGED <<apc, options, bridgeConfig, streams, tokenFile, discovery, generated,
                     crashes, configs, reinstalls>>
  BY DEF IInv, TypeOK, Take, Store, NotSent, Over, bounds
<1>2. /\ calls[k].camera \in Cameras /\ calls[k].value \in Values
      /\ calls[k].value.schedule \in Schedules \union {Default}
  BY <1>1, ValuesAssumption DEF Sent
<1>3. UNCHANGED <<entry, entryToken, entryInstall, data, updated, entities, polling,
                  awaited, details, reloads>>
  BY DEF Take, entryVars, pollVars
<1>4. AppTypeOK'
  BY <1>1, <1>2 DEF IInv, TypeOK, AppTypeOK, Retained
<1>5. calls' \in [Calls -> Sent \union {NotSent, Over}]
  BY DEF Take, IInv, TypeOK
<1>6. chosen' \in SUBSET (Cameras \X (Schedules \union {Default}))
  BY <1>2 DEF Take, IInv, TypeOK
<1>7. TypeOK'
  BY <1>1, <1>3, <1>4, <1>5, <1>6 DEF IInv, TypeOK, Known
<1>8. StateInv'
  BY <1>1, <1>2 DEF IInv, TypeOK, AppTypeOK, Retained, ConfigInv, StateInv
<1> QED
  BY <1>1, <1>3, <1>7, <1>8 DEF IInv, PollInv, ConfigInv, TokenInv

-----------------------------------------------------------------------------
(* The theorems.                                                           *)

\* The initial states satisfy the invariant: nothing is written, nobody has a token.
LEMMA Initially ==
  ASSUME Init
  PROVE  IInv
<1>1. AppTypeOK
  BY AppBoundsAssumption DEF Init, AppInit, AppTypeOK, Retained, NoValues
<1>2. TypeOK
  <2>1. 0 \in 0..generated /\ 0 \in 0..MaxReinstalls /\ 0 \in 0..MaxReloads
    BY AppBoundsAssumption, IntegrationAssumption DEF Init, AppInit
  <2>2. NoData \in [Cameras -> Known]
    BY DEF NoData, Known
  <2>3. [k \in Calls |-> NotSent] \in [Calls -> Sent \union {NotSent, Over}]
    OBVIOUS
  <2> QED
    BY <1>1, <2>1, <2>2, <2>3 DEF Init, TypeOK
<1>3. PollInv /\ ConfigInv /\ StateInv /\ TokenInv
  BY DEF Init, AppInit, PollInv, ConfigInv, StateInv, TokenInv, NoValues
<1> QED
  BY <1>2, <1>3 DEF IInv

\* Every step of the app and of Home Assistant keeps the invariant.
LEMMA Step ==
  ASSUME IInv, [Next]_vars
  PROVE  IInv'
<1>1. CASE App
  <2>1. Startup \/ Mishap
    BY <1>1, HomeAssistantRests
  <2>2. AppTypeOK' /\ ConfigInv' /\ StateInv'
    BY <2>1, AppTypes, AppConfig, AppState DEF IInv, TypeOK
  <2>3. TokenInv'
    BY <1>1, AppToken DEF IInv
  <2>4. generated' >= generated
    BY <2>1 DEF IInv, TypeOK, AppTypeOK, Startup, Mishap, WriteBridgeConfig, WriteStreams,
                EnsureState, EnsureToken, RegisterDiscovery, StartBridge, Crash,
                BridgeDies, Configure, Reinstall
  <2>5. 0..generated \subseteq 0..generated'
    BY <2>2, <2>4 DEF IInv, TypeOK, AppTypeOK
  <2> QED
    BY <1>1, <2>2, <2>3, <2>5, HomeAssistantRests DEF IInv, TypeOK, PollInv, Known
<1>2. CASE Quiet
  BY <1>2, AppRests, AppRestsInv, QuietTypes, QuietInv DEF IInv, TypeOK
<1>3. ASSUME NEW k \in Calls, Take(k)
      PROVE  IInv'
  BY <1>3, TakeInv
<1>4. CASE UNCHANGED vars
  <2>1. UNCHANGED appVars
    BY <1>4 DEF vars
  <2>2. AppTypeOK' /\ ConfigInv' /\ StateInv'
    BY <2>1, AppRestsInv DEF IInv, TypeOK
  <2> QED
    BY <1>4, <2>2
    DEF IInv, TypeOK, PollInv, TokenInv, Known, vars, appVars, haVars, entryVars,
        pollVars, files, bounds
<1> QED
  BY <1>1, <1>2, <1>3, <1>4 DEF Next, Quiet

\* The inductive invariant holds of every behaviour of the app and Home Assistant.
THEOREM Invariant == Spec => []IInv
<1>1. Init => IInv
  BY Initially
<1>2. IInv /\ [Next]_vars => IInv'
  BY Step
<1> QED
  BY <1>1, <1>2, PTL DEF Spec

\* The app and Home Assistant keep their types (Integration, AppRuntime).
THEOREM TypeCorrect == Spec => []TypeOK
<1>1. IInv => TypeOK
  BY DEF IInv
<1> QED
  BY <1>1, Invariant, PTL

\* Through any deaths, starts and changes of the options, control_state.json holds the
\* last value stored for each camera configured ever since, and the bridge serves it
\* (_ensure_control_state, ControlStateStore).
THEOREM ValuesSurvive == Spec => []StateSurvives
<1>1. IInv => StateSurvives
  BY DEF IInv, StateInv, StateSurvives
<1> QED
  BY <1>1, Invariant, PTL

\* Whenever the bridge serves, go2rtc.yaml has the streams of its cameras and no others
\* (prepare_runtime).
THEOREM StreamsMatch == Spec => []StreamsMatchBridge
<1>1. IInv => StreamsMatchBridge
  BY DEF IInv, ConfigInv, StreamsMatchBridge
<1> QED
  BY <1>1, Invariant, PTL

\* A token that was discovered or typed in is accepted until the app is installed afresh
\* (_ensure_control_token, register_discovery, InoA9ConfigFlow).
THEOREM TokenAccepted == Spec => []EntryIsAccepted
<1>1. IInv => EntryIsAccepted
  BY DEF IInv, TokenInv, EntryIsAccepted
<1> QED
  BY <1>1, Invariant, PTL
=============================================================================
