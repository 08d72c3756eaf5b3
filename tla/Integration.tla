----------------------------- MODULE Integration -----------------------------
(***************************************************************************)
(* The Home Assistant integration (custom_components/ino_a9) and the app   *)
(* it talks to.  Its one config entry is made from the app's discovery     *)
(* message or by hand (config_flow.py), set up and unloaded (__init__.py), *)
(* polls the app (coordinator.py, api.py), and sends intrusion commands    *)
(* from the switch (switch.py, entity.py) and from the schedule service.   *)
(*                                                                         *)
(* Home Assistant itself is external: it allows one entry (manifest.json), *)
(* retries a failed setup, polls again after a failed poll, and skips      *)
(* commands to unavailable entities.                                       *)
(***************************************************************************)
EXTENDS AppRuntime

CONSTANTS
  Schedules,   \* intrusion schedules a user may set
  Default,     \* every day, 00:00 to 23:59
  Calls,       \* commands of users, each sent once
  Missing,     \* the app does not list the camera
  MaxReloads   \* bound: unloads of the entry and restarts of Home Assistant

ASSUME ValuesAssumption ==
  Values = [enabled : BOOLEAN, schedule : Schedules \union {Default}]
ASSUME IntegrationAssumption == Missing \notin Values \union {Nothing} /\ MaxReloads \in Nat

VARIABLES
  entry,        \* "none", "setup", "loaded" or "stuck" after a failed unload
  entryToken,   \* CONF_TOKEN of the entry, 0 if there is none
  entryInstall, \* history: the installation of the app the entry was made for
  data,         \* coordinator.data: per camera the intrusion state, or Missing
  updated,      \* coordinator.last_update_success
  entities,     \* the cameras that have entities
  polling,      \* a poll is between the camera list and the last detail
  awaited,      \* the listed cameras whose detail is still to come
  details,      \* the details so far
  calls,        \* the commands: not sent, on the way to the app, or over
  chosen,       \* history: <<camera, schedule>> set through the service
  reloads

pollVars  == <<polling, awaited, details>>
entryVars == <<entry, entryToken, entryInstall, data, updated, entities, pollVars, reloads>>
haVars    == <<entryVars, calls, chosen>>
vars      == <<appVars, haVars>>

NotSent == [phase |-> "idle"]
Sent    == [phase : {"sent"}, camera : Cameras, value : Values, service : BOOLEAN]
Over    == [phase |-> "over"]
NoData  == [c \in Cameras |-> Missing]
Known   == Values \union {Nothing, Missing}

TypeOK ==
  /\ AppTypeOK
  /\ entry \in {"none", "setup", "loaded", "stuck"}
  /\ entryToken \in 0..generated /\ entryInstall \in 0..MaxReinstalls
  /\ data \in [Cameras -> Known] /\ details \in [Cameras -> Known]
  /\ updated \in BOOLEAN /\ polling \in BOOLEAN
  /\ entities \in SUBSET Cameras /\ awaited \in SUBSET Cameras
  /\ calls \in [Calls -> Sent \union {NotSent, Over}]
  /\ chosen \in SUBSET (Cameras \X (Schedules \union {Default}))
  /\ reloads \in 0..MaxReloads
  /\ entry = "none" <=> entryToken = 0

Init ==
  /\ AppInit
  /\ entry = "none" /\ entryToken = 0 /\ entryInstall = 0
  /\ data = NoData /\ updated = FALSE /\ entities = {}
  /\ polling = FALSE /\ awaited = {} /\ details = NoData
  /\ calls = [k \in Calls |-> NotSent] /\ chosen = {} /\ reloads = 0

-----------------------------------------------------------------------------
(* The config entry.                                                       *)

\* async_step_hassio and async_step_user: an entry is made of the discovered token,
\* or of the one the user reads from the app; a second flow is aborted and leaves
\* the entry as it is.
ConfigFlow ==
  /\ entry = "none"
  /\ \E token \in {discovery, tokenFile} \ {0} : entryToken' = token
  /\ entry' = "setup"
  /\ entryInstall' = reinstalls
  /\ UNCHANGED <<appVars, data, updated, entities, pollVars, calls, chosen, reloads>>

\* The entry's objects in memory are gone.
Forget ==
  /\ data' = NoData /\ updated' = FALSE /\ entities' = {}
  /\ polling' = FALSE /\ awaited' = {} /\ details' = NoData

RemoveEntry ==
  /\ entry # "none"
  /\ entry' = "none" /\ entryToken' = 0
  /\ Forget
  /\ UNCHANGED <<appVars, entryInstall, calls, chosen, reloads>>

\* async_unload_entry, for a reload.  The service is removed and the coordinator shut
\* down also when a platform fails to unload; the entities then stay as they were.
Unload ==
  /\ entry = "loaded" /\ reloads < MaxReloads
  /\ reloads' = reloads + 1
  /\ \/ entry' = "setup" /\ Forget
     \/ /\ entry' = "stuck"
        /\ polling' = FALSE /\ awaited' = {} /\ details' = NoData
        /\ UNCHANGED <<data, updated, entities>>
  /\ UNCHANGED <<appVars, entryToken, entryInstall, calls, chosen>>

\* Home Assistant restarts; a command may still be on its way to the app.
RestartHomeAssistant ==
  /\ entry # "none" /\ reloads < MaxReloads
  /\ reloads' = reloads + 1
  /\ entry' = "setup"
  /\ Forget
  /\ UNCHANGED <<appVars, entryToken, entryInstall, calls, chosen>>

-----------------------------------------------------------------------------
(* The coordinator.                                                        *)

\* _authorized, and _request_json finding the app at its port.
AppAnswers == apc = "serving" /\ entryToken = tokenFile

\* _async_update_data asks for the list, in async_setup_entry (the first refresh) or
\* when the interval is over or a command has asked for it.
PollList ==
  /\ entry \in {"setup", "loaded"} /\ ~polling /\ AppAnswers
  /\ polling' = TRUE /\ awaited' = bridgeConfig /\ details' = NoData
  /\ UNCHANGED <<appVars, entry, entryToken, entryInstall, data, updated, entities,
                 calls, chosen, reloads>>

\* The details are asked for concurrently and arrive in any order.
PollDetail(c) ==
  /\ c \in awaited /\ AppAnswers /\ c \in bridgeConfig
  /\ awaited' = awaited \ {c}
  /\ details' = [details EXCEPT ![c] = memory[c]]
  /\ UNCHANGED <<appVars, entry, entryToken, entryInstall, data, updated, entities,
                 polling, calls, chosen, reloads>>

\* All details are there.  After the first refresh the service is registered and the
\* platforms make the entities of the cameras there are.
PollDone ==
  /\ polling /\ awaited = {}
  /\ polling' = FALSE /\ details' = NoData
  /\ data' = details /\ updated' = TRUE
  /\ entry' = "loaded"
  /\ entities' = IF entry = "setup" THEN {c \in Cameras : details[c] # Missing}
                 ELSE entities
  /\ UNCHANGED <<appVars, entryToken, entryInstall, awaited, calls, chosen, reloads>>

\* Some request of the poll is not answered, refused, or not found: UpdateFailed.
PollRefused ==
  /\ entry \in {"setup", "loaded"}
  /\ \/ ~AppAnswers /\ (polling => awaited # {})
     \/ AppAnswers /\ ~(awaited \subseteq bridgeConfig)

\* Mutant: no poll follows one that failed halfway.
PollFailsForGood ==
  /\ PollRefused
  /\ updated' = FALSE
  /\ UNCHANGED <<appVars, entry, entryToken, entryInstall, data, entities, pollVars,
                 calls, chosen, reloads>>

PollFails ==
  /\ PollRefused
  /\ updated' = FALSE
  /\ polling' = FALSE /\ awaited' = {} /\ details' = NoData
  /\ UNCHANGED <<appVars, entry, entryToken, entryInstall, data, entities, calls, chosen,
                 reloads>>

-----------------------------------------------------------------------------
(* Commands.                                                               *)

Send(k, c, value, service) ==
  /\ calls[k] = NotSent
  /\ calls' = [calls EXCEPT ![k] =
       [phase |-> "sent", camera |-> c, value |-> value, service |-> service]]
  /\ UNCHANGED <<appVars, entryVars, chosen>>

\* _control_state of an available entity.
IsKnown(c) == data[c] \in Values
IsAvailable(c) == c \in entities /\ updated /\ data[c] # Missing

\* async_turn_on: intrusion_payload raises while no schedule is known.
TurnOn(k, c) ==
  /\ IsAvailable(c) /\ IsKnown(c)
  /\ Send(k, c, [enabled |-> TRUE, schedule |-> data[c].schedule], FALSE)

\* async_turn_off: the default schedule is sent while none is known.
TurnOff(k, c) ==
  /\ IsAvailable(c)
  /\ Send(k, c, [enabled  |-> FALSE,
                 schedule |-> IF IsKnown(c) THEN data[c].schedule ELSE Default], FALSE)

\* _service_set_intrusion_schedule, for the device of a camera the app lists.
SetSchedule(k, c) ==
  /\ entry = "loaded" /\ data[c] # Missing
  /\ \E value \in Values : Send(k, c, value, TRUE)

\* The app takes the command: _update_control, once the camera has answered.
Take(k) ==
  /\ calls[k].phase = "sent" /\ AppAnswers
  /\ Store(calls[k].camera, calls[k].value)
  /\ calls' = [calls EXCEPT ![k] = Over]
  /\ chosen' = IF calls[k].service
               THEN chosen \union {<<calls[k].camera, calls[k].value.schedule>>}
               ELSE chosen
  /\ UNCHANGED entryVars

\* The app refuses the command, the camera fails, or the request is lost.
Refuse(k) ==
  /\ calls[k].phase = "sent"
  /\ calls' = [calls EXCEPT ![k] = Over]
  /\ UNCHANGED <<appVars, entryVars, chosen>>

-----------------------------------------------------------------------------
App  == (Startup \/ Mishap) /\ UNCHANGED haVars
Poll == PollList \/ (\E c \in Cameras : PollDetail(c)) \/ PollDone \/ PollFails

Next ==
  \/ App \/ Poll
  \/ ConfigFlow \/ RemoveEntry \/ Unload \/ RestartHomeAssistant
  \/ \E k \in Calls, c \in Cameras : TurnOn(k, c) \/ TurnOff(k, c) \/ SetSchedule(k, c)
  \/ \E k \in Calls : Take(k) \/ Refuse(k)

Spec == Init /\ [][Next]_vars

\* The app's start goes on by itself (s6 starts what died), Home Assistant polls every
\* ten seconds and retries a setup, and each request ends, by an answer or a timeout.
FairSpec == Spec /\ WF_vars(Startup /\ UNCHANGED haVars) /\ WF_vars(Poll)

-----------------------------------------------------------------------------
(* What must hold.                                                         *)

\* The token Home Assistant holds, discovered or typed, is the one its requests are
\* checked against, through every death and start of the app; only an entry made for
\* an earlier installation is refused.
EntryIsAccepted ==
  /\ discovery # 0 => discovery = tokenFile
  /\ entry # "none" /\ entryInstall = reinstalls => entryToken = tokenFile

\* However often the app and Home Assistant were restarted, and whatever was sent
\* meanwhile, an entry that is left in place ends up loaded and showing for each
\* camera what the app has retained.
Served == [c \in Cameras |-> IF c \in bridgeConfig THEN memory[c] ELSE Missing]
ShowsCameras ==
  <>[](entry \in {"setup", "loaded"} /\ entryInstall = reinstalls)
    => <>[](entry = "loaded" /\ updated /\ data = Served)

\* "Set an intrusion schedule before enabling intrusion detection" (entity.py): it is
\* enabled only with a schedule somebody has set for the camera.
EnableNeedsSchedule == \A c \in Cameras :
  memory[c] # Nothing /\ memory[c].enabled => <<c, memory[c].schedule>> \in chosen
=============================================================================
