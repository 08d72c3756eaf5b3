----------------------------- MODULE AppRuntime -----------------------------
(***************************************************************************)
(* A start of the Home Assistant app: prepare_runtime writes the private   *)
(* files below /data one after the other, register_discovery publishes the *)
(* token (app_runtime.py), and the bridge comes up from the files          *)
(* (bridge.py, control_api.py).  The app may die between any two of these  *)
(* steps, be started again with other options, or be installed afresh.     *)
(*                                                                         *)
(* Each file is replaced by a rename and is therefore old or new, never in *)
(* between.  The control state is one value per camera; how one value is   *)
(* written is in ControlApi.                                               *)
(***************************************************************************)
EXTENDS Naturals

CONSTANTS
  Cameras,       \* the cameras that may be configured
  Values,        \* values of the control state
  Nothing,       \* no value is retained
  MaxCrashes,    \* bound: deaths of the app or of the bridge
  MaxConfigs,    \* bound: changes of the options
  MaxReinstalls  \* bound: removals of the app with its data

ASSUME NothingAssumption == Nothing \notin Values
ASSUME AppBoundsAssumption == {MaxCrashes, MaxConfigs, MaxReinstalls} \subseteq Nat

VARIABLES
  apc,           \* what the app does next; "serving": the bridge answers requests
  options,       \* the cameras in the Supervisor's options
  bridgeConfig,  \* the cameras in bridge.json
  streams,       \* the cameras in go2rtc.yaml
  stateFile,     \* control_state.json
  tokenFile,     \* control_token, 0 if there is none
  discovery,     \* the token in the Supervisor's discovery message, 0 if none
  memory,        \* ControlStateStore._state of the bridge
  generated,     \* tokens generated so far: no token is generated twice
  stored,        \* history: the last value stored, while its camera stays in the options
  crashes, configs, reinstalls

files   == <<bridgeConfig, streams, stateFile, tokenFile>>
bounds  == <<crashes, configs, reinstalls>>
appVars == <<apc, options, files, discovery, memory, generated, stored, bounds>>

Retained == [Cameras -> Values \union {Nothing}]
NoValues == [c \in Cameras |-> Nothing]

AppTypeOK ==
  /\ apc \in {"down", "streams", "state", "token", "discovery", "bridge", "serving"}
  /\ options \in SUBSET Cameras \ {{}}
  /\ bridgeConfig \in SUBSET Cameras /\ streams \in SUBSET Cameras
  /\ stateFile \in Retained /\ memory \in Retained /\ stored \in Retained
  /\ generated \in Nat /\ tokenFile \in 0..generated /\ discovery \in 0..generated
  /\ crashes \in 0..MaxCrashes /\ configs \in 0..MaxConfigs
  /\ reinstalls \in 0..MaxReinstalls

AppInit ==
  /\ apc = "down"
  /\ options \in SUBSET Cameras \ {{}}
  /\ bridgeConfig = {} /\ streams = {}
  /\ stateFile = NoValues /\ memory = NoValues /\ stored = NoValues
  /\ generated = 0 /\ tokenFile = 0 /\ discovery = 0
  /\ crashes = 0 /\ configs = 0 /\ reinstalls = 0

-----------------------------------------------------------------------------
(* prepare_runtime, one file after the other.                              *)

WriteBridgeConfig ==
  /\ apc = "down"
  /\ apc' = "streams"
  /\ bridgeConfig' = options
  /\ UNCHANGED <<options, streams, stateFile, tokenFile, discovery, memory, generated,
                 stored, bounds>>

\* Mutant: an existing go2rtc.yaml is kept.
WriteStreamsOnce ==
  /\ apc = "streams"
  /\ apc' = "state"
  /\ streams' = IF streams = {} THEN options ELSE streams
  /\ UNCHANGED <<options, bridgeConfig, stateFile, tokenFile, discovery, memory,
                 generated, stored, bounds>>

WriteStreams ==
  /\ apc = "streams"
  /\ apc' = "state"
  /\ streams' = options
  /\ UNCHANGED <<options, bridgeConfig, stateFile, tokenFile, discovery, memory,
                 generated, stored, bounds>>

OnlyOf(cameras, values) == [c \in Cameras |-> IF c \in cameras THEN values[c] ELSE Nothing]

\* Mutant: the state starts afresh when the cameras have changed.
EnsureStateOfSameCameras ==
  /\ apc = "state"
  /\ apc' = "token"
  /\ stateFile' = IF \E c \in Cameras \ options : stateFile[c] # Nothing THEN NoValues
                  ELSE stateFile
  /\ UNCHANGED <<options, bridgeConfig, streams, tokenFile, discovery, memory,
                 generated, stored, bounds>>

\* _ensure_control_state: the values of cameras still configured are retained.
EnsureState ==
  /\ apc = "state"
  /\ apc' = "token"
  /\ stateFile' = OnlyOf(options, stateFile)
  /\ UNCHANGED <<options, bridgeConfig, streams, tokenFile, discovery, memory,
                 generated, stored, bounds>>

\* Mutant: each start generates a token.
NewToken ==
  /\ apc = "token"
  /\ apc' = "discovery"
  /\ generated' = generated + 1
  /\ tokenFile' = generated + 1
  /\ UNCHANGED <<options, bridgeConfig, streams, stateFile, discovery, memory, stored,
                 bounds>>

\* _ensure_control_token: a token is generated only when there is none.
EnsureToken ==
  /\ apc = "token"
  /\ apc' = "discovery"
  /\ generated' = IF tokenFile = 0 THEN generated + 1 ELSE generated
  /\ tokenFile' = IF tokenFile = 0 THEN generated + 1 ELSE tokenFile
  /\ UNCHANGED <<options, bridgeConfig, streams, stateFile, discovery, memory, stored,
                 bounds>>

\* register_discovery; a failure is logged and the app goes on.
RegisterDiscovery ==
  /\ apc = "discovery"
  /\ apc' = "bridge"
  /\ discovery' \in {tokenFile, discovery}
  /\ UNCHANGED <<options, files, memory, generated, stored, bounds>>

-----------------------------------------------------------------------------
(* The bridge.                                                             *)

\* main() loads the configuration, ControlStateStore the state, which it writes back.
StartBridge ==
  /\ apc = "bridge"
  /\ apc' = "serving"
  /\ memory' = OnlyOf(bridgeConfig, stateFile)
  /\ stateFile' = memory'
  /\ UNCHANGED <<options, bridgeConfig, streams, tokenFile, discovery, generated,
                 stored, bounds>>

\* ControlStateStore.set, after the camera took the value.
Store(c, value) ==
  /\ apc = "serving" /\ c \in bridgeConfig
  /\ memory' = [memory EXCEPT ![c] = value]
  /\ stateFile' = memory'
  /\ stored' = [stored EXCEPT ![c] = value]
  /\ UNCHANGED <<apc, options, bridgeConfig, streams, tokenFile, discovery, generated,
                 bounds>>

-----------------------------------------------------------------------------
(* What happens to the app.                                                *)

\* The app is stopped or dies, or prepare_runtime raises; it will start from the top.
Crash ==
  /\ apc # "down" /\ crashes < MaxCrashes
  /\ crashes' = crashes + 1
  /\ apc' = "down"
  /\ memory' = NoValues
  /\ UNCHANGED <<options, files, discovery, generated, stored, configs, reinstalls>>

\* The bridge process alone dies; its supervisor starts it again.
BridgeDies ==
  /\ apc = "serving" /\ crashes < MaxCrashes
  /\ crashes' = crashes + 1
  /\ apc' = "bridge"
  /\ memory' = NoValues
  /\ UNCHANGED <<options, files, discovery, generated, stored, configs, reinstalls>>

\* Options reach the app at its next start.
Configure ==
  /\ apc = "down" /\ configs < MaxConfigs
  /\ configs' = configs + 1
  /\ options' \in SUBSET Cameras \ {{}, options}
  /\ stored' = OnlyOf(options', stored)
  /\ UNCHANGED <<apc, files, discovery, memory, generated, crashes, reinstalls>>

\* The app is removed, and with it /data and its discovery message, and installed.
Reinstall ==
  /\ apc = "down" /\ reinstalls < MaxReinstalls
  /\ reinstalls' = reinstalls + 1
  /\ bridgeConfig' = {} /\ streams' = {} /\ tokenFile' = 0 /\ discovery' = 0
  /\ stateFile' = NoValues /\ stored' = NoValues
  /\ UNCHANGED <<apc, options, memory, generated, crashes, configs>>

Startup ==
  \/ WriteBridgeConfig \/ WriteStreams \/ EnsureState \/ EnsureToken
  \/ RegisterDiscovery \/ StartBridge

Mishap == Crash \/ BridgeDies \/ Configure \/ Reinstall

-----------------------------------------------------------------------------
(* What must hold.                                                         *)

\* "control_state.json retains ... last-command state": through every death, start
\* and change of the options the file holds the last value stored for a camera
\* that has been configured ever since, and the bridge serves it.
StateSurvives == \A c \in Cameras : stored[c] # Nothing =>
  /\ stateFile[c] = stored[c]
  /\ apc = "serving" => memory[c] = stored[c]

\* Each camera the bridge serves has its stream in go2rtc, and no other has, although
\* the two files are written one after the other and the options change.
StreamsMatchBridge == apc \in {"bridge", "serving"} => streams = bridgeConfig
=============================================================================
