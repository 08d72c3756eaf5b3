----------------------------- MODULE ControlApi -----------------------------
(***************************************************************************)
(* The control API of the bridge (control_api.py): the HTTP threads that   *)
(* execute ControlAPI.handle, and the ControlStateStore that keeps the     *)
(* last command of each control in memory and in control_state.json.       *)
(*                                                                         *)
(* A value is identified by the PUT request that carries it: memory, disk  *)
(* and the camera hold, for each control, the PUT whose value they have.   *)
(* The camera session is the one ControlPort promises, with its control    *)
(* lock and with commands that may be carried out after their timeout.     *)
(***************************************************************************)
EXTENDS Naturals, Sequences

CONSTANTS
  Puts,          \* PUT .../controls/<control> requests, one thread each
  Gets,          \* GET .../cameras/<id> requests, one thread each
  Keys,          \* the controls of the camera
  ReadableKeys,  \* night_vision and flip, which the camera reports itself
  Initial,       \* the value of a control nobody has set through the API
  MaxCrashes,    \* bound on the times the bridge process dies
  MaxWriteFaults \* bound on the writes of control_state.json that fail

Threads == Puts \union Gets
Sources == Puts \union {Initial}

ASSUME ThreadsAssumption == Puts \intersect Gets = {} /\ Initial \notin Threads
ASSUME KeysAssumption == ReadableKeys \subseteq Keys
ASSUME BoundsAssumption == MaxCrashes \in Nat /\ MaxWriteFaults \in Nat

VARIABLES
  up,          \* the bridge process runs
  pc,          \* label of each thread
  status,      \* HTTP status answered; "dropped": the handler died unanswered
  key,         \* the control a PUT is for
  controlLock, \* holder of the camera session's control lock, or Initial
  late,        \* PUTs that were given up and whose commands are still on the wire
  actual,      \* the settings of the camera
  carried,     \* history: the PUTs whose command the camera has carried out
  memory,      \* ControlStateStore._state
  storeLock,   \* holder of ControlStateStore._lock, or Initial
  temp,        \* the temporary file a PUT has written and not yet renamed
  disk,        \* control_state.json
  clock,       \* history: number of values put into memory so far
  stamp,       \* history: when the value of each PUT was put into memory
  unread,      \* controls a GET has still to read back
  seen,        \* the values a GET has collected
  source,      \* where each of them came from
  before,      \* history: the PUTs that were answered 200 when a GET began
  crashes, writeFaults

requestVars == <<pc, status, key>>
cameraVars  == <<controlLock, late, actual, carried>>
storeVars   == <<memory, storeLock, temp, disk, clock, stamp>>
getVars     == <<unread, seen, source, before>>
vars == <<up, requestVars, cameraVars, storeVars, getVars, crashes, writeFaults>>

Statuses == {"none", "200", "400", "401", "404", "502", "503", "504",
             "dropped"}

TypeOK ==
  /\ up \in BOOLEAN
  /\ pc \in [Threads -> {"idle", "control", "sent", "storeLock", "set", "write",
                         "replace", "values", "readback", "done"}]
  /\ status \in [Threads -> Statuses]
  /\ key \in [Puts -> Keys]
  /\ controlLock \in Sources
  /\ late \in Seq(Puts)
  /\ carried \in SUBSET Puts
  /\ actual \in [Keys -> Sources]
  /\ memory \in [Keys -> Sources]
  /\ storeLock \in Sources
  /\ temp \in [Puts -> [Keys -> Sources]]
  /\ disk \in [Keys -> Sources]
  /\ clock \in Nat
  /\ stamp \in [Sources -> Nat]
  /\ unread \in [Gets -> SUBSET ReadableKeys]
  /\ seen \in [Gets -> [Keys -> Sources]]
  /\ source \in [Gets -> [Keys -> {"unknown", "persisted", "readback"}]]
  /\ before \in [Gets -> SUBSET Puts]
  /\ crashes \in Nat /\ writeFaults \in Nat

Untouched == [k \in Keys |-> Initial]

Init ==
  /\ up = TRUE
  /\ pc = [r \in Threads |-> "idle"]
  /\ status = [r \in Threads |-> "none"]
  /\ key \in [Puts -> Keys]
  /\ controlLock = Initial /\ late = <<>> /\ carried = {}
  /\ actual = Untouched /\ memory = Untouched /\ disk = Untouched
  /\ storeLock = Initial
  /\ temp = [p \in Puts |-> Untouched]
  /\ clock = 0
  /\ stamp = [s \in Sources |-> 0]
  /\ unread = [g \in Gets |-> {}]
  /\ seen = [g \in Gets |-> Untouched]
  /\ source = [g \in Gets |-> [k \in Keys |-> "unknown"]]
  /\ before = [g \in Gets |-> {}]
  /\ crashes = 0 /\ writeFaults = 0

\* The handler is over, with an answer or ("dropped") with an exception that
\* handle() does not catch, which closes the HTTP connection.
Answer(r, code) ==
  /\ pc' = [pc EXCEPT ![r] = "done"]
  /\ status' = [status EXCEPT ![r] = code]
  /\ UNCHANGED key

Goto(r, label) ==
  /\ pc' = [pc EXCEPT ![r] = label]
  /\ UNCHANGED <<status, key>>

-----------------------------------------------------------------------------
(* PUT: ControlAPI._update_control.                                        *)

\* No valid token (401), an unknown camera or control (404), a malformed body or
\* an invalid value (400): nothing is asked of the camera or of the store.
Reject(r) ==
  /\ up /\ pc[r] = "idle"
  /\ \E code \in {"400", "401", "404"} : Answer(r, code)
  /\ UNCHANGED <<up, cameraVars, storeVars, getVars, crashes, writeFaults>>

\* The validated value is handed to the session's setter.
AcceptPut(p) ==
  /\ up /\ pc[p] = "idle"
  /\ Goto(p, "control")
  /\ UNCHANGED <<up, cameraVars, storeVars, getVars, crashes, writeFaults>>

\* The session is not connected, now or once it is this call's turn.
Unavailable(p) ==
  /\ up /\ pc[p] = "control"
  /\ Answer(p, "503")
  /\ UNCHANGED <<up, cameraVars, storeVars, getVars, crashes, writeFaults>>

SendCommand(p) ==
  /\ up /\ pc[p] = "control"
  /\ controlLock = Initial
  /\ controlLock' = p
  /\ Goto(p, "sent")
  /\ UNCHANGED <<up, late, actual, carried, storeVars, getVars, crashes, writeFaults>>

\* The camera carries out the command of p.  TCP keeps the commands in order, so
\* one that was given up earlier is not carried out any more.
CarryOut(p) ==
  /\ actual' = [actual EXCEPT ![key[p]] = p]
  /\ carried' = carried \union {p}

\* The camera's answer is in: the control lock is left, the value goes to the store.
CommandOk(p) ==
  /\ up /\ pc[p] = "sent"
  /\ CarryOut(p) /\ late' = <<>>
  /\ controlLock' = Initial
  /\ Goto(p, "storeLock")
  /\ UNCHANGED <<up, storeVars, getVars, crashes, writeFaults>>

\* No answer in time (504), or a failed connection (502): the command may have
\* been carried out, may still be, or never will be.
CommandUncertain(p) ==
  /\ up /\ pc[p] = "sent"
  /\ \/ CarryOut(p) /\ late' = <<>>
     \/ late' = Append(late, p) /\ UNCHANGED <<actual, carried>>
  /\ controlLock' = Initial
  /\ \E code \in {"504", "502"} : Answer(p, code)
  /\ UNCHANGED <<up, storeVars, getVars, crashes, writeFaults>>

\* Mutant: a command the camera refuses is recorded like one it accepts.
CommandFailedRecorded(p) ==
  /\ up /\ pc[p] = "sent"
  /\ controlLock' = Initial
  /\ Goto(p, "storeLock")
  /\ UNCHANGED <<up, late, actual, carried, storeVars, getVars, crashes, writeFaults>>

\* The camera answered with a non-zero code and did nothing (502), or the write
\* raised OSError or AttributeError, which handle() does not catch.
CommandFailed(p) ==
  /\ up /\ pc[p] = "sent"
  /\ controlLock' = Initial
  /\ \E code \in {"502", "dropped"} : Answer(p, code)
  /\ UNCHANGED <<up, late, actual, carried, storeVars, getVars, crashes, writeFaults>>

\* The camera gets to a command whose caller has given up.
LateCommand ==
  /\ \E i \in 1..Len(late) :
       /\ CarryOut(late[i])
       /\ late' = SubSeq(late, i + 1, Len(late))
  /\ UNCHANGED <<up, controlLock, requestVars, storeVars, getVars, crashes,
                 writeFaults>>

\* Mutant: the store is entered without its lock.
EnterStoreUnlocked(p) ==
  /\ up /\ pc[p] = "storeLock"
  /\ storeLock' = p
  /\ Goto(p, "set")
  /\ UNCHANGED <<up, cameraVars, memory, temp, disk, clock, stamp, getVars, crashes,
                 writeFaults>>

\* ControlStateStore.set: with self._lock.
EnterStore(p) ==
  /\ up /\ pc[p] = "storeLock"
  /\ storeLock = Initial
  /\ storeLock' = p
  /\ Goto(p, "set")
  /\ UNCHANGED <<up, cameraVars, memory, temp, disk, clock, stamp, getVars, crashes,
                 writeFaults>>

SetMemory(p) ==
  /\ up /\ pc[p] = "set"
  /\ memory' = [memory EXCEPT ![key[p]] = p]
  /\ clock' = clock + 1
  /\ stamp' = [stamp EXCEPT ![p] = clock + 1]
  /\ Goto(p, "write")
  /\ UNCHANGED <<up, cameraVars, storeLock, temp, disk, getVars, crashes, writeFaults>>

\* _write: the whole state goes to a temporary file of its own.
WriteTemp(p) ==
  /\ up /\ pc[p] = "write"
  /\ temp' = [temp EXCEPT ![p] = memory]
  /\ Goto(p, "replace")
  /\ UNCHANGED <<up, cameraVars, memory, storeLock, disk, clock, stamp, getVars,
                 crashes, writeFaults>>

\* The rename makes it control_state.json; the lock is left, 200 is answered.
Replace(p) ==
  /\ up /\ pc[p] = "replace"
  /\ disk' = temp[p]
  /\ storeLock' = Initial
  /\ Answer(p, "200")
  /\ UNCHANGED <<up, cameraVars, memory, temp, clock, stamp, getVars, crashes,
                 writeFaults>>

\* The file system refuses: OSError out of handle(), with memory already changed.
StoreFails(p) ==
  /\ up /\ pc[p] \in {"write", "replace"}
  /\ writeFaults < MaxWriteFaults
  /\ writeFaults' = writeFaults + 1
  /\ storeLock' = Initial
  /\ Answer(p, "dropped")
  /\ UNCHANGED <<up, cameraVars, memory, temp, disk, clock, stamp, getVars, crashes>>

-----------------------------------------------------------------------------
(* GET: ControlAPI._camera_detail.                                         *)

\* status() is read first; the read-backs are only tried when it says that the
\* camera is connected and reports no error.
BeginGet(g) ==
  /\ up /\ pc[g] = "idle"
  /\ \E tried \in {{}, ReadableKeys} : unread' = [unread EXCEPT ![g] = tried]
  /\ before' = [before EXCEPT ![g] = {p \in Puts : status[p] = "200"}]
  /\ Goto(g, "values")
  /\ UNCHANGED <<up, cameraVars, storeVars, seen, source, crashes, writeFaults>>

\* _control_values: a copy of the store's values, under its lock.
CopyValues(g) ==
  /\ up /\ pc[g] = "values"
  /\ storeLock = Initial
  /\ seen' = [seen EXCEPT ![g] = memory]
  /\ source' = [source EXCEPT ![g] =
                  [k \in Keys |-> IF memory[k] = Initial THEN "unknown"
                                                         ELSE "persisted"]]
  /\ Goto(g, "readback")
  /\ UNCHANGED <<up, cameraVars, storeVars, unread, before, crashes, writeFaults>>

\* _safe_readback: the camera's own value, through the session's control lock.
Readback(g) ==
  /\ up /\ pc[g] = "readback"
  /\ controlLock = Initial
  /\ \E k \in unread[g] :
       /\ seen' = [seen EXCEPT ![g][k] = actual[k]]
       /\ source' = [source EXCEPT ![g][k] = "readback"]
       /\ unread' = [unread EXCEPT ![g] = @ \ {k}]
  /\ late' = <<>>
  /\ UNCHANGED <<up, requestVars, controlLock, actual, carried, storeVars, before,
                 crashes, writeFaults>>

\* ... or, on TimeoutError and CameraError, the copied value.
ReadbackFails(g) ==
  /\ up /\ pc[g] = "readback"
  /\ \E k \in unread[g] : unread' = [unread EXCEPT ![g] = @ \ {k}]
  /\ UNCHANGED <<up, requestVars, cameraVars, storeVars, seen, source, before,
                 crashes, writeFaults>>

\* Mutant: an unexpected error starts the whole detail again.
ReadbackRetries(g) ==
  /\ up /\ pc[g] = "readback"
  /\ unread[g] # {}
  /\ Goto(g, "values")
  /\ UNCHANGED <<up, cameraVars, storeVars, getVars, crashes, writeFaults>>

\* OSError and AttributeError from the write, ValueError from a malformed answer.
ReadbackRaises(g) ==
  /\ up /\ pc[g] = "readback"
  /\ unread[g] # {}
  /\ Answer(g, "dropped")
  /\ UNCHANGED <<up, cameraVars, storeVars, getVars, crashes, writeFaults>>

AnswerGet(g) ==
  /\ up /\ pc[g] = "readback"
  /\ unread[g] = {}
  /\ Answer(g, "200")
  /\ UNCHANGED <<up, cameraVars, storeVars, getVars, crashes, writeFaults>>

-----------------------------------------------------------------------------
(* The process.                                                            *)

\* The bridge dies between two statements: the threads, the locks and the memory
\* go, the file stays as it is.
Crash ==
  /\ up
  /\ crashes < MaxCrashes
  /\ crashes' = crashes + 1
  /\ up' = FALSE
  /\ pc' = [r \in Threads |-> IF pc[r] = "idle" THEN "idle" ELSE "done"]
  /\ status' = [r \in Threads |-> IF pc[r] \in {"idle", "done"} THEN status[r]
                                                               ELSE "dropped"]
  /\ controlLock' = Initial /\ storeLock' = Initial
  /\ \/ UNCHANGED late
     \/ \E p \in Puts : pc[p] = "sent" /\ late' = Append(late, p)
  /\ UNCHANGED <<key, actual, carried, memory, temp, disk, clock, stamp, getVars,
                 writeFaults>>

\* Mutant: the store starts empty and writes the file when it is next set.
RestartEmpty ==
  /\ ~up
  /\ up' = TRUE
  /\ memory' = Untouched
  /\ UNCHANGED <<requestVars, cameraVars, storeLock, temp, disk, clock, stamp,
                 getVars, crashes, writeFaults>>

\* ControlStateStore.__init__: the file is read back, and written as it was read
\* (app_runtime rewrites it in the same way before the bridge starts).
Restart ==
  /\ ~up
  /\ up' = TRUE
  /\ memory' = disk
  /\ UNCHANGED <<requestVars, cameraVars, storeLock, temp, disk, clock, stamp,
                 getVars, crashes, writeFaults>>

Put(p) ==
  \/ AcceptPut(p) \/ Unavailable(p) \/ SendCommand(p)
  \/ CommandOk(p) \/ CommandUncertain(p) \/ CommandFailed(p)
  \/ EnterStore(p) \/ SetMemory(p) \/ WriteTemp(p) \/ Replace(p) \/ StoreFails(p)

Get(g) ==
  \/ BeginGet(g) \/ CopyValues(g) \/ Readback(g) \/ ReadbackFails(g)
  \/ ReadbackRaises(g) \/ AnswerGet(g)

\* Every request has been handled.
Quiescent == (\A r \in Threads : pc[r] = "done") /\ UNCHANGED vars

Next ==
  \/ \E p \in Puts : Put(p)
  \/ \E g \in Gets : Get(g)
  \/ \E r \in Threads : Reject(r)
  \/ LateCommand \/ Crash \/ Restart \/ Quiescent

Spec == Init /\ [][Next]_vars

\* Threads run, the session answers or gives up, the Supervisor restarts the app.
\* Nobody has to send a request, no write has to fail and the camera never has to
\* be unavailable.
PutProceeds(p) ==
  /\ pc[p] # "idle"
  /\ Put(p) /\ ~Unavailable(p)
  /\ UNCHANGED writeFaults

FairSpec ==
  /\ Spec
  /\ \A p \in Puts : WF_vars(PutProceeds(p))
  /\ \A g \in Gets : WF_vars(Get(g) /\ pc[g] # "idle")
  /\ WF_vars(Restart)

-----------------------------------------------------------------------------
(* What must hold.                                                         *)

\* A PUT answered 200 survives crashes, failed writes and other PUTs: the file
\* holds its value or that of a PUT that reached the store after it.
AckedIsDurable ==
  \A p \in Puts : status[p] = "200" =>
    /\ disk[key[p]] # Initial
    /\ stamp[disk[key[p]]] >= stamp[p]

\* A value in memory or in the file is one the camera has carried out: no refused,
\* failed or unanswered command is ever recorded, or survives a restart.
OnlyAcceptedIsStored ==
  \A k \in Keys : {memory[k], disk[k]} \subseteq carried \union {Initial}

\* A GET reports, for a control it does not read back, the value of any PUT that
\* was answered 200 before it began or of a later one, even when the bridge was
\* restarted between the two requests.
ReadYourWrites ==
  \A g \in Gets : status[g] = "200" =>
    \A p \in before[g] :
      source[g][key[p]] = "readback" \/ stamp[seen[g][key[p]]] >= stamp[p]

\* Every request that has been taken up is over eventually, so neither of the two
\* locks is ever left held, and the bridge comes back after a crash.
RequestsEnd == \A r \in Threads : (pc[r] # "idle") ~> (pc[r] = "done")

\* The documentation: the file "retains non-secret, per-camera last-command
\* state".  When every PUT was answered 200 the file should therefore hold the
\* last command the camera has carried out.
PersistedIsLastCommand ==
  (\A p \in Puts : status[p] = "200") =>
    \A k \in Keys : actual[k] # Initial => disk[k] = actual[k]
=============================================================================
