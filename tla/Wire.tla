-------------------------------- MODULE Wire --------------------------------
(***************************************************************************)
(* The wire between the camera and the bridge: the stream of packets       *)
(* (Framing), and what is in them (Payloads).  The facts of Payloads are   *)
(* about no state: a run looks at them once, in the initial state.         *)
(***************************************************************************)
EXTENDS Framing, Payloads

\* A packet of the bridge is read back, by the parser, as what was written, up to
\* the largest number the parser takes (pack_rpc, parse_packet).
PacketsReadBack == Init => EveryPacketReadsBack

\* A field is found by its number behind all other fields that may stand before
\* it, and an answer is shown as the name of its value (_first_varint_field,
\* read_response_value, CameraSession._get).
FieldsReadBack == Init => EveryFieldReadsBack

\* The three places that check a schedule (the service of Home Assistant, the
\* control API, the intrusion switch) accept each other's schedules.
SchedulesAgree == Init => EveryScheduleAgrees

\* Different settings are sent as different bytes (commands.py).
SettingsAreDistinct == Init => EverySettingIsDistinct
=============================================================================
