------------------------------ MODULE Payloads ------------------------------
(***************************************************************************)
(* What travels inside the packets, from the action in Home Assistant to   *)
(* the bytes for the camera: the checks of a schedule in the integration,  *)
(* the control API and controls.py, the payloads of commands.py, and the   *)
(* readers of protobuf fields.  Pure operators over small sets of inputs.  *)
(*                                                                         *)
(* A time of day is [minute, second]; a text for one is [minute, form],    *)
(* where the form is "HH:MM", "HH:MM:SS", or "other" for no time at all.   *)
(***************************************************************************)
EXTENDS Pprpc

CONSTANTS
  Numbers,    \* values of header fields, below and beyond four varint bytes
  DayLists,   \* lists of weekdays, well-formed and not
  Minutes     \* minutes of the day

\* The numbers fit in the 64 bits of a field with its sign: ten bytes are a negative one.
ASSUME NumbersAssumption ==
  \A n \in Numbers : n \in Nat /\ Len(encode_varint[n]) < MaxVarintBytes
ASSUME SchedulesAssumption ==
  Minutes \subseteq 0..1439 /\ \A days \in DayLists : days \in Seq(Int)

-----------------------------------------------------------------------------
(* Protobuf fields.                                                        *)

value_field(number, value) == encode_varint[8 * number] \o encode_varint[value]

bytes_field(number, value) ==
  encode_varint[8 * number + 2] \o encode_varint[Len(value)] \o value

\* encode_protobuf_varint: an int64, negative values included.
encode_protobuf_varint(number, value) ==
  encode_varint[8 * number] \o (IF value < 0 THEN EncodeNegative(value) ELSE encode_varint[value])

build_time_sync_response(now, asked) ==
  encode_protobuf_varint(1, asked) \o encode_protobuf_varint(2, -30)
    \o encode_protobuf_varint(3, now)

\* The heartbeat, with the acknowledgement in field 4 if there is one.
build_time_request_payload(now, acks) ==
  encode_protobuf_varint(1, now)
    \o (IF acks = <<>> THEN <<>> ELSE encode_protobuf_varint(4, acks[1]))

\* Mutant: a field of four bytes is skipped as one of eight.
SkippedByEight(payload, wire_type, offset, value) ==
  CASE wire_type = 0 -> value.offset
    [] wire_type = 2 -> value.offset + value.value
    [] OTHER         -> offset + 8

\* The end of a field.  A length of ten varint bytes, which a negative number stands
\* for, is beyond any end.
Skipped(payload, wire_type, offset, value) ==
  CASE wire_type = 0 -> value.offset
    [] wire_type = 1 -> offset + 8
    [] wire_type = 2 -> IF value.value < 0 THEN Len(payload) + 1 ELSE value.offset + value.value
    [] wire_type = 5 -> offset + 4

\* The field at an offset, if it is of one of the wire types a reader knows: its
\* number and type, the varint behind them, if there is one, and its end.
field_at(payload, offset, wire_types) ==
  LET tag   == decode_varint(payload, offset, MaxVarintBytes)
      type  == tag.value % 8
      value == decode_varint(payload, tag.offset, MaxVarintBytes)
      end   == Skipped(payload, type, tag.offset, value)
  IN IF tag.error # "none" THEN tag
     ELSE IF type \notin wire_types THEN Raised("wire type")
     ELSE IF type \in {0, 2} /\ value.error # "none" THEN value
     ELSE IF end \notin tag.offset..Len(payload) THEN Raised("truncated")
     ELSE [error |-> "none", number |-> tag.value \div 8, type |-> type, varint |-> value,
           end |-> end]

\* _first_varint_field and _first_bytes_field: the first field with the number,
\* if all before it are of the wire type (0 or 2) the reader is for.
first_field(payload, number, wire_type) ==
  LET Find[offset \in 0..Len(payload)] ==
        LET field == field_at(payload, offset, {wire_type})
        IN IF offset = Len(payload) THEN Raised("missing")
           ELSE IF field.error # "none" THEN field
           ELSE IF field.number # number THEN Find[field.end]
           ELSE [error |-> "none",
                 value |-> IF wire_type = 0 THEN field.varint.value
                           ELSE SubSeq(payload, field.varint.offset + 1, field.end)]
  IN Find[0]

\* Field 1 of an answer, if it is there as a varint (-1 for None); other fields are
\* skipped.
read_response_value(payload) ==
  LET Read[offset \in 0..Len(payload)] ==
        LET field == field_at(payload, offset, {0, 1, 2, 5})
        IN IF offset = Len(payload) THEN [error |-> "none", value |-> -1]
           ELSE IF field.error # "none" THEN field
           ELSE IF field.type # 0 \/ field.number # 1 THEN Read[field.end]
           ELSE [error |-> "none", value |-> field.varint.value]
  IN Read[0]

-----------------------------------------------------------------------------
(* Schedules.                                                              *)

Times == [minute : Minutes, second : {0, 30}]
Texts == [minute : Minutes, form : {"HH:MM", "HH:MM:SS", "other"}]
Text(time) == [minute |-> time.minute, form |-> "HH:MM"]     \* strftime("%H:%M")

SortedDays(days) ==
  /\ days # <<>>
  /\ \A i \in 1..Len(days) : days[i] \in 0..6
  /\ \A i, j \in 1..Len(days) : i < j => days[i] < days[j]

\* IntrusionSchedule.__post_init__.
IntrusionSchedule(days, start, end) ==
  /\ SortedDays(days)
  /\ start.second = 0 /\ end.second = 0
  /\ start.minute <= end.minute

\* _schedule_from_value of the control API; no clock is shorter or longer than
\* five characters.
schedule_from_value(value) ==
  /\ value.start.form = "HH:MM" /\ value.end.form = "HH:MM"
  /\ IntrusionSchedule(value.days, [minute |-> value.start.minute, second |-> 0],
                       [minute |-> value.end.minute, second |-> 0])

\* Mutant: the switch asks for a schedule that has a length.
validated_schedule_strict(value) ==
  /\ SortedDays(value.days)
  /\ value.start.form # "other" /\ value.end.form # "other"
  /\ value.start.minute < value.end.minute

\* _validated_schedule of the switch, which reads any ISO time.
validated_schedule(value) ==
  /\ SortedDays(value.days)
  /\ value.start.form # "other" /\ value.end.form # "other"
  /\ value.start.minute <= value.end.minute

DefaultSchedule ==
  [days |-> [i \in 1..7 |-> i - 1], start |-> [minute |-> 0, form |-> "HH:MM"],
   end |-> [minute |-> 1439, form |-> "HH:MM"]]

\* intrusion_payload: what the switch sends for the stored schedules (none or
\* one), or nothing.
intrusion_payload(stored, enabled) ==
  LET schedule == IF stored = <<>> THEN DefaultSchedule ELSE stored[1]
  IN IF (stored = <<>> /\ enabled) \/ ~validated_schedule(schedule) THEN <<>>
     ELSE <<[enabled |-> enabled, schedule |-> schedule]>>

\* The service: SERVICE_SCHEMA, then the check that start is not after end.
service_accepts(days, start, end) ==
  /\ SortedDays(days) /\ Len(days) <= 7
  /\ start.second = 0 /\ end.second = 0
  /\ start.minute <= end.minute

-----------------------------------------------------------------------------
(* Commands.                                                               *)

NIGHT_VALUES == [enabled |-> 1, disabled |-> 2, automatic |-> 3]
FLIP_VALUES == [upright |-> 1, horizontal |-> 2, vertical |-> 3, rotate_180 |-> 4]
VIDEO_QUALITY_VALUES == [sd |-> 5, hd |-> 10, uhd |-> 15]
MOTION_VALUES == [low |-> 1, medium |-> 2, high |-> 3, closed |-> 0]

\* The four enumerations of the API and the options of the select entities.
EnumValues == <<NIGHT_VALUES, FLIP_VALUES, VIDEO_QUALITY_VALUES, MOTION_VALUES>>
Options ==
  <<{"automatic", "enabled", "disabled"},
    {"upright", "horizontal", "vertical", "rotate_180"},
    {"sd", "hd", "uhd"}, {"high", "medium", "low", "closed"}>>

\* A value of zero is left out, as protobuf does.
enum_payload(values, name) ==
  IF values[name] = 0 THEN <<>> ELSE value_field(2, values[name])

build_led_payload(enabled) == value_field(2, IF enabled THEN 1 ELSE 2)

\* Mutant: a start within the first hour is left out, not only midnight.
IntrusionWithoutHour(enabled, schedule) ==
  LET start  == IF schedule.start.minute < 60 THEN <<>>
                ELSE value_field(1, 60 * schedule.start.minute)
      range  == start \o value_field(2, 60 * schedule.end.minute)
      nested == bytes_field(2, schedule.days) \o bytes_field(3, range) \o value_field(4, 1)
  IN (IF enabled THEN value_field(2, 1) ELSE <<>>) \o bytes_field(3, nested)

build_intrusion_payload(enabled, schedule) ==
  LET start  == IF schedule.start.minute = 0 THEN <<>>
                ELSE value_field(1, 60 * schedule.start.minute)
      range  == start \o value_field(2, 60 * schedule.end.minute)
      nested == bytes_field(2, schedule.days) \o bytes_field(3, range) \o value_field(4, 1)
  IN (IF enabled THEN value_field(2, 1) ELSE <<>>) \o bytes_field(3, nested)

\* CameraSession._get: the name of the value the camera answers, or CameraError.
readback(values, payload) ==
  LET read == read_response_value(payload)
  IN IF read.error # "none" THEN "ValueError"
     ELSE IF \E name \in DOMAIN values : values[name] = read.value
     THEN CHOOSE name \in DOMAIN values : values[name] = read.value
     ELSE "CameraError"

-----------------------------------------------------------------------------
(* What must hold.                                                         *)

\* What the parser makes of a packet with these numbers and this payload.
ReadsBack(sequence, code, type, text) ==
  LET packet == parse_packet(pack_rpc(sequence, 2633, text, type, code), "no")
  IN IF sequence >= 2^28 \/ (type = 1 /\ code >= 2^28)
     THEN packet.error = "oversized"
     ELSE /\ packet.error = "none"
          /\ packet.sequence = sequence /\ packet.command_id = 2633
          /\ packet.rpc_type = type
          /\ packet.response_code = (IF type = 1 THEN code ELSE NoCode)
          /\ decrypt_rpc_payload(packet).text = text
          /\ text # <<>> =>
               decrypt_rpc_payload([packet EXCEPT !.sequence = @ + 1]).error # "none"

\* A packet the bridge writes is read back by the same parser as what was
\* written, with a payload that opens under its own header and no other, as long
\* as its numbers fit in four varint bytes; a larger sequence number, which some
\* four years of heartbeats would reach, is refused by the parser.
EveryPacketReadsBack ==
  \A sequence, code \in Numbers, type \in RequestTypes, text \in {<<>>, <<8, 1>>} :
    ReadsBack(sequence, code, type, text)

\* Fields read by number: the acknowledgement of a heartbeat and the times of a
\* time sync come out as they went in, behind a negative one too; and an answer
\* gives its field 1 whatever fields of other types stand before it, unless it
\* is cut short, and is shown as the name of that value.
EveryFieldReadsBack ==
  /\ \A now, ack \in Numbers :
       /\ first_field(build_time_request_payload(now, <<ack>>), 4, 0).value = ack
       /\ first_field(build_time_request_payload(now, <<>>), 4, 0).error = "missing"
       /\ first_field(build_time_sync_response(now, ack), 1, 0).value = ack
       /\ first_field(build_time_sync_response(now, ack), 3, 0).value = now
  /\ first_field(bytes_field(1, <<102, 48>>), 1, 2).value = <<102, 48>>
  /\ \A others \in {<<>>, value_field(2, 300), bytes_field(3, <<8, 5>>),
                    <<33, 8, 1, 8, 1, 8, 1, 8, 1>>, <<37, 8, 1, 8, 1>>} :
       \A value \in Numbers :
         LET answer == others \o others \o value_field(1, value)
         IN /\ read_response_value(answer) = [error |-> "none", value |-> value]
            /\ \A n \in (2 * Len(others) + 1)..(Len(answer) - 1) :
                 read_response_value(SubSeq(answer, 1, n)).error = "truncated"
            /\ read_response_value(others).value = -1
  /\ \A i \in 1..Len(EnumValues) : \A name \in DOMAIN EnumValues[i] :
       readback(EnumValues[i], value_field(1, EnumValues[i][name])) = name

Schedules ==
  {[days |-> days, start |-> start, end |-> end] :
     days \in DayLists, start, end \in Texts}

\* A schedule that gets past the service is accepted by the API as it is; one
\* that the API stores can be sent again by the switch, on or off, and is
\* accepted again unchanged; so is the default one.
EveryScheduleAgrees ==
  /\ \A days \in DayLists, start, end \in Times :
       service_accepts(days, start, end) =>
         schedule_from_value([days |-> days, start |-> Text(start), end |-> Text(end)])
  /\ \A schedule \in Schedules :
       schedule_from_value(schedule) =>
         \A enabled \in BOOLEAN :
           intrusion_payload(<<schedule>>, enabled)
             = <<[enabled |-> enabled, schedule |-> schedule]>>
  /\ schedule_from_value(intrusion_payload(<<>>, FALSE)[1].schedule)

\* Two different settings are never sent as the same bytes, although zeros are
\* left out, and every option of Home Assistant is a value of the API.
EverySettingIsDistinct ==
  /\ LET Valid == {schedule \in Schedules : schedule_from_value(schedule)}
     IN \A enabled, other \in BOOLEAN, schedule, second \in Valid :
          build_intrusion_payload(enabled, schedule) = build_intrusion_payload(other, second) =>
            enabled = other /\ schedule = second
  /\ build_led_payload(TRUE) # build_led_payload(FALSE)
  /\ \A i \in 1..Len(EnumValues) :
       /\ Options[i] = DOMAIN EnumValues[i]
       /\ \A name, other \in Options[i] :
            name # other =>
              enum_payload(EnumValues[i], name) # enum_payload(EnumValues[i], other)
=============================================================================
