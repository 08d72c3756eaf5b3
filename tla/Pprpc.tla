------------------------------- MODULE Pprpc -------------------------------
(***************************************************************************)
(* The wire format of the camera (pprpc.py, and the packing of requests in *)
(* camera.py) as pure operators over sequences of bytes.                   *)
(*                                                                         *)
(* Every reader returns a record with a field "error": "none", or the kind *)
(* of PacketError it raises.  An offset counts the bytes before a position,*)
(* as in Python, so that the byte at an offset is data[offset + 1].        *)
(*                                                                         *)
(* Encryption is symbolic: a ciphertext has the length AES-CBC with padding*)
(* gives it, and each of its bytes is the pair of the key and the text, so *)
(* that only the same key opens it.  It is never read as a number.         *)
(***************************************************************************)
EXTENDS Integers, Sequences

MaxVarintBytes == 10

SupportedTypes == 3..8
SupportedFlags == {8, 9, 10}

RequestTypes == {0, 1}      \* RPC_REQUEST, RPC_RESPONSE
Aes256Cbc == 3
NoCode == -1                \* response_code of a request: None

Raised(kind) == [error |-> kind]

-----------------------------------------------------------------------------
(* Varints.                                                                *)

encode_varint[value \in Nat] ==
  IF value < 128 THEN <<value>>
  ELSE <<128 + (value % 128)>> \o encode_varint[value \div 128]

\* encode_protobuf_varint of a negative number: ten bytes of two's complement.
EncodeNegative(value) ==
  LET Shifted[i \in 0..9] == IF i = 0 THEN value ELSE Shifted[i - 1] \div 128
  IN [i \in 1..10 |-> IF i = 10 THEN 1 ELSE 128 + (Shifted[i - 1] % 128)]

\* The n bytes at the offset are one varint: only the last one is below 128.
IsVarint(data, offset, n) ==
  /\ offset + n <= Len(data)
  /\ \A i \in 1..(n - 1) : data[offset + i] >= 128
  /\ data[offset + n] < 128

\* The number the bytes of a varint stand for.  One of ten bytes is named by the
\* negative number with the same 64 bits.
Number(bytes) ==
  LET From[i \in 1..(Len(bytes) + 1)] ==
        IF i > Len(bytes) THEN 0
        ELSE IF i = 10 THEN -bytes[i]
        ELSE (bytes[i] % 128) + 128 * From[i + 1]
  IN From[1]

\* With _decode_varint of camera.py, whose limit is ten bytes too.
decode_varint(data, offset, max_bytes) ==
  IF \E n \in 1..max_bytes : IsVarint(data, offset, n)
  THEN LET n == CHOOSE n \in 1..max_bytes : IsVarint(data, offset, n)
       IN [error |-> "none", offset |-> offset + n,
           value |-> Number(SubSeq(data, offset + 1, offset + n))]
  ELSE Raised(IF offset + max_bytes <= Len(data) THEN "oversized" ELSE "truncated")

\* Consecutive varints of at most max_bytes[i] bytes each, or the first error.
DecodeVarints(data, offset, max_bytes) ==
  LET after[i \in 0..Len(max_bytes)] ==
        IF i = 0 THEN [error |-> "none", offset |-> offset, values |-> <<>>]
        ELSE LET before == after[i - 1]
                 next == decode_varint(data, before.offset, max_bytes[i])
             IN IF before.error # "none" THEN before
                ELSE IF next.error # "none" THEN next
                ELSE [error |-> "none", offset |-> next.offset,
                      values |-> Append(before.values, next.value)]
  IN after[Len(max_bytes)]

-----------------------------------------------------------------------------
(* Packets.                                                                *)

Rest(data, offset) == SubSeq(data, offset + 1, Len(data))

\* With udp = "auto" the "Qp" in front of a datagram is looked for.
StartsDatagram(data) == Len(data) >= 2 /\ data[1] = 81 /\ data[2] = 112

parse_fixed_header(data, udp) ==
  LET is_udp == IF udp = "auto" THEN StartsDatagram(data) ELSE udp = "yes"
      start  == IF is_udp THEN 2 ELSE 0
      kind   == data[start + 1]
      length == decode_varint(data, start + 1, 4)
  IN IF is_udp /\ ~StartsDatagram(data) THEN Raised("missing magic")
     ELSE IF Len(data) <= start THEN Raised("missing")
     ELSE IF kind \div 16 \notin SupportedTypes \/ kind % 16 \notin SupportedFlags
     THEN Raised("unsupported")
     ELSE IF length.error # "none" THEN length
     ELSE [error |-> "none", message_type |-> kind \div 16, length |-> length.value,
           size |-> length.offset]

parse_rpc(body) ==
  LET head  == DecodeVarints(body, 0, <<4, 4>>)
      flags == body[head.offset + 1]
      code  == IF flags % 4 = 0
               THEN [error |-> "none", offset |-> head.offset + 1, value |-> NoCode]
               ELSE decode_varint(body, head.offset + 1, 4)
  IN IF head.error # "none" THEN head
     ELSE IF head.offset >= Len(body) THEN Raised("missing")
     ELSE IF flags % 4 \notin RequestTypes THEN Raised("unsupported")
     ELSE IF code.error # "none" THEN code
     ELSE [error |-> "none", sequence |-> head.values[1], command_id |-> head.values[2],
           encryption_type |-> flags \div 4, rpc_type |-> flags % 4,
           response_code |-> code.value, payload |-> Rest(body, code.offset)]

parse_av(body) ==
  LET head == DecodeVarints(body, 2, <<4, 4, 9, 4>>)
  IN IF Len(body) < 2 THEN Raised("missing")
     ELSE IF head.error # "none" THEN head
     ELSE [error |-> "none", is_key_frame |-> body[1] >= 128, media_format |-> body[1] % 128,
           encryption_type |-> body[2], channel |-> head.values[1],
           sequence |-> head.values[2], timestamp |-> head.values[3],
           encrypted_length |-> head.values[4], payload |-> Rest(body, head.offset)]

\* parse_packet with exact=True, as every caller asks for.
parse_packet(data, udp) ==
  LET header == parse_fixed_header(data, udp)
      body   == Rest(data, header.size)
  IN IF header.error # "none" THEN header
     ELSE IF header.size + header.length > Len(data) THEN Raised("truncated")
     ELSE IF header.size + header.length # Len(data) THEN Raised("trailing")
     ELSE IF header.message_type \in {4, 5} THEN parse_rpc(body)
     ELSE IF header.message_type = 6 THEN parse_av(body)
     ELSE [error |-> "none", payload |-> body]

-----------------------------------------------------------------------------
(* Requests and answers of the bridge.                                     *)

derive_rpc_key(sequence, command_id, rpc_type) == <<sequence, command_id, rpc_type>>

\* aes_cbc_encrypt_padded: whole blocks of 16 bytes, one to sixteen of padding.
Encrypted(plaintext, key) ==
  [i \in 1..(16 * (Len(plaintext) \div 16 + 1)) |-> [key |-> key, text |-> plaintext]]

\* Mutant: the length of a packet is counted before the answer's code is added.
PackBeforeCode(sequence, command_id, plaintext, rpc_type, response_code) ==
  LET payload == IF plaintext = <<>> THEN <<>>
                 ELSE Encrypted(plaintext, derive_rpc_key(sequence, command_id, rpc_type))
      body    == encode_varint[sequence] \o encode_varint[command_id]
                   \o <<4 * Aes256Cbc + rpc_type>>
      code    == IF rpc_type = 1 THEN encode_varint[response_code] ELSE <<>>
  IN <<72>> \o encode_varint[Len(body \o payload)] \o body \o code \o payload

pack_rpc(sequence, command_id, plaintext, rpc_type, response_code) ==
  LET payload == IF plaintext = <<>> THEN <<>>
                 ELSE Encrypted(plaintext, derive_rpc_key(sequence, command_id, rpc_type))
      body    == encode_varint[sequence] \o encode_varint[command_id]
                   \o <<4 * Aes256Cbc + rpc_type>>
                   \o (IF rpc_type = 1 THEN encode_varint[response_code] ELSE <<>>)
                   \o payload
  IN <<72>> \o encode_varint[Len(body)] \o body

\* The payload of a packet, opened with the key its own header gives.
decrypt_rpc_payload(packet) ==
  LET key == derive_rpc_key(packet.sequence, packet.command_id, packet.rpc_type)
  IN IF packet.payload = <<>> THEN [error |-> "none", text |-> <<>>]
     ELSE IF packet.encryption_type # Aes256Cbc THEN Raised("unsupported")
     ELSE IF packet.payload[1].key # key THEN Raised("undecipherable")
     ELSE [error |-> "none", text |-> packet.payload[1].text]
=============================================================================
