----------------------------- MODULE Ch06Samples -----------------------------
(***************************************************************************)
(* The two sample files of chapter 6, as binaries/ch06-fileformat/         *)
(* fileformat.c writes them and as the ImHex patterns of the repository    *)
(* (hexpat/ch06_fileformat.hexpat, solutions/ch06-checkpoint-solution      *)
(* .hexpat) follow them: every offset and every count is written by the    *)
(* one and believed by the other.  Widths are the code's.                  *)
(***************************************************************************)
EXTENDS Cells

-----------------------------------------------------------------------------
(***************************************************************************)
(* sample.cdb                                                              *)
(***************************************************************************)
CDB_HEADER_SIZE == 32
CDB_FIELD_COUNT == 3
CDB_FIELD_DESC_SIZE == 32
CDB_RECORD_COUNT == 5
CDB_RECORD_SIZE == 4 + 20 + 40 + 4
CDB_FOOTER_SIZE == 12

\* (after_descriptors + 31) & ~31u
Aligned(n) == ((n + 31) \div 32) * 32

Repeat(n, cell) == [i \in 1..n |-> cell]

\* The cells of generate_cdb, one for each fwrite or element of one.
CdbCells ==
    LET after == CDB_HEADER_SIZE + CDB_FIELD_COUNT * CDB_FIELD_DESC_SIZE
        data_offset == Aligned(after)
    IN  <<[kind |-> "cdb", width |-> CDB_HEADER_SIZE, record_count |-> CDB_RECORD_COUNT,
           data_offset |-> data_offset, field_count |-> CDB_FIELD_COUNT]>>
        \o Repeat(CDB_FIELD_COUNT, [kind |-> "field", width |-> CDB_FIELD_DESC_SIZE])
        \o Repeat(data_offset - after, [kind |-> "byte", val |-> 0])
        \o [i \in 1..CDB_RECORD_COUNT |->
               [kind |-> "cdb record", width |-> CDB_RECORD_SIZE, record_id |-> i]]
        \o <<[kind |-> "cdb footer", width |-> CDB_FOOTER_SIZE, record_count |-> CDB_RECORD_COUNT,
              data_end_offset |-> data_offset + CDB_RECORD_COUNT * CDB_RECORD_SIZE]>>

\* The pattern of the repository finds what it declares, each in its place.
CdbFollowed(cells) ==
    /\ At(cells, 0).kind = "cdb"
    /\ LET header == cells[1]
           footer == header.data_offset + header.record_count * CDB_RECORD_SIZE
       IN  /\ \A i \in 0..header.field_count - 1 :
                 At(cells, CDB_HEADER_SIZE + i * CDB_FIELD_DESC_SIZE).kind = "field"
           /\ \A i \in 0..header.record_count - 1 :
                 At(cells, header.data_offset + i * CDB_RECORD_SIZE)
                     = [kind |-> "cdb record", width |-> CDB_RECORD_SIZE, record_id |-> i + 1]
           /\ At(cells, footer).kind = "cdb footer"
           /\ At(cells, footer).record_count = header.record_count
           /\ At(cells, footer).data_end_offset = footer

-----------------------------------------------------------------------------
(***************************************************************************)
(* sample.pkt                                                              *)
(***************************************************************************)
PKT_HEADER_SIZE == 32
SESSION_SIZE == 48
PACKET_HEADER_SIZE == 16
PKT_FOOTER_SIZE == 16

Packet(type, has_crc, length) == [type |-> type, has_crc |-> has_crc, length |-> length]

\* The seven packets of generate_pkt.
Packets ==
    <<Packet("HANDSHAKE_INIT", FALSE, 20), Packet("HANDSHAKE_ACK", TRUE, 22),
      Packet("AUTH_REQUEST", TRUE, 64), Packet("AUTH_RESPONSE", FALSE, 40),
      Packet("DATA_TRANSFER", TRUE, 36), Packet("DATA_TRANSFER", TRUE, 48),
      Packet("DISCONNECT", FALSE, 32)>>

PKT_COUNT == 7

PktHeader(total_length, footer_offset) ==
    [kind |-> "pkt", width |-> PKT_HEADER_SIZE, packet_count |-> PKT_COUNT,
     total_length |-> total_length, data_offset |-> PKT_HEADER_SIZE + SESSION_SIZE,
     footer_offset |-> footer_offset]

Payload(seq) == [kind |-> "payload", width |-> Packets[seq].length, seq |-> seq]

Crc32Of(cells) == [crc32 |-> cells]

\* write_packet
PacketCells(seq) ==
    <<[kind |-> "packet", width |-> PACKET_HEADER_SIZE, seq |-> seq, type |-> Packets[seq].type,
       has_crc |-> Packets[seq].has_crc, payload_length |-> Packets[seq].length],
      Payload(seq)>>
    \o IF Packets[seq].has_crc
       THEN <<[kind |-> "crc", width |-> 4, crc |-> Crc32Of(<<Payload(seq)>>)]>> ELSE <<>>

\* The payloads of the first n packets together.
PayloadTotal(n) ==
    LET total[i \in 0..n] == IF i = 0 THEN 0 ELSE total[i - 1] + Packets[i].length IN total[n]

PktFooter(file_crc32) ==
    [kind |-> "pkt footer", width |-> PKT_FOOTER_SIZE,
     total_payload_bytes |-> PayloadTotal(Len(Packets)),
     packet_count_check |-> PKT_COUNT, file_crc32 |-> file_crc32]

\* Everything before the footer: in the file, with the first header.
Body(header) ==
    LET body[n \in 0..Len(Packets)] ==
            IF n = 0 THEN <<header, [kind |-> "session", width |-> SESSION_SIZE]>>
            ELSE body[n - 1] \o PacketCells(n)
    IN  body[Len(Packets)]

footer_pos == SizeOf(Body(PktHeader(0, 0)))

\* The header is filled in before the packets are there.
BugPktWrites(file_crc) ==
    LET header == PktHeader(footer_pos + PKT_FOOTER_SIZE, footer_pos)
    IN  WriteAll(Body(header) \o <<PktFooter(0)>>)
        \o <<WriteAt(Len(Body(header)), <<PktFooter(file_crc)>>)>>

\* generate_pkt: the offsets are filled in when the footer is there.  The file
\* was opened "wb", from which fread reads nothing: file_crc is that of the
\* memory malloc returned, whatever it holds.
PktWrites(file_crc) ==
    WriteAll(Body(PktHeader(0, 0)) \o <<PktFooter(0)>>)
    \o <<WriteAt(0, <<PktHeader(footer_pos + PKT_FOOTER_SIZE, footer_pos)>>),
         WriteAt(Len(Body(PktHeader(0, 0))), <<PktFooter(file_crc)>>)>>

\* Packet packets[...]: each advances the cursor by its own size.
Advanced(cells, offset) ==
    LET hdr == At(cells, offset)
    IN  IF hdr.kind # "packet" THEN -1
        ELSE offset + PACKET_HEADER_SIZE + hdr.payload_length + (IF hdr.has_crc THEN 4 ELSE 0)

PktCursor(cells, n) ==
    LET cursor[i \in 0..n] == IF i = 0 THEN cells[1].data_offset ELSE Advanced(cells, cursor[i - 1])
    IN  cursor[n]

\* The two consistency checks of the pattern, and what it places by offsets.
PktFollowed(cells) ==
    LET header == cells[1]
        footer == At(cells, header.footer_offset)
    IN  /\ PktCursor(cells, header.packet_count) = header.footer_offset
        /\ footer.kind = "pkt footer"
        /\ header.total_length = SizeOf(cells)
        /\ header.packet_count = footer.packet_count_check

\* The sum of the payload_length of all packets.
PayloadBytes(cells) ==
    LET bytes[n \in 0..Len(cells)] ==
            IF n = 0 THEN 0
            ELSE bytes[n - 1] + (IF cells[n].kind = "packet" THEN cells[n].payload_length ELSE 0)
    IN  bytes[Len(cells)]
=============================================================================
