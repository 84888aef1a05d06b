------------------------------- MODULE InfoText -------------------------------
(***************************************************************************)
(* How a node worker reads an A2S_INFO reply of the game server and writes *)
(* the answer its own clients get: OnReceiveSourceServerA2SInfo, byte by   *)
(* byte, with the texts and the optional fields.  (How the player count    *)
(* falls is in PlayerView; here the six bytes around it are passed on.)    *)
(***************************************************************************)
EXTENDS LeyBuf

CONSTANTS Replies,          \* A2S_INFO replies of the game server
          Leftovers,        \* what may be left behind them, up to a NUL
          CustomNames,      \* settings of the worker; <<>> is none
          MAXDATAGRAM,      \* the longest datagram
          A2S_MAXDATASIZE

VARIABLES
    customname,
    servera2s,
    srca2sinfo,       \* the answer: the bytes of it that are sent
    reply             \* history: the last reply, or none

infoVars == <<customname, servera2s, srca2sinfo, reply>>

Byte == 0..255

\* The proxy's header and the -1 of a reply that is not split.
Header == [i \in 1..15 |-> 7]
OutOfBand == <<255, 255, 255, 255>>

-----------------------------------------------------------------------------
(* The fields of a reply, in order: the size of a number, or 0 for a text;  *)
(* and the bit of edf that tells that the field is there, or 0 if it always *)
(* is.                                                                      *)

Field(name, size, bit) == [name |-> name, size |-> size, bit |-> bit]

Fields ==
    <<Field("header", 1, 0), Field("protocol", 1, 0), Field("name", 0, 0),
      Field("map", 0, 0), Field("folder", 0, 0), Field("game", 0, 0),
      Field("appid", 2, 0), Field("counts", 3, 0), Field("kinds", 3, 0),
      Field("vac", 1, 0), Field("version", 0, 0), Field("edf", 1, 0),
      Field("gameport", 2, 128), Field("serversid", 8, 16),
      Field("sourcetv_port", 2, 64), Field("sourcetv_name", 0, 64),
      Field("keywords", 0, 32), Field("servergameid", 8, 1)>>

Names == {Fields[i].name : i \in DOMAIN Fields}

LastFixed == 9      \* kinds, and a check of the position behind it
LastSure == 12      \* edf

Has(edf, bit) == (edf \div bit) % 2 = 1

Present(info, field) == field.bit = 0 \/ Has(info.edf[1], field.bit)

Text == {t \in Seq(1..255) : Len(t) <= MAXDATAGRAM}

IsInfo(info) ==
    /\ info \in [Names -> Seq(Byte)]
    /\ \A i \in DOMAIN Fields :
          info[Fields[i].name] \in IF Fields[i].size = 0 THEN Text
                                   ELSE [1..Fields[i].size -> Byte]

NoInfo ==
    [name \in Names |->
        LET field == CHOOSE i \in DOMAIN Fields : Fields[i].name = name
        IN [k \in 1..Fields[field].size |-> 0]]

-----------------------------------------------------------------------------
ReadField(s, field) ==
    LET r == IF field.size = 0 THEN ReadString(s.buf, s.info[field.name])
                               ELSE Read(s.buf, field.size)
    IN IF Present(s.info, field)
       THEN [buf |-> r.buf, info |-> [s.info EXCEPT ![field.name] = r.value]]
       ELSE s

\* Fields first to last, one after the other.
ReadFields(s, first, last) ==
    LET read[i \in (first - 1)..Len(Fields)] ==
            IF i < first THEN s ELSE ReadField(read[i - 1], Fields[i])
    IN read[last]

MutantForgetsThePort(b, info, field) ==
    IF ~Present(info, field) \/ field.name = "gameport" THEN b
    ELSE IF field.size = 0 THEN WriteString(b, info[field.name])
    ELSE Write(b, info[field.name])

WriteField(b, info, field) ==
    IF ~Present(info, field) THEN b
    ELSE IF field.size = 0 THEN WriteString(b, info[field.name])
    ELSE Write(b, info[field.name])

\* All fields up to last.
WriteFields(b, info, last) ==
    LET written[i \in 0..Len(Fields)] ==
            IF i = 0 THEN b ELSE WriteField(written[i - 1], info, Fields[i])
    IN written[last]

\* A game port is always read and always told.
WithGamePort(edf) == IF Has(edf, 128) THEN edf ELSE edf + 128

\* The Steam id, lowest byte first, plus the proxy's port.
Raised(sid) ==
    [i \in DOMAIN sid |->
        IF \A k \in 1..(i - 1) : sid[k] = 255 THEN (sid[i] + 1) % 256 ELSE sid[i]]

\* What is read up to the check before vac.
Begun(packet, behind) ==
    ReadFields([buf |-> Read(leybuf(packet \o behind, Len(packet)), 19).buf,
                info |-> servera2s], 1, LastFixed)

MutantSkipsThePort(begun) ==
    LET sure == ReadFields(begun, LastFixed + 1, LastSure)
        edf == WithGamePort(sure.info.edf[1])
        all == ReadFields([sure EXCEPT !.info.edf = <<edf>>],
                          LastSure + 2, Len(Fields)).info
    IN [all EXCEPT !.gameport = <<1, 1>>,
                   !.serversid = IF Has(edf, 16) THEN Raised(@) ELSE @,
                   !.name = IF customname = <<>> THEN @ ELSE customname]

\* All that is read; the game port told is the worker's own, the Steam id is
\* raised, and the custom name replaces the one read.
Finished(begun) ==
    LET sure == ReadFields(begun, LastFixed + 1, LastSure)
        edf == WithGamePort(sure.info.edf[1])
        all == ReadFields([sure EXCEPT !.info.edf = <<edf>>],
                          LastSure + 1, Len(Fields)).info
    IN [all EXCEPT !.gameport = <<1, 1>>,
                   !.serversid = IF Has(edf, 16) THEN Raised(@) ELSE @,
                   !.name = IF customname = <<>> THEN @ ELSE customname]

\* The answer.
Written(info) ==
    LET memory == [i \in 1..A2S_MAXDATASIZE |-> 0]
        b == WriteFields(Write(leybuf(memory, A2S_MAXDATASIZE), OutOfBand),
                         info, Len(Fields))
    IN SubSeq(b.buffer, 1, b.curbyte)

\* A reply that ends too early for the fixed fields is itself the answer,
\* proxy's header and all, cut to the length the answer had or followed by the
\* rest of it.
OnReceiveSourceServerA2SInfo(packet, behind) ==
    LET begun == Begun(packet, behind) IN
    IF Tested(begun.buf, 0).overflowed
    THEN /\ servera2s' = begun.info
         /\ srca2sinfo' = Copied(srca2sinfo, 0, packet)
    ELSE /\ servera2s' = Finished(begun)
         /\ srca2sinfo' = Written(servera2s')

-----------------------------------------------------------------------------
(* The game server.                                                        *)

Bytes(r, field) ==
    IF ~Present(r, field) THEN <<>>
    ELSE IF field.size = 0 THEN Append(r[field.name], NUL)
    ELSE r[field.name]

\* The fields of a reply up to last.
Packed(r, last) ==
    LET packed[i \in 0..Len(Fields)] ==
            IF i = 0 THEN <<>> ELSE packed[i - 1] \o Bytes(r, Fields[i])
    IN packed[last]

Packet(r) == Header \o OutOfBand \o Packed(r, Len(Fields))

\* The NUL that Receive puts behind a datagram is one byte too far, so a byte of
\* an earlier one may be left there.  A reply of one datagram is far shorter than
\* the answer may be: seven of them, for the seven texts, have room in it.
ASSUME RepliesAssumption ==
    /\ \A r \in Replies : IsInfo(r)
    /\ Leftovers \subseteq Seq(1..255)
    /\ CustomNames \subseteq Text
    /\ MAXDATAGRAM \in Nat
    /\ \A r \in Replies, l \in Leftovers : Len(Packet(r)) + Len(l) < MAXDATAGRAM
    /\ A2S_MAXDATASIZE \in Nat
    /\ 7 * MAXDATAGRAM + 43 < A2S_MAXDATASIZE

InfoInit ==
    /\ customname \in CustomNames
    /\ servera2s = NoInfo
    /\ srca2sinfo = <<>>
    /\ reply = <<>>

SourceReplies(r, leftover) ==
    /\ OnReceiveSourceServerA2SInfo(Packet(r), Append(leftover, NUL))
    /\ reply' = r
    /\ UNCHANGED customname

InfoNext == \E r \in Replies, l \in Leftovers : SourceReplies(r, l)

InfoSpec == InfoInit /\ [][InfoNext]_infoVars

-----------------------------------------------------------------------------
\* Every variable keeps its type: numbers keep their sizes, texts have no NUL
\* and are no longer than a datagram, and the answer fits.
InfoTypeOK ==
    /\ customname \in CustomNames
    /\ IsInfo(servera2s)
    /\ srca2sinfo \in Seq(Byte)
    /\ Len(srca2sinfo) < A2S_MAXDATASIZE
    /\ reply \in Replies \cup {<<>>}

\* Bytes of a reply from a field on.
Room(r, i) == Len(Packed(r, Len(Fields))) - Len(Packed(r, i - 1))

\* The text the worker has keeps it from reading that field.
TooLong(i) ==
    /\ Fields[i].size = 0
    /\ Present(reply, Fields[i])
    /\ Len(servera2s[Fields[i].name]) > Room(reply, i)

\* A client that reads the answer field by field finds all that the worker has
\* read and nothing else, whatever optional fields came and went; unless a text
\* the worker has is longer than the rest of a reply from that text on, which
\* makes that reply itself, or as much of it as fits, the answer.
ClientsReadTheAnswer ==
    LET bytes == leybuf(srca2sinfo, Len(srca2sinfo))
        client == ReadFields([buf |-> Read(bytes, 4).buf, info |-> NoInfo],
                             1, Len(Fields))
    IN \/ reply = <<>>
       \/ /\ SubSeq(srca2sinfo, 1, 4) = OutOfBand
          /\ \A i \in DOMAIN Fields :
                Present(servera2s, Fields[i]) =>
                    client.info[Fields[i].name] = servera2s[Fields[i].name]
          /\ client.buf.curbyte = Len(srca2sinfo)
       \/ /\ \E i \in 1..LastFixed : TooLong(i)
          /\ srca2sinfo = Copied(srca2sinfo, 0, Packet(reply))

\* The texts that clients see are those of the last reply.  The only thing that
\* keeps an old one is an old text, there or in an earlier field, that is longer
\* than all that is left of the reply; only optional fields without a game port
\* among them are read shifted.
TextsFollowTheReply ==
    \A i \in DOMAIN Fields :
       /\ reply # <<>>
       /\ Fields[i].size = 0
       /\ Present(reply, Fields[i])
       /\ i <= LastSure \/ Has(reply.edf[1], 128)
       => \/ servera2s[Fields[i].name] = reply[Fields[i].name]
          \/ Fields[i].name = "name" /\ servera2s.name = customname
          \/ \E k \in 1..i : TooLong(k)
=============================================================================
