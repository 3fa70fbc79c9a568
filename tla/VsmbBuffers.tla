----------------------------- MODULE VsmbBuffers -----------------------------
(***************************************************************************)
(* The two FSCTL input buffers of gcs-sidecar/vsmb.go VsmbMain.            *)
(*                                                                         *)
(* Each buffer is a request struct followed by a UTF-16 name: the code     *)
(* converts the name with syscall.StringToUTF16 (which appends a NUL),     *)
(* sizes the buffer as unsafe.Sizeof(struct) plus the name without its     *)
(* NUL, copies the struct's memory to the front and the name's units       *)
(* after it, and records the name's byte length in a header field.         *)
(*                                                                         *)
(* Go lays a struct out field by field, each at the next multiple of its   *)
(* alignment, and rounds the size up to the largest alignment; integers    *)
(* are little-endian; padding and fields the literal leaves out are zero.  *)
(* The names are sequences of Unicode code points over a small alphabet    *)
(* with a character outside the BMP, which UTF-16 encodes as a surrogate   *)
(* pair.                                                                   *)
(***************************************************************************)
EXTENDS Naturals, Sequences, SequencesExt, FiniteSetsExt, Bitwise

CONSTANTS
    CodePoints,  \* the characters names are made of (no NUL)
    MaxNameLen   \* longest name, in characters

ASSUME CodePoints \subseteq 1..1114111 /\ MaxNameLen \in Nat

VARIABLES
    instanceName,   \* GLOBAL_VMSMB_INSTANCE_NAME
    transportName,  \* GLOBAL_VMBUS_TRANSPORT_NAME
    startBuffer,    \* the FSCTL_LMR_START_INSTANCE input buffer, once built
    bindBuffer      \* the FSCTL_LMR_BIND_TO_TRANSPORT input buffer, once built

vars == <<instanceName, transportName, startBuffer, bindBuffer>>

Names == BoundedSeq(CodePoints, MaxNameLen)

-----------------------------------------------------------------------------
(***************************************************************************)
(* Struct layout (unsafe.Sizeof and the struct's memory).                  *)
(***************************************************************************)

\* A field: an integer of w bytes, a byte array, or a nested struct.
Field(n, w) == [name |-> n, size |-> w, align |-> w, sub |-> <<>>]
ByteArray(n, k) == [name |-> n, size |-> k, align |-> 1, sub |-> <<>>]
U32s(ns) == [k \in DOMAIN ns |-> Field(ns[k], 4)]

AlignUp(x, a) == ((x + a - 1) \div a) * a

RECURSIVE OffsetsFrom(_, _)
OffsetsFrom(s, off) ==
    IF s = <<>> THEN <<>>
    ELSE LET o == AlignUp(off, Head(s).align)
         IN <<o>> \o OffsetsFrom(Tail(s), o + Head(s).size)

Offsets(s) == OffsetsFrom(s, 0)
Alignof(s) == Max({s[k].align : k \in DOMAIN s} \cup {1})
Sizeof(s) ==
    IF s = <<>> THEN 0
    ELSE AlignUp(Offsets(s)[Len(s)] + s[Len(s)].size, Alignof(s))

Struct(n, s) == [name |-> n, size |-> Sizeof(s), align |-> Alignof(s), sub |-> s]

SMB2InstanceConfiguration ==
    U32s(<<"DormantDirectoryTimeout", "DormantFileTimeout", "DormantFileLimit",
           "FileInfoCacheLifetime", "FileNotFoundCacheLifetime", "DirectoryCacheLifetime",
           "FileInfoCacheEntriesMax", "FileNotFoundCacheEntriesMax", "DirectoryCacheEntriesMax",
           "DirectoryCacheSizeMax", "ReadAheadGranularity", "VolumeFeatureSupportCacheLifetime",
           "VolumeFeatureSupportCacheEntriesMax", "FileAbeStatusCacheLifetime">>)
    \o <<Field("RequireSecuritySignature", 1), Field("RequireEncryption", 1), ByteArray("Padding", 2)>>

LMRConnectionProperties ==
    <<Field("Flags1", 1), Field("Flags2", 1), ByteArray("Padding", 2)>>
    \o U32s(<<"SessionTimeoutInterval", "CAHandleKeepaliveInterval", "NonCAHandleKeepaliveInterval",
              "ActiveIOKeepaliveInterval", "DisableRdma", "ConnectionCountPerRdmaInterface">>)
    \o <<Field("AlternateTcpPort", 2), Field("AlternateQuicPort", 2), Field("AlternateRdmaPort", 2),
         ByteArray("Padding2", 2)>>

LMRStartInstanceRequest ==
    <<Field("StructureSize", 4), Field("IoTimeout", 4), Field("IoRetryCount", 4),
      Field("Flags", 2), Field("Padding1", 2), Field("Reserved1", 4),
      Struct("InstanceConfig", SMB2InstanceConfiguration),
      Struct("DefaultConnectionProperties", LMRConnectionProperties),
      Field("InstanceId", 1), Field("Reserved2", 1), Field("DeviceNameLength", 2)>>

LMRBindUnbindTransportRequest ==
    <<Field("StructureSize", 2), Field("Flags", 2), Field("Type", 4), Field("TransportIdLength", 4)>>

\* The w bytes of v, little-endian.
LE(v, w) == [k \in 1..w |-> (v \div 2^(8 * (k - 1))) % 256]

NoValue == [n \in {} |-> 0]
ValueOf(v, f) == IF f.name \in DOMAIN v THEN v[f.name] ELSE IF f.sub = <<>> THEN 0 ELSE NoValue

\* The memory of a struct s holding the values v (fields not in v are zero).
RECURSIVE Encode(_, _)
Encode(s, v) ==
    LET off == Offsets(s)
        bytes == [k \in DOMAIN s |-> IF s[k].sub = <<>> THEN LE(ValueOf(v, s[k]), s[k].size)
                                     ELSE Encode(s[k].sub, ValueOf(v, s[k]))]
        owner(p) == {k \in DOMAIN s : off[k] < p /\ p <= off[k] + s[k].size}
    IN [p \in 1..Sizeof(s) |-> IF owner(p) = {} THEN 0
                               ELSE LET k == CHOOSE k \in owner(p) : TRUE IN bytes[k][p - off[k]]]

-----------------------------------------------------------------------------
(***************************************************************************)
(* Names and buffers.                                                      *)
(***************************************************************************)

\* syscall.StringToUTF16: the UTF-16 units of s, then a NUL.
EncodeRune(r) ==
    IF r < 65536 THEN <<r>>
    ELSE <<55296 + (r - 65536) \div 1024, 56320 + ((r - 65536) % 1024)>>
StringToUTF16(s) == FlattenSeq([k \in DOMAIN s |-> EncodeRune(s[k])]) \o <<0>>

UnitBytes(u) == FlattenSeq([k \in DOMAIN u |-> LE(u[k], 2)])

\* make([]byte, size), then copy(buf[:hlen], header) and copy(buf[hlen:],
\* tail); copy stops at the end of the shorter slice.
CopyInto(size, hlen, header, tail) ==
    [p \in 1..size |-> IF p <= hlen THEN (IF p <= Len(header) THEN header[p] ELSE 0)
                       ELSE IF p - hlen <= Len(tail) THEN tail[p - hlen] ELSE 0]

\* Mutation of StartInstanceRequest: the NUL counted in DeviceNameLength.
StartInstanceRequestCountingNul(u) ==
    [StructureSize |-> Sizeof(LMRStartInstanceRequest), IoTimeout |-> 30, IoRetryCount |-> 3,
     Flags |-> 2 | 4 | 8 | 16, InstanceId |-> 1, DeviceNameLength |-> (Len(u) * 2) % 2^16,
     DefaultConnectionProperties |->
        [Flags1 |-> 31, SessionTimeoutInterval |-> 55, CAHandleKeepaliveInterval |-> 10,
         NonCAHandleKeepaliveInterval |-> 30, ActiveIOKeepaliveInterval |-> 30]]

\* The startReq literal and the assignments after it, for name units u.
StartInstanceRequest(u) ==
    [StructureSize |-> Sizeof(LMRStartInstanceRequest), IoTimeout |-> 30, IoRetryCount |-> 3,
     Flags |-> 2 | 4 | 8 | 16, InstanceId |-> 1, DeviceNameLength |-> ((Len(u) - 1) * 2) % 2^16,
     DefaultConnectionProperties |->
        [Flags1 |-> 31, SessionTimeoutInterval |-> 55, CAHandleKeepaliveInterval |-> 10,
         NonCAHandleKeepaliveInterval |-> 30, ActiveIOKeepaliveInterval |-> 30]]

StartInstanceBuffer(name) ==
    LET u == StringToUTF16(name)
        structSize == Sizeof(LMRStartInstanceRequest)
    IN CopyInto(structSize + (Len(u) - 1) * 2, structSize,
                Encode(LMRStartInstanceRequest, StartInstanceRequest(u)),
                UnitBytes(SubSeq(u, 1, Len(u) - 1)))

\* Mutation of BindRequest: the NUL counted in TransportIdLength.
BindRequestCountingNul(u) ==
    [StructureSize |-> (Sizeof(LMRBindUnbindTransportRequest) + 4) % 2^16, Flags |-> 0, Type |-> 2,
     TransportIdLength |-> (Len(u) * 2)]

\* The bindReq literal, for name units u.
BindRequest(u) ==
    [StructureSize |-> (Sizeof(LMRBindUnbindTransportRequest) + 4) % 2^16, Flags |-> 0, Type |-> 2,
     TransportIdLength |-> ((Len(u) - 1) * 2)]

BindBuffer(name) ==
    LET u == StringToUTF16(name)
        bindStructSize == Sizeof(LMRBindUnbindTransportRequest)
    IN CopyInto(bindStructSize + (Len(u) - 1) * 2, bindStructSize,
                Encode(LMRBindUnbindTransportRequest, BindRequest(u)),
                UnitBytes(SubSeq(u, 1, Len(u) - 1)))

-----------------------------------------------------------------------------
Init ==
    /\ instanceName \in Names
    /\ transportName \in Names
    /\ startBuffer = <<>>
    /\ bindBuffer = <<>>

\* Build StartInstance buffer.
BuildStartInstance ==
    /\ startBuffer = <<>>
    /\ startBuffer' = StartInstanceBuffer(instanceName)
    /\ UNCHANGED <<instanceName, transportName, bindBuffer>>

\* BindTransport buffer, built after the start request.
BuildBindTransport ==
    /\ startBuffer # <<>> /\ bindBuffer = <<>>
    /\ bindBuffer' = BindBuffer(transportName)
    /\ UNCHANGED <<instanceName, transportName, startBuffer>>

Next == BuildStartInstance \/ BuildBindTransport

Spec == Init /\ [][Next]_vars

-----------------------------------------------------------------------------
(***************************************************************************)
(* Properties: the buffers as a reader that trusts their headers sees      *)
(* them, decoded independently of how they were built.                     *)
(***************************************************************************)

RECURSIVE ReadLE(_, _, _)
ReadLE(b, off, w) == IF w = 0 THEN 0 ELSE b[off + 1] + 256 * ReadLE(b, off + 1, w - 1)

HeaderField(s, b, n) ==
    LET k == CHOOSE k \in DOMAIN s : s[k].name = n IN ReadLE(b, Offsets(s)[k], s[k].size)

RECURSIVE Runes(_)
Runes(u) ==
    IF u = <<>> THEN <<>>
    ELSE IF Len(u) >= 2 /\ u[1] \in 55296..56319 /\ u[2] \in 56320..57343
         THEN <<65536 + (u[1] - 55296) * 1024 + (u[2] - 56320)>> \o Runes(Tail(Tail(u)))
         ELSE <<u[1]>> \o Runes(Tail(u))

\* The name a reader finds in the len bytes at offset off of b.
NameAt(b, off, len) ==
    Runes([k \in 1..(len \div 2) |-> b[off + 2 * k - 1] + 256 * b[off + 2 * k]])

\* The start-instance buffer carries the instance name right after the
\* request struct, DeviceNameLength counts its bytes without the NUL, the
\* buffer ends right after it, and the bytes there decode to
\* GLOBAL_VMSMB_INSTANCE_NAME, surrogate pairs included.  (What the driver
\* expects in StructureSize is left open, as for the bind request.)
StartBufferDescribesName ==
    startBuffer # <<>> =>
        LET h == Sizeof(LMRStartInstanceRequest)
            dl == HeaderField(LMRStartInstanceRequest, startBuffer, "DeviceNameLength")
        IN /\ Len(startBuffer) = h + dl
           /\ NameAt(startBuffer, h, dl) = instanceName

\* The bind buffer carries the transport name right after the request
\* struct, TransportIdLength counts its bytes without the NUL, and the
\* buffer ends right after it.
BindBufferCarriesName ==
    bindBuffer # <<>> =>
        LET h == Sizeof(LMRBindUnbindTransportRequest)
            tl == HeaderField(LMRBindUnbindTransportRequest, bindBuffer, "TransportIdLength")
        IN /\ Len(bindBuffer) = h + tl
           /\ NameAt(bindBuffer, h, tl) = transportName

=============================================================================
