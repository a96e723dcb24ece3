--------------------------- MODULE Records_proofs ---------------------------
(***************************************************************************)
(* That the walk over a datagram never reads past its end, nor past the    *)
(* set it is in, never reads a byte twice and comes to an end, whatever    *)
(* the bytes are; and that the typed view dates the flows it finds there   *)
(* when they were, as far as their exporter tells, whatever its clock and  *)
(* its counter show.                                                       *)
(***************************************************************************)
EXTENDS ParseSets, FlowTime, NaturalsInduction, WellFoundedInduction, TLAPS

-----------------------------------------------------------------------------
(* From bytes to records.                                                  *)
(* Where the walk stands: nothing at or behind the cursor in use has been  *)
(* read, and every end lies within the one around it.                      *)
InBounds ==
  /\ data \in Datagrams /\ off <= Size
  /\ pc = "message" => read.to = 0 /\ off = 0
  /\ pc = "v5" => read.to <= off
  /\ pc \in {"sets"} \cup InSet => read.to <= off /\ msgEnd <= Size
  /\ pc \in InSet => setEnd <= msgEnd /\ off = setEnd
  /\ pc \in InSet \ {"fields"} => read.to <= body /\ body <= setEnd
  /\ pc = "fields" => /\ read.to <= at /\ body <= at /\ at <= setEnd
                      /\ next <= Len(fields) + 1

(* The inductive invariant.                                                *)
IInv == TypeOK /\ ReadsInside /\ InBounds

LEMMA SizeIsNat == ASSUME data \in Datagrams PROVE Size \in Nat
BY DatagramsAssumption DEF Size

LEMMA ElementOf == ASSUME NEW S, NEW s \in Seq(S), NEW i \in 1..Len(s)
                   PROVE  s[i] \in S
OBVIOUS

(* What is read inside the datagram is a byte, and two are a word.         *)
LEMMA ByteRead == ASSUME data \in Datagrams, NEW o \in Nat, o + 1 <= Size
                  PROVE  U8(o) \in Nat /\ U8(o) <= 255
<1>1. data.bytes \in Seq(Byte)
  BY DatagramsAssumption
<1>2. o + 1 \in 1..Len(data.bytes)
  BY SizeIsNat DEF Size
<1>3. U8(o) \in Byte
  BY <1>1, <1>2, ElementOf, Zenon DEF U8
<1>4. QED BY <1>3 DEF Byte

LEMMA WordRead == ASSUME data \in Datagrams, NEW o \in Nat, o + 2 <= Size
                  PROVE  U16(o) \in Nat /\ U16(o) < 65536
<1>1. U8(o) \in Nat /\ U8(o) <= 255
  BY ByteRead, SizeIsNat
<1>2. (o + 1) \in Nat /\ (o + 1) + 1 <= Size
  BY SizeIsNat
<1>3. U8(o + 1) \in Nat /\ U8(o + 1) <= 255
  BY <1>2, ByteRead
<1>4. QED BY <1>1, <1>3 DEF U16

LEMMA InitIInv == Init => IInv
<1> SUFFICES ASSUME Init PROVE IInv
  OBVIOUS
<1>1. Size \in Nat
  BY SizeIsNat DEF Init
<1>2. TypeOK
  BY DatagramsAssumption DEF Init, TypeOK
<1>3. ReadsInside /\ InBounds
  BY <1>1 DEF Init, ReadsInside, InBounds, InSet
<1>4. QED BY <1>2, <1>3 DEF IInv

-----------------------------------------------------------------------------
(* The steps that open the message and its sets.                           *)
LEMMA HeadersKeep ==
  ASSUME IInv, ReadV5Header \/ ReadHeader \/ OpenSet
  PROVE  IInv' /\ (read' # read => read'.from >= read.to)
<1> USE DEF IInv
<1>1. Size \in Nat /\ data \in Datagrams /\ Size' = Size
  BY SizeIsNat DEF InBounds, ReadV5Header, ReadHeader, OpenSet, Size
<1>2. CASE ReadV5Header
  <2>1. Size >= 24
    BY <1>1, <1>2 DEF ReadV5Header, Short, HeaderSize
  <2>2. U16(2) \in Nat
    BY <1>1, <2>1, WordRead
  <2>3. TypeOK'
    BY <1>2, <2>2 DEF ReadV5Header, TypeOK, Reads, set, record
  <2>4. (ReadsInside /\ InBounds)' /\ read'.from >= read.to
    BY <1>1, <1>2, <2>1 DEF ReadV5Header, Reads, ReadsInside, InBounds, InSet, TypeOK
  <2>5. QED BY <2>3, <2>4
<1>3. CASE ReadHeader
  <2> DEFINE h == HeaderSize(Version)
  <2>1. Version \in {9, 10} /\ h \in Nat /\ h >= 16 /\ Size >= h
    BY <1>1, <1>3 DEF ReadHeader, Short, HeaderSize
  <2>2. U16(2) \in Nat
    BY <1>1, <2>1, WordRead
  <2>3. MessageEnd \in Nat /\ MessageEnd <= Size
    BY <1>1, <2>2 DEF MessageEnd, Least
  <2>4. TypeOK'
    BY <1>3, <2>1, <2>3 DEF ReadHeader, TypeOK, Reads, set, record, template
  <2>5. (ReadsInside /\ InBounds)' /\ read'.from >= read.to
    BY <1>1, <1>3, <2>1, <2>3
    DEF ReadHeader, Reads, ReadsInside, InBounds, InSet, TypeOK
  <2>6. QED BY <2>4, <2>5
<1>4. CASE OpenSet
  <2>1. off \in Nat /\ msgEnd \in Nat /\ off + 4 <= msgEnd /\ msgEnd <= Size
        /\ read.to <= off /\ read.to \in Nat
    BY <1>4 DEF OpenSet, SetWaits, InBounds, TypeOK
  <2>2. U16(off) \in Nat /\ U16(off + 2) \in Nat /\ U16(off + 2) >= 4
    BY <1>1, <1>4, <2>1, WordRead DEF OpenSet, SetWaits
  <2>3. /\ setEnd' \in Nat /\ setEnd' <= msgEnd /\ off + 4 <= setEnd'
        /\ off' = setEnd' /\ body' = off + 4
    BY <1>4, <2>1, <2>2 DEF OpenSet, Least
  <2>4. /\ pc' \in {"templates", "options", "data", "sets"}
        /\ tmpl' = [tmpl EXCEPT !.id = U16(off)]
        /\ read' = [from |-> off, to |-> off + 4]
        /\ UNCHANGED <<data, msgEnd, fields, record, store>>
    <3>1. pc' = CASE U16(off) = TemplateSet -> "templates"
                  [] U16(off) = OptionsSet -> "options"
                  [] U16(off) >= 256 -> "data"
                  [] OTHER -> "sets"
      BY <1>4 DEF OpenSet
    <3>2. QED BY <1>4, <3>1 DEF OpenSet, Reads
  <2>5. TypeOK'
    <3>1. tmpl' \in [id : Nat, count : Nat, options : BOOLEAN]
      BY <2>2, <2>4 DEF TypeOK
    <3>2. read' \in [from : Nat, to : Nat]
      BY <2>1, <2>4
    <3>3. UNCHANGED <<at, next, fields, store, msgEnd>> /\ off' \in Nat /\ body' \in Nat
      BY <2>1, <2>3, <2>4 DEF record
    <3>4. QED BY <2>3, <2>4, <3>1, <3>2, <3>3 DEF TypeOK, InSet
  <2>6. (ReadsInside /\ InBounds)' /\ read'.from >= read.to
    BY <1>1, <2>1, <2>3, <2>4 DEF ReadsInside, InBounds, InSet
  <2>7. QED BY <2>5, <2>6
<1>5. QED BY <1>2, <1>3, <1>4

-----------------------------------------------------------------------------
(* The steps that read templates.                                          *)
LEMMA TemplateHeadersKeep ==
  ASSUME IInv, ReadTemplate \/ ReadOptionsTemplate \/ ReadOptionsTemplateV9
  PROVE  IInv' /\ (read' # read => read'.from >= read.to)
<1> USE DEF IInv
<1>1. /\ Size \in Nat /\ data \in Datagrams /\ Size' = Size
      /\ body \in Nat /\ setEnd \in Nat /\ msgEnd \in Nat /\ off \in Nat
      /\ read.to \in Nat /\ read.to <= body /\ body + 4 <= setEnd
      /\ setEnd <= msgEnd /\ msgEnd <= Size /\ off = setEnd
      /\ pc = "options" => body + 6 <= setEnd
      /\ UNCHANGED <<data, off, msgEnd, setEnd, at, next, store>>
  BY SizeIsNat DEF InBounds, InSet, ReadTemplate, ReadOptionsTemplate, TypeOK,
     ReadOptionsTemplateV9, Size, walk, record
<1>2. U16(body) \in Nat /\ U16(body + 2) \in Nat
  BY <1>1, WordRead
<1>3. pc = "options" => U16(body + 4) \in Nat
  BY <1>1, WordRead
<1>4. /\ pc' \in {"templates", "options", "specs", "sets"}
      /\ tmpl' \in [id : Nat, count : Nat, options : BOOLEAN]
      /\ body' \in Nat /\ body + 4 <= body' /\ body' <= setEnd
      /\ \E n \in {4, 6} : /\ read' = [from |-> body, to |-> body + n]
                           /\ body + n <= body'
  <2>1. CASE ReadTemplate
    BY <1>1, <1>2, <2>1 DEF ReadTemplate, Reads
  <2>2. CASE ReadOptionsTemplate
    BY <1>1, <1>2, <2>2 DEF ReadOptionsTemplate, Reads
  <2>3. CASE ReadOptionsTemplateV9
    <3> DEFINE scopeLen == U16(body + 2)
               optLen == U16(body + 4)
               behind == body + 6 + scopeLen + optLen
               malformed == \/ scopeLen % 4 # 0 \/ optLen % 4 # 0
                            \/ behind > setEnd
    <3>1. scopeLen \in Nat /\ optLen \in Nat /\ body + 6 <= setEnd
      BY <1>1, <1>2, <1>3, <2>3 DEF ReadOptionsTemplateV9
    <3>2. /\ tmpl' = [id |-> U16(body), count |-> (scopeLen + optLen) \div 4,
                      options |-> TRUE]
          /\ pc' = CASE malformed -> "options"
                    [] scopeLen + optLen = 0 -> "sets"
                    [] OTHER -> "specs"
          /\ body' = IF malformed THEN PassedOver(behind) ELSE body + 6
          /\ read' = [from |-> body, to |-> body + 6]
      BY <2>3 DEF ReadOptionsTemplateV9, Reads
    <3> HIDE DEF malformed
    <3>3. pc' \in {"options", "specs", "sets"}
      BY <3>2
    <3>4. body' \in Nat /\ body + 6 <= body' /\ body' <= setEnd
      <4>1. PassedOver(behind) \in Nat /\ body + 6 <= PassedOver(behind)
            /\ PassedOver(behind) <= setEnd
        BY <1>1, <3>1 DEF PassedOver, Least
      <4>2. QED BY <1>1, <3>1, <3>2, <4>1
    <3>5. (scopeLen + optLen) \div 4 \in Nat
      BY <3>1
    <3>6. QED BY <1>1, <1>2, <3>2, <3>3, <3>4, <3>5
  <2>4. QED BY <2>1, <2>2, <2>3
<1>5. fields' = <<>>
  BY DEF ReadTemplate, ReadOptionsTemplate, ReadOptionsTemplateV9
<1>6. TypeOK'
  <2>1. fields' \in Seq(Field)
    BY <1>5
  <2>2. read' \in [from : Nat, to : Nat]
    BY <1>1, <1>4
  <2>3. QED BY <1>1, <1>4, <2>1, <2>2 DEF TypeOK, InSet
<1>7. (ReadsInside /\ InBounds)' /\ read'.from >= read.to
  BY <1>1, <1>4 DEF ReadsInside, InBounds, InSet
<1>8. QED BY <1>6, <1>7

(* A specification read is a field.                                        *)
LEMMA FieldMade == ASSUME NEW n \in Name, NEW k \in Kind, NEW l \in Word
                   PROVE  [name |-> n, kind |-> k, len |-> l] \in Field
BY DEF Field

LEMMA SpecifiedIsField ==
  ASSUME data \in Datagrams, body \in Nat, body + 4 <= Size, SpecEnd <= Size
  PROVE  Specified \in Field
<1>0. Size \in Nat
  BY SizeIsNat
<1>1. U16(body) \in Word /\ U16(body + 2) \in Word
  <2>1. body + 2 <= Size /\ body + 2 \in Nat /\ (body + 2) + 2 <= Size
    BY <1>0
  <2>2. U16(body) \in Nat /\ U16(body) < 65536
    BY <2>1, WordRead
  <2>3. U16(body + 2) \in Nat /\ U16(body + 2) < 65536
    BY <2>1, WordRead
  <2>4. QED BY <2>2, <2>3 DEF Word
<1>2. CASE HasEnterprise
  <2>1. body + 8 <= Size
    BY <1>2 DEF SpecEnd
  <2>2. U16(body + 4) \in Nat /\ U16((body + 4) + 2) \in Nat
    <3>1. /\ body + 4 \in Nat /\ (body + 4) + 2 <= Size
          /\ (body + 4) + 2 \in Nat /\ ((body + 4) + 2) + 2 <= Size
      BY <1>0, <2>1
    <3>2. QED BY <3>1, WordRead
  <2>3. U32(body + 4) \in Nat
    BY <2>2 DEF U32
  <2>4. U16(body) - 32768 \in {n \in Nat : n < 32768}
    <3>1. U16(body) >= 32768
      BY <1>2 DEF HasEnterprise
    <3>2. QED BY <1>1, <3>1 DEF Word
  <2>5. <<"e", U32(body + 4), U16(body) - 32768>> \in Name
    BY <2>3, <2>4 DEF Name
  <2>6. "auto" \in Kind
    BY DEF Kind
  <2> DEFINE n == <<"e", U32(body + 4), U16(body) - 32768>>
  <2>7. n \in Name
    BY <2>5
  <2>8. Specified = [name |-> n, kind |-> "auto", len |-> U16(body + 2)]
    BY <1>2 DEF Specified
  <2> HIDE DEF n
  <2>9. QED BY <1>1, <2>6, <2>7, <2>8, FieldMade
<1>3. CASE ~HasEnterprise
  <2>1. Specified = Standard(U16(body), U16(body + 2))
    BY <1>3 DEF Specified
  <2>2. CASE U16(body) \in DOMAIN Ie
    <3>1. Ie[U16(body)].name \in Name /\ Ie[U16(body)].kind \in Kind
      BY <2>2, DatagramsAssumption DEF Name
    <3>2. QED BY <1>1, <2>1, <2>2, <3>1, FieldMade, Zenon DEF Standard
  <2>3. CASE U16(body) \notin DOMAIN Ie
    <3>1. <<"ie", U16(body)>> \in Name /\ "auto" \in Kind
      BY <1>1 DEF Name, Kind
    <3>2. QED BY <1>1, <2>1, <2>3, <3>1, FieldMade, Zenon DEF Standard
  <2>4. QED BY <2>2, <2>3
<1>4. QED BY <1>2, <1>3

LEMMA SpecsKeep ==
  ASSUME IInv, ReadSpec \/ SpecCutShort \/ PutTemplate
  PROVE  IInv' /\ (read' # read => read'.from >= read.to)
<1> USE DEF IInv
<1>1. /\ Size \in Nat /\ data \in Datagrams /\ Size' = Size
      /\ body \in Nat /\ setEnd \in Nat /\ msgEnd \in Nat /\ off \in Nat
      /\ read.from \in Nat /\ read.to \in Nat /\ read.from <= read.to
      /\ read.to <= body /\ body <= setEnd
      /\ setEnd <= msgEnd /\ msgEnd <= Size /\ off = setEnd
      /\ UNCHANGED <<data, off, msgEnd, setEnd, at, next, tmpl>>
      /\ pc = "specs"
  BY SizeIsNat DEF InBounds, InSet, ReadSpec, SpecCutShort, PutTemplate, TypeOK,
     MoreSpecs, Size, walk, set, template, record, ReadsInside
<1>2. CASE ReadSpec
  <2>1. SpecEnd \in Nat /\ SpecEnd >= body + 4 /\ SpecEnd <= setEnd
    BY <1>1, <1>2 DEF ReadSpec, SpecEnd
  <2>2. Specified \in Field
    BY <1>1, <2>1, SpecifiedIsField
  <2>3. /\ fields' = Append(fields, Specified) /\ body' = SpecEnd
        /\ read' = [from |-> body, to |-> SpecEnd]
        /\ UNCHANGED <<pc, store>>
    BY <1>2 DEF ReadSpec, Reads
  <2>4. fields' \in Seq(Field)
    BY <2>2, <2>3 DEF TypeOK
  <2>5. TypeOK'
    BY <1>1, <2>1, <2>3, <2>4 DEF TypeOK
  <2>6. (ReadsInside /\ InBounds)' /\ read'.from >= read.to
    BY <1>1, <2>1, <2>3 DEF ReadsInside, InBounds, InSet
  <2>7. QED BY <2>5, <2>6
<1>3. CASE SpecCutShort
  <2>1. pc' = "sets" /\ UNCHANGED <<body, fields, store>>
    BY <1>3 DEF SpecCutShort, set, template
  <2>2. \/ read' = read
        \/ body + 4 <= setEnd /\ read' = [from |-> body, to |-> body + 4]
    BY <1>3 DEF SpecCutShort, Reads
  <2>3. read' \in [from : Nat, to : Nat]
    BY <1>1, <2>2 DEF TypeOK
  <2>4. TypeOK'
    BY <1>1, <2>1, <2>3 DEF TypeOK
  <2>5. (ReadsInside /\ InBounds)' /\ (read' # read => read'.from >= read.to)
    BY <1>1, <2>1, <2>2 DEF ReadsInside, InBounds, InSet
  <2>6. QED BY <2>4, <2>5
<1>4. CASE PutTemplate
  <2>1. pc' \in {"options", "templates"} /\ UNCHANGED <<body, fields, read>>
    BY <1>4 DEF PutTemplate, set, template
  <2>2. [fields |-> fields, options |-> tmpl.options] \in Template
    BY DEF TypeOK, Template
  <2>3. \A t \in DOMAIN store' : store'[t] \in Template
    BY <1>4, <2>2 DEF PutTemplate, TypeOK
  <2>4. TypeOK'
    BY <1>1, <2>1, <2>3 DEF TypeOK, InSet
  <2>5. (ReadsInside /\ InBounds)'
    BY <1>1, <2>1 DEF ReadsInside, InBounds, InSet
  <2>6. QED BY <2>1, <2>4, <2>5
<1>5. QED BY <1>2, <1>3, <1>4

-----------------------------------------------------------------------------
(* The steps that read records.                                            *)

(* A value that fits lies behind what was read and inside the set.         *)
LEMMA ValueInside ==
  ASSUME IInv, MoreFields, PrefixFits
  PROVE  /\ ValueStart \in Nat /\ at <= ValueStart
         /\ OwnLength => ValueStart <= setEnd
         /\ ValueEnd \in Nat /\ ValueStart <= ValueEnd
<1> USE DEF IInv
<1>1. /\ at \in Nat /\ setEnd \in Nat /\ setEnd <= Size /\ Size \in Nat
      /\ data \in Datagrams
  BY SizeIsNat DEF InBounds, InSet, MoreFields, TypeOK
<1>2. fields[next] \in Field
  BY ElementOf DEF MoreFields, TypeOK
<1>3. fields[next].len \in Nat
  BY <1>2 DEF Field, Word
<1>4. CASE ~OwnLength
  BY <1>1, <1>3, <1>4 DEF ValueStart, ValueEnd, ValueLength
<1>5. CASE OwnLength
  <2>1. at < setEnd /\ (U8(at) = 255 => at + 3 <= setEnd)
    BY <1>5 DEF PrefixFits
  <2>2. U8(at) \in Nat
    BY <1>1, <2>1, ByteRead
  <2>3. U8(at) = 255 => U16(at + 1) \in Nat
    <3>1. U8(at) = 255 => (at + 1) \in Nat /\ (at + 1) + 2 <= Size
      BY <1>1, <2>1
    <3>2. QED BY <1>1, <3>1, WordRead
  <2>4. QED BY <1>1, <1>5, <2>1, <2>2, <2>3 DEF ValueStart, ValueEnd, ValueLength
<1>6. QED BY <1>4, <1>5

LEMMA RecordsKeep ==
  ASSUME IInv,
         \/ OpenData \/ StartRecord \/ ReadField \/ FieldCutShort \/ EndRecord
  PROVE  IInv' /\ (read' # read => read'.from >= read.to)
<1> USE DEF IInv
<1>1. /\ Size \in Nat /\ data \in Datagrams /\ Size' = Size
      /\ body \in Nat /\ setEnd \in Nat /\ msgEnd \in Nat /\ off \in Nat
      /\ at \in Nat /\ next \in Nat \ {0}
      /\ read.from \in Nat /\ read.to \in Nat /\ read.from <= read.to
      /\ read.to <= setEnd /\ setEnd <= msgEnd /\ msgEnd <= Size /\ off = setEnd
      /\ UNCHANGED <<data, off, msgEnd, setEnd, store>>
  BY SizeIsNat DEF InBounds, InSet, OpenData, StartRecord, ReadField, MoreFields,
     FieldCutShort, EndRecord, TypeOK, Size, walk, set, ReadsInside
<1>2. CASE OpenData
  <2>1. store[tmpl.id] \in Template
    BY <1>2 DEF OpenData, TypeOK
  <2>2. fields' \in Seq(Field) /\ tmpl' \in [id : Nat, count : Nat, options : BOOLEAN]
    BY <1>2, <2>1 DEF OpenData, Template, TypeOK
  <2>3. pc = "data" /\ pc' = "records" /\ UNCHANGED <<body, at, next, read>>
    BY <1>2 DEF OpenData, set, record
  <2>4. TypeOK'
    BY <1>1, <2>2, <2>3 DEF TypeOK, InSet
  <2>5. (ReadsInside /\ InBounds)'
    BY <1>1, <2>3 DEF ReadsInside, InBounds, InSet
  <2>6. QED BY <2>3, <2>4, <2>5
<1>3. CASE StartRecord
  <2>1. /\ pc = "records" /\ pc' = "fields" /\ at' = body /\ next' = 1
        /\ UNCHANGED <<body, tmpl, fields, read>>
    BY <1>3 DEF StartRecord, set, template
  <2>2. TypeOK'
    BY <1>1, <2>1 DEF TypeOK, InSet
  <2>3. (ReadsInside /\ InBounds)'
    BY <1>1, <2>1 DEF ReadsInside, InBounds, InSet
  <2>4. QED BY <2>1, <2>2, <2>3
<1>4. CASE ReadField
  <2>1. /\ ValueEnd \in Nat /\ at <= ValueEnd /\ ValueEnd <= setEnd
    BY <1>1, <1>4, ValueInside DEF ReadField, ValueFits
  <2>2. /\ pc = "fields" /\ at' = ValueEnd /\ next' = next + 1
        /\ read' = [from |-> at, to |-> ValueEnd]
        /\ UNCHANGED <<pc, body, tmpl, fields>>
        /\ next <= Len(fields)
    BY <1>4 DEF ReadField, MoreFields, Reads, set, template
  <2>3. TypeOK'
    BY <1>1, <2>1, <2>2 DEF TypeOK
  <2>4. Len(fields) \in Nat
    BY DEF TypeOK
  <2>5. (ReadsInside /\ InBounds)' /\ read'.from >= read.to
    BY <1>1, <2>1, <2>2, <2>4 DEF ReadsInside, InBounds, InSet
  <2>6. QED BY <2>3, <2>5
<1>5. CASE FieldCutShort
  <2>1. pc = "fields" /\ pc' = "sets" /\ UNCHANGED <<body, tmpl, fields, at, next>>
    BY <1>5 DEF FieldCutShort, MoreFields, set, template, record
  <2>2. \/ read' = read
        \/ \E to \in Nat : /\ at <= to /\ to <= setEnd
                          /\ read' = [from |-> at, to |-> to]
    <3>1. CASE PrefixFits /\ Reads(at, ValueStart)
      <4>1. ValueStart \in Nat /\ at <= ValueStart /\ ValueStart <= setEnd
        <5>1. CASE OwnLength
          BY <1>5, <3>1, <5>1, ValueInside DEF FieldCutShort
        <5>2. CASE ~OwnLength
          BY <1>1, <2>1, <5>2 DEF ValueStart, InBounds
        <5>3. QED BY <5>1, <5>2
      <4>2. QED BY <3>1, <4>1 DEF Reads
    <3>2. CASE at < setEnd /\ Reads(at, at + 1)
      BY <1>1, <3>2 DEF Reads
    <3>3. QED BY <1>5, <3>1, <3>2 DEF FieldCutShort
  <2>3. read' \in [from : Nat, to : Nat]
    BY <1>1, <2>2 DEF TypeOK
  <2>4. TypeOK'
    BY <1>1, <2>1, <2>3 DEF TypeOK
  <2>5. (ReadsInside /\ InBounds)' /\ (read' # read => read'.from >= read.to)
    BY <1>1, <2>1, <2>2 DEF ReadsInside, InBounds, InSet
  <2>6. QED BY <2>4, <2>5
<1>6. CASE EndRecord
  <2>1. /\ pc = "fields" /\ pc' = "records" /\ body' = at
        /\ UNCHANGED <<at, next, tmpl, fields, read>>
    BY <1>6 DEF EndRecord, template, record
  <2>2. TypeOK'
    BY <1>1, <2>1 DEF TypeOK, InSet
  <2>3. (ReadsInside /\ InBounds)'
    BY <1>1, <2>1 DEF ReadsInside, InBounds, InSet
  <2>4. QED BY <2>1, <2>2, <2>3
<1>7. QED BY <1>2, <1>3, <1>4, <1>5, <1>6

-----------------------------------------------------------------------------
(* The v5 records, and every step that only moves the program on.          *)
LEMMA OthersKeep ==
  ASSUME IInv,
         \/ ReadV5Record \/ ReturnV5 \/ ReturnNothing \/ Refuse \/ ReturnSets
         \/ NoTemplateLeft \/ Defer \/ NoRecordLeft \/ EmptyRecord
         \/ UNCHANGED vars
  PROVE  IInv' /\ (read' # read => read'.from >= read.to)
<1> USE DEF IInv
<1>1. CASE ReadV5Record
  <2>1. Size \in Nat /\ off \in Nat /\ off + 48 <= Size /\ read.to <= off
    BY <1>1, SizeIsNat DEF ReadV5Record, V5RecordWaits, V5Record, InBounds, TypeOK
  <2>2. /\ pc = "v5" /\ off' = off + 48 /\ read' = [from |-> off, to |-> off + 48]
        /\ UNCHANGED <<data, pc, msgEnd, setEnd, body, tmpl, fields, at, next, store>>
        /\ Size' = Size
    BY <1>1 DEF ReadV5Record, V5Record, Reads, set, template, record, Size
  <2>3. TypeOK'
    BY <2>1, <2>2 DEF TypeOK
  <2>4. (ReadsInside /\ InBounds)' /\ read'.from >= read.to
    BY <2>1, <2>2 DEF ReadsInside, InBounds, InSet
  <2>5. QED BY <2>3, <2>4
<1>2. CASE UNCHANGED vars
  BY <1>2 DEF vars, walk, set, template, record, TypeOK, ReadsInside, InBounds, Size
<1>3. CASE \/ ReturnV5 \/ ReturnNothing \/ Refuse \/ ReturnSets
           \/ NoTemplateLeft \/ Defer \/ NoRecordLeft \/ EmptyRecord
  <2>1. /\ pc' \in {"done", "raised"} \/ (pc' = "sets" /\ pc \in InSet)
        /\ UNCHANGED <<data, off, msgEnd, setEnd, body, tmpl, fields, at, next,
                       store, read>>
    BY <1>3 DEF ReturnV5, ReturnNothing, Refuse, ReturnSets, NoTemplateLeft, Defer,
       NoRecordLeft, EmptyRecord, LeaveSet, walk, set, template, record, InSet
  <2>2. TypeOK'
    BY <2>1 DEF TypeOK, InSet
  <2>3. (ReadsInside /\ InBounds)'
    BY <2>1 DEF ReadsInside, InBounds, InSet, Size
  <2>4. QED BY <2>1, <2>2, <2>3
<1>4. QED BY <1>1, <1>2, <1>3

LEMMA NextIInv ==
  IInv /\ [Next]_vars => IInv' /\ (read' # read => read'.from >= read.to)
BY HeadersKeep, TemplateHeadersKeep, SpecsKeep, RecordsKeep, OthersKeep DEF Next

-----------------------------------------------------------------------------
LEMMA AlwaysIInv == Spec => []IInv
<1>1. Init => IInv
  BY InitIInv
<1>2. IInv /\ [Next]_vars => IInv'
  BY NextIInv
<1>3. QED BY <1>1, <1>2, PTL DEF Spec

(* The walk's state keeps its shape, whatever bytes arrive and whatever    *)
(* templates were held: lengths read are words, fields read are fields.    *)
THEOREM TypeCorrect == Spec => []TypeOK
<1>1. IInv => TypeOK
  BY DEF IInv
<1>2. QED BY <1>1, AlwaysIInv, PTL

(* For every datagram: nothing outside it is read, and inside a set        *)
(* nothing of the set behind it.                                           *)
THEOREM WalkStaysInside == Spec => []ReadsInside
<1>1. IInv => ReadsInside
  BY DEF IInv
<1>2. QED BY <1>1, AlwaysIInv, PTL

(* For every datagram: the walk only goes forward, so no byte is given to  *)
(* two templates or records.                                               *)
THEOREM WalkGoesForward == Spec => EachByteOnce
<1>1. IInv /\ [Next]_vars => [read' # read => read'.from >= read.to]_vars
  BY NextIInv
<1>2. QED BY <1>1, AlwaysIInv, PTL DEF Spec, EachByteOnce

-----------------------------------------------------------------------------
(* That the walk comes to an end.                                          *)

(* What is left is made of its parts, and each is a number.                *)
LEMMA LeftParts ==
  /\ Left[1] = Size - off /\ Left[2] = Depth
  /\ Left[3] = IF pc \in InSet THEN setEnd - body ELSE 0
  /\ Left[4] = Stage
  /\ Left[5] = IF pc = "fields" THEN Len(fields) + 1 - next ELSE 0
BY DEF Left

LEMMA Five ==
  ASSUME NEW a \in Nat, NEW b \in Nat, NEW c \in Nat, NEW d \in Nat, NEW e \in Nat
  PROVE  <<a, b, c, d, e>> \in Lefts
BY DEF Lefts

LEMMA LeftIsNatural == IInv => Left \in Lefts
<1> SUFFICES ASSUME IInv PROVE Left \in Lefts
  OBVIOUS
<1> DEFINE a == Size - off
           c == IF pc \in InSet THEN setEnd - body ELSE 0
           e == IF pc = "fields" THEN Len(fields) + 1 - next ELSE 0
<1>1. a \in Nat
  BY SizeIsNat DEF IInv, InBounds, TypeOK
<1>2. Depth \in Nat /\ Stage \in Nat
  BY DEF Depth, Stage
<1>3. c \in Nat
  BY DEF IInv, InBounds, TypeOK, InSet
<1>4. e \in Nat
  <2>1. Len(fields) \in Nat
    BY DEF IInv, TypeOK
  <2>2. QED BY <2>1 DEF IInv, InBounds, TypeOK
<1>5. Left = <<a, Depth, c, Stage, e>>
  BY DEF Left
<1> HIDE DEF a, c, e
<1>6. QED BY <1>1, <1>2, <1>3, <1>4, <1>5, Five

(* A step leaves less if it brings down one part and none before it.       *)
LEMMA LessAt ==
  ASSUME NEW a, NEW b, NEW i \in 1..5, a[i] < b[i],
         \A j \in 1..(i - 1) : a[j] = b[j]
  PROVE  Less(a, b)
BY DEF Less

LEMMA Shorter ==
  ASSUME NEW s \in Nat, NEW a \in Nat, NEW b \in Nat, a < b
  PROVE  s - b < s - a
OBVIOUS

(* The next set, or record of v5.                                          *)
LEMMA FurtherOn ==
  ASSUME IInv, IInv', data' = data, off < off'
  PROVE  Less(Left', Left)
<1>1. Left'[1] < Left[1]
  <2>1. off \in Nat /\ off' \in Nat /\ Size \in Nat /\ Size' = Size
    BY SizeIsNat DEF IInv, TypeOK, InBounds, Size
  <2>2. Left[1] = Size - off /\ Left'[1] = Size - off'
    BY <2>1 DEF Left
  <2>3. Size - off' < Size - off
    BY <2>1, Shorter
  <2>4. QED BY <2>2, <2>3
<1>2. \A j \in 1..(1 - 1) : Left'[j] = Left[j]
  OBVIOUS
<1>3. QED BY <1>1, <1>2, LessAt

(* Out of a loop.                                                          *)
LEMMA FurtherOut ==
  ASSUME IInv, UNCHANGED <<data, off>>, Depth' < Depth
  PROVE  Less(Left', Left)
<1>1. Left'[1] = Left[1] /\ Left'[2] < Left[2]
  BY DEF Left, Size
<1>2. \A j \in 1..(2 - 1) : Left'[j] = Left[j]
  BY <1>1
<1>3. QED BY <1>1, <1>2, LessAt

(* On in the set.                                                          *)
LEMMA FurtherIn ==
  ASSUME IInv, IInv', UNCHANGED <<data, off, setEnd>>,
         pc \in InSet, pc' \in InSet, body < body'
  PROVE  Less(Left', Left)
<1>1. Left'[1] = Left[1] /\ Left'[2] = Left[2]
  <2>1. Depth = 2 /\ Depth' = 2
    BY DEF Depth, InSet
  <2>2. QED BY <2>1 DEF Left, Size
<1>2. Left'[3] < Left[3]
  <2>1. body \in Nat /\ body' \in Nat /\ setEnd \in Nat /\ setEnd' = setEnd
    BY DEF IInv, TypeOK
  <2>2. Left[3] = setEnd - body /\ Left'[3] = setEnd - body'
    BY <2>1 DEF Left
  <2>3. setEnd - body' < setEnd - body
    BY <2>1, Shorter
  <2>4. QED BY <2>2, <2>3
<1>3. \A j \in 1..(3 - 1) : Left'[j] = Left[j]
  BY <1>1
<1>4. QED BY <1>2, <1>3, LessAt

(* To the next loop inward, which takes no bytes.                          *)
LEMMA StageOn ==
  ASSUME UNCHANGED <<data, off, setEnd, body>>,
         pc \in InSet, pc' \in InSet, Stage' < Stage
  PROVE  Less(Left', Left)
<1>1. Left'[1] = Left[1] /\ Left'[2] = Left[2] /\ Left'[3] = Left[3]
  <2>1. Depth = 2 /\ Depth' = 2
    BY DEF Depth, InSet
  <2>2. QED BY <2>1 DEF Left, Size
<1>2. Left'[4] < Left[4]
  BY DEF Left
<1>3. \A j \in 1..(4 - 1) : Left'[j] = Left[j]
  BY <1>1
<1>4. QED BY <1>2, <1>3, LessAt

(* The next field, which may take none either.                             *)
LEMMA FieldOn ==
  ASSUME IInv, ReadField
  PROVE  Less(Left', Left)
<1>1. /\ UNCHANGED <<data, off, setEnd, body, pc, fields>>
      /\ next' = next + 1 /\ pc = "fields"
  BY DEF ReadField, MoreFields, walk, set, template
<1>2. /\ Left'[1] = Left[1] /\ Left'[2] = Left[2] /\ Left'[3] = Left[3]
      /\ Left'[4] = Left[4]
  BY <1>1 DEF Left, Size, Depth, Stage
<1>3. Left'[5] < Left[5]
  <2>1. Len(fields) \in Nat /\ next \in Nat
    BY DEF IInv, TypeOK
  <2>2. /\ Left[5] = Len(fields) + 1 - next
        /\ Left'[5] = Len(fields) + 1 - (next + 1)
    BY <1>1 DEF Left
  <2>3. QED BY <2>1, <2>2
<1>4. \A j \in 1..(5 - 1) : Left'[j] = Left[j]
  BY <1>2
<1>5. QED BY <1>3, <1>4, LessAt

LEMMA StepGetsOn ==
  ASSUME IInv, IInv', Next
  PROVE  Less(Left', Left)
<1>1. /\ Size \in Nat /\ data \in Datagrams /\ off \in Nat /\ msgEnd \in Nat
      /\ setEnd \in Nat /\ body \in Nat /\ at \in Nat
  BY SizeIsNat DEF IInv, InBounds, TypeOK
<1>2. CASE ReadV5Header \/ ReadV5Record \/ ReadHeader
  <2>1. data' = data /\ off < off'
    BY <1>1, <1>2 DEF ReadV5Header, ReadV5Record, V5Record, ReadHeader, HeaderSize,
       IInv, InBounds
  <2>2. QED BY <2>1, FurtherOn
<1>3. CASE OpenSet
  <2>1. off + 4 <= msgEnd /\ msgEnd <= Size /\ U16(off + 2) >= 4
    BY <1>3 DEF OpenSet, SetWaits, IInv, InBounds
  <2>2. U16(off + 2) \in Nat
    <3>1. off + 2 \in Nat /\ (off + 2) + 2 <= Size
      BY <1>1, <2>1
    <3>2. QED BY <1>1, <3>1, WordRead
  <2>3. data' = data /\ off < off'
    BY <1>1, <1>3, <2>1, <2>2 DEF OpenSet, Least
  <2>4. QED BY <2>3, FurtherOn
<1>4. CASE \/ ReturnNothing \/ Refuse \/ ReturnV5 \/ ReturnSets
           \/ NoTemplateLeft \/ SpecCutShort \/ Defer \/ NoRecordLeft
           \/ FieldCutShort \/ EmptyRecord
  <2>1. /\ UNCHANGED <<data, off>>
        /\ \/ pc \in {"message", "v5", "sets"} /\ pc' \in {"done", "raised"}
           \/ pc \in InSet /\ pc' = "sets"
    BY <1>4 DEF ReturnNothing, Refuse, ReturnV5, ReturnSets, NoTemplateLeft,
       SpecCutShort, MoreSpecs, Defer, NoRecordLeft, FieldCutShort, MoreFields,
       EmptyRecord, LeaveSet, walk, InSet
  <2>2. Depth' < Depth
    BY <2>1 DEF Depth, InSet
  <2>3. QED BY <2>1, <2>2, FurtherOut
<1>5. CASE ReadTemplate \/ ReadOptionsTemplate \/ ReadOptionsTemplateV9
  <2>1. /\ UNCHANGED <<data, off, setEnd>> /\ pc \in InSet
        /\ pc' \in InSet \cup {"sets"}
    BY <1>5 DEF ReadTemplate, ReadOptionsTemplate, ReadOptionsTemplateV9, walk, InSet
  <2>2. CASE pc' = "sets"
    <3>1. Depth' < Depth
      BY <2>1, <2>2 DEF Depth, InSet
    <3>2. QED BY <2>1, <3>1, FurtherOut
  <2>3. CASE pc' \in InSet
    <3>1. body < body'
      <4>1. CASE ReadTemplate \/ ReadOptionsTemplate
        BY <1>1, <4>1 DEF ReadTemplate, ReadOptionsTemplate
      <4>2. CASE ReadOptionsTemplateV9
        <5>1. body + 6 <= setEnd /\ setEnd <= Size
          BY <4>2 DEF ReadOptionsTemplateV9, IInv, InBounds, InSet
        <5>2. U16(body + 2) \in Nat /\ U16(body + 4) \in Nat
          <6>1. /\ body + 2 \in Nat /\ (body + 2) + 2 <= Size
                /\ body + 4 \in Nat /\ (body + 4) + 2 <= Size
            BY <1>1, <5>1
          <6>2. QED BY <1>1, <6>1, WordRead
        <5>3. \/ body' = PassedOver(body + 6 + U16(body + 2) + U16(body + 4))
              \/ body' = body + 6
          BY <4>2 DEF ReadOptionsTemplateV9
        <5>4. QED BY <1>1, <5>1, <5>2, <5>3 DEF PassedOver, Least
      <4>3. QED BY <1>5, <4>1, <4>2
    <3>2. QED BY <2>1, <2>3, <3>1, FurtherIn
  <2>4. QED BY <2>1, <2>2, <2>3
<1>6. CASE ReadSpec \/ EndRecord
  <2>1. /\ UNCHANGED <<data, off, setEnd>> /\ pc \in InSet /\ pc' \in InSet
        /\ body < body'
    BY <1>1, <1>6 DEF ReadSpec, MoreSpecs, SpecEnd, EndRecord, walk, InSet
  <2>2. QED BY <2>1, FurtherIn
<1>7. CASE PutTemplate \/ OpenData \/ StartRecord
  <2>1. /\ UNCHANGED <<data, off, setEnd, body>>
        /\ \/ pc = "specs" /\ pc' \in {"options", "templates"}
           \/ pc = "data" /\ pc' = "records"
           \/ pc = "records" /\ pc' = "fields"
    BY <1>7 DEF PutTemplate, OpenData, StartRecord, walk, set
  <2>2. pc \in InSet /\ pc' \in InSet /\ Stage' < Stage
    BY <2>1 DEF Stage, InSet
  <2>3. QED BY <2>1, <2>2, StageOn
<1>8. CASE ReadField
  BY <1>8, FieldOn
<1>9. QED BY <1>2, <1>3, <1>4, <1>5, <1>6, <1>7, <1>8 DEF Next

(* For every datagram: each step of parse_message leaves less of the walk  *)
(* than there was.  Lengths and counts of zero, padding and records that   *)
(* take no bytes move it on as well, or end the loop they are in.          *)
THEOREM WalkGetsOn == Spec => EveryStepGetsOn
<1>1. IInv' => Left' \in Lefts
  <2>1. IInv' => (Left \in Lefts)'
    BY LeftIsNatural, PTL
  <2>2. QED BY <2>1 DEF Lefts
<1>2. IInv /\ IInv' /\ [Next]_vars => [Left' \in Lefts /\ Less(Left', Left)]_vars
  BY <1>1, StepGetsOn
<1>3. QED BY <1>2, AlwaysIInv, PTL DEF Spec, EveryStepGetsOn

LEMMA LeastNatural ==
  ASSUME NEW A \in SUBSET Nat, A # {}
  PROVE  \E n \in A : \A m \in A : n <= m
<1> DEFINE R == OpToRel(<, Nat)
<1>1. PICK n \in A : \A m \in A : ~ (<<m, n>> \in R)
  <2>1. IsWellFoundedOn(R, Nat)
    BY NatLessThanWellFounded, Zenon
  <2> HIDE DEF R
  <2>2. QED BY <2>1, WFMin
<1>2. ASSUME NEW m \in A PROVE n <= m
  <2>1. n \in Nat /\ m \in Nat /\ ~(m < n)
    BY <1>1 DEF OpToRel
  <2>2. QED BY <2>1
<1>3. QED BY <1>2

(* Of some measures, those whose part i is least.                          *)
LeastIn(A, i) == {x \in A : \A y \in A : x[i] <= y[i]}

LEMMA SomeAreLeast ==
  ASSUME NEW A \in SUBSET Lefts, A # {}, NEW i \in 1..5
  PROVE  /\ LeastIn(A, i) \in SUBSET Lefts /\ LeastIn(A, i) # {}
         /\ LeastIn(A, i) \subseteq A
         /\ \A x \in A, y \in LeastIn(A, i) :
              y[i] <= x[i] /\ (x[i] = y[i] => x \in LeastIn(A, i))
<1> DEFINE parts == {x[i] : x \in A}
<1>1. parts \in SUBSET Nat /\ parts # {}
  BY DEF Lefts
<1>2. PICK n \in parts : \A m \in parts : n <= m
  <2> HIDE DEF parts
  <2>1. QED BY <1>1, LeastNatural
<1>3. LeastIn(A, i) # {}
  BY <1>2 DEF LeastIn
<1>4. ASSUME NEW x \in A, NEW y \in LeastIn(A, i), x[i] = y[i]
      PROVE  x \in LeastIn(A, i)
  BY <1>4 DEF LeastIn
<1>5. QED BY <1>3, <1>4 DEF LeastIn

LEMMA LeastOfLefts ==
  ASSUME NEW A \in SUBSET Lefts, A # {}
  PROVE  \E m \in A : \A x \in A : ~Less(x, m)
<1> DEFINE A1 == LeastIn(A, 1)
           A2 == LeastIn(A1, 2)
           A3 == LeastIn(A2, 3)
           A4 == LeastIn(A3, 4)
           A5 == LeastIn(A4, 5)
<1>1. /\ A1 \in SUBSET Lefts /\ A1 # {} /\ A1 \subseteq A
      /\ \A x \in A, y \in A1 : y[1] <= x[1] /\ (x[1] = y[1] => x \in A1)
  BY SomeAreLeast
<1> HIDE DEF A1
<1>2. /\ A2 \in SUBSET Lefts /\ A2 # {} /\ A2 \subseteq A1
      /\ \A x \in A1, y \in A2 : y[2] <= x[2] /\ (x[2] = y[2] => x \in A2)
  BY <1>1, SomeAreLeast
<1> HIDE DEF A2
<1>3. /\ A3 \in SUBSET Lefts /\ A3 # {} /\ A3 \subseteq A2
      /\ \A x \in A2, y \in A3 : y[3] <= x[3] /\ (x[3] = y[3] => x \in A3)
  BY <1>2, SomeAreLeast
<1> HIDE DEF A3
<1>4. /\ A4 \in SUBSET Lefts /\ A4 # {} /\ A4 \subseteq A3
      /\ \A x \in A3, y \in A4 : y[4] <= x[4] /\ (x[4] = y[4] => x \in A4)
  BY <1>3, SomeAreLeast
<1> HIDE DEF A4
<1>5. /\ A5 \in SUBSET Lefts /\ A5 # {} /\ A5 \subseteq A4
      /\ \A x \in A4, y \in A5 : y[5] <= x[5]
  BY <1>4, SomeAreLeast
<1> HIDE DEF A5
<1>6. PICK m \in A5 : TRUE
  BY <1>5
<1>7. ASSUME NEW x \in A, Less(x, m) PROVE FALSE
  <2>1. PICK i \in 1..5 : x[i] < m[i] /\ \A j \in 1..(i - 1) : x[j] = m[j]
    BY <1>7 DEF Less
  <2>2. \A j \in 1..5 : x[j] \in Nat /\ m[j] \in Nat
    BY <1>1, <1>2, <1>3, <1>4, <1>5 DEF Lefts
  <2>3. ~(m[i] <= x[i])
    BY <2>1, <2>2
  <2>4. CASE i = 1
    BY <1>1, <1>2, <1>3, <1>4, <1>5, <2>3, <2>4
  <2>5. CASE i = 2
    <3>1. x[1] = m[1]
      BY <2>1, <2>5
    <3>2. QED BY <1>1, <1>2, <1>3, <1>4, <1>5, <2>3, <2>5, <3>1
  <2>6. CASE i = 3
    <3>1. x[1] = m[1] /\ x[2] = m[2]
      BY <2>1, <2>6
    <3>2. QED BY <1>1, <1>2, <1>3, <1>4, <1>5, <2>3, <2>6, <3>1
  <2>7. CASE i = 4
    <3>1. x[1] = m[1] /\ x[2] = m[2] /\ x[3] = m[3]
      BY <2>1, <2>7
    <3>2. QED BY <1>1, <1>2, <1>3, <1>4, <1>5, <2>3, <2>7, <3>1
  <2>8. CASE i = 5
    <3>1. x[1] = m[1] /\ x[2] = m[2] /\ x[3] = m[3] /\ x[4] = m[4]
      BY <2>1, <2>8
    <3>2. QED BY <1>1, <1>2, <1>3, <1>4, <1>5, <2>3, <2>8, <3>1
  <2>9. QED BY <2>4, <2>5, <2>6, <2>7, <2>8
<1>8. m \in A
  BY <1>1, <1>2, <1>3, <1>4, <1>5
<1>9. QED BY <1>7, <1>8

(* What EveryStepGetsOn says of a step no endless sequence of steps can    *)
(* do: a call of parse_message that takes its steps takes only so many.    *)
THEOREM NoEndlessWalk ==
  ASSUME NEW f \in [Nat -> Lefts]
  PROVE  \E n \in Nat : ~Less(f[n + 1], f[n])
<1> DEFINE A == {f[n] : n \in Nat}
<1>1. A \in SUBSET Lefts /\ f[0] \in A
  OBVIOUS
<1>2. PICK m \in A : \A x \in A : ~Less(x, m)
  <2> HIDE DEF A
  <2>1. QED BY <1>1, LeastOfLefts
<1>3. PICK n \in Nat : m = f[n]
  OBVIOUS
<1>4. n + 1 \in Nat /\ f[n + 1] \in A
  OBVIOUS
<1>5. QED BY <1>2, <1>3, <1>4

-----------------------------------------------------------------------------
(* From records to flows in time.                                          *)
USE Sizes, WrapIsFar, ClocksRun

(* Stamp b was taken d after stamp a, in which time the counter came round *)
(* once at most.                                                           *)
Ran(a, b) ==
  /\ a.at <= b.at
  /\ b.up = IF a.up + (b.at - a.at) < Wrap THEN a.up + (b.at - a.at)
            ELSE a.up + (b.at - a.at) - Wrap

Stamps == [at : Nat, up : 0 .. Wrap - 1]
Flows == [first : Stamps, last : Stamps]

(* A flow seen up to the stamp t, and no more than MaxLag before `until`.  *)
FlowSeen(f, t, until) ==
  /\ f \in Flows /\ Ran(f.first, f.last) /\ Ran(f.first, t)
  /\ Epoch <= f.first.at /\ f.last.at <= t.at
  /\ until - f.first.at <= MaxLag

(* What the exporter and the clocks are at any time.                       *)
Running ==
  /\ exporter \in [sends : Templates, skew : Skews \cup {None}]
  /\ clock \in Nat /\ Epoch <= clock /\ uptime \in 0 .. Wrap - 1
  /\ cache \in Seq(Flows)
  /\ msg = None =>
       /\ now = None /\ built = <<>>
       /\ \A i \in DOMAIN cache : FlowSeen(cache[i], Stamp, clock)

(* What the message at hand says of its flows, and when it was read.       *)
Told ==
  /\ msg.flows \in Seq(Flows) /\ msg.sent \in Stamps
  /\ \A i \in DOMAIN msg.flows : FlowSeen(msg.flows[i], msg.sent, clock)
  /\ msg.sent.at <= clock /\ Epoch <= msg.sent.at
  /\ msg.hdr = [unix_secs |-> Seen(msg.sent.at) \div Milli,
                sys_uptime |-> IF exporter.sends.uptime THEN msg.sent.up
                               ELSE None]
  /\ msg.recs = [i \in DOMAIN msg.flows |-> Record(msg.flows[i])]
  /\ now = None \/ (now \in Nat /\ msg.sent.at <= now /\ now <= clock)

(* What typed_flows makes of a record of it.                               *)
View(r) == [start |-> flow_timestamp(r, msg.hdr, now),
            duration |-> flow_duration(r)]
Views == {View(msg.recs[i]) : i \in DOMAIN msg.flows}

Viewed ==
  /\ built \in Seq(Views)
  /\ \A i \in DOMAIN built : i \in DOMAIN msg.flows /\ built[i] = View(msg.recs[i])
  /\ built # <<>> => now # None

(* The inductive invariant.                                                *)
TimeInv == Running /\ (msg # None => Told /\ Viewed)

(* Whole seconds: what a time loses is less than one.                      *)
LEMMA WholeSeconds ==
  ASSUME NEW x \in Int
  PROVE  /\ x \div Milli \in Int /\ (x \div Milli) * Milli \in Int
         /\ (x \div Milli) * Milli <= x /\ x < (x \div Milli) * Milli + Milli
<1>1. x \div Milli \in Int /\ x % Milli \in 0..(Milli - 1)
      /\ x = Milli * (x \div Milli) + (x % Milli)
  OBVIOUS
<1> DEFINE q == x \div Milli
           p == q * Milli
           r == x % Milli
<1>2. q \in Int /\ r \in 0..(Milli - 1) /\ x = Milli * q + r
  BY <1>1
<1> HIDE DEF q, r
<1>3. p \in Int /\ p = Milli * q
  BY <1>2
<1> HIDE DEF p
<1>4. p <= x /\ x < p + Milli
  BY <1>2, <1>3
<1>5. QED BY <1>1, <1>3, <1>4 DEF p, q

LEMMA SecondsMonotone ==
  ASSUME NEW x \in Int, NEW y \in Int, x <= y
  PROVE  x \div Milli <= y \div Milli
<1> DEFINE a == x \div Milli
           b == y \div Milli
<1>1. /\ a \in Int /\ b \in Int /\ a * Milli \in Int /\ b * Milli \in Int
      /\ a * Milli <= x /\ y < b * Milli + Milli
  BY WholeSeconds
<1> HIDE DEF a, b
<1>2. SUFFICES ASSUME b + 1 <= a PROVE FALSE
  BY <1>1 DEF a, b
<1>3. (b + 1) * Milli <= a * Milli
  BY <1>1, <1>2
<1>4. (b + 1) * Milli = b * Milli + Milli
  BY <1>1
<1>5. QED BY <1>1, <1>3, <1>4

LEMMA SecondsPositive ==
  ASSUME NEW x \in Int, x >= Milli
  PROVE  x \div Milli >= 1 /\ (x \div Milli) * Milli >= Milli
<1> DEFINE a == x \div Milli
<1>1. a \in Int /\ a * Milli \in Int /\ x < a * Milli + Milli
  BY WholeSeconds
<1> HIDE DEF a
<1>2. a >= 1
  <2>1. SUFFICES ASSUME a <= 0 PROVE FALSE
    BY <1>1
  <2>2. a * Milli <= 0
    BY <1>1, <2>1
  <2>3. QED BY <1>1, <2>2
<1>3. a * Milli >= Milli
  BY <1>1, <1>2
<1>4. QED BY <1>2, <1>3 DEF a

LEMMA FirstOf ==
  ASSUME NEW S \in SUBSET (1..5), S # {}
  PROVE  Min(S) \in S /\ \A y \in S : Min(S) <= y
<1>1. \E x \in S : \A y \in S : x <= y
  <2>1. CASE 1 \in S
    BY <2>1
  <2>2. CASE 1 \notin S /\ 2 \in S
    BY <2>2
  <2>3. CASE 1 \notin S /\ 2 \notin S /\ 3 \in S
    BY <2>3
  <2>4. CASE 1 \notin S /\ 2 \notin S /\ 3 \notin S /\ 4 \in S
    <3>1. \A y \in S : y = 4 \/ y = 5
      BY <2>4
    <3>2. QED BY <2>4, <3>1
  <2>5. CASE S = {5}
    BY <2>5
  <2>6. S = {5} \/ 1 \in S \/ 2 \in S \/ 3 \in S \/ 4 \in S
    <3>1. \A y \in S : y \in {1, 2, 3, 4, 5}
      OBVIOUS
    <3>2. QED BY <3>1
  <2>7. QED BY <2>1, <2>2, <2>3, <2>4, <2>5, <2>6
<1>2. QED BY <1>1 DEF Min

(* The fields of a record, each the time of its own end of the flow.       *)
LEMMA RecordTells ==
  ASSUME Running, NEW f \in Flows
  PROVE  /\ DOMAIN Record(f) = exporter.sends.fields
         /\ exporter.sends.fields \subseteq Keys
         /\ \A i \in 1..5 :
              /\ Pairs[i][1] \in exporter.sends.fields =>
                   Record(f)[Pairs[i][1]] = Sent(Pairs[i][1], f.first)
              /\ Pairs[i][2] \in exporter.sends.fields =>
                   Record(f)[Pairs[i][2]] = Sent(Pairs[i][2], f.last)
<1>1. exporter.sends.fields \subseteq Keys
  BY DEF Running
<1>2. DOMAIN Record(f) = exporter.sends.fields
  BY DEF Record
<1>3. \A i, j \in 1..5 : Pairs[i][2] # Pairs[j][1]
  BY DEF Pairs, Starts, Ends
<1>4. ASSUME NEW i \in 1..5, Pairs[i][1] \in exporter.sends.fields
      PROVE  Record(f)[Pairs[i][1]] = Sent(Pairs[i][1], f.first)
  <2> HIDE DEF Pairs
  <2>1. QED BY <1>4 DEF Record
<1>5. ASSUME NEW i \in 1..5, Pairs[i][2] \in exporter.sends.fields
      PROVE  Record(f)[Pairs[i][2]] = Sent(Pairs[i][2], f.last)
  BY <1>3, <1>5 DEF Record
<1>6. QED BY <1>1, <1>2, <1>4, <1>5

(* A flow of the message, in numbers: how long it was under way, and what  *)
(* the counter shows of it.                                                *)
LEMMA FlowInNumbers ==
  ASSUME NEW f, NEW t \in Stamps, NEW until \in Nat, FlowSeen(f, t, until),
         t.at <= until
  PROVE  /\ f \in Flows /\ f.first \in Stamps /\ f.last \in Stamps
         /\ f.first.at \in Nat /\ f.last.at \in Nat /\ t.at \in Nat
         /\ f.first.up \in 0 .. Wrap - 1 /\ f.last.up \in 0 .. Wrap - 1
         /\ t.up \in 0 .. Wrap - 1
         /\ Epoch <= f.first.at /\ f.first.at <= f.last.at /\ f.last.at <= t.at
         /\ until - f.first.at <= MaxLag
         /\ Ran(f.first, f.last) /\ Ran(f.first, t)
<1>1. f \in Flows
  BY DEF FlowSeen
<1>2. f.first \in Stamps /\ f.last \in Stamps
  BY <1>1 DEF Flows
<1>3. /\ f.first.at \in Nat /\ f.last.at \in Nat /\ t.at \in Nat
      /\ f.first.up \in 0 .. Wrap - 1 /\ f.last.up \in 0 .. Wrap - 1
      /\ t.up \in 0 .. Wrap - 1
  BY <1>2 DEF Stamps
<1>4. QED BY <1>1, <1>2, <1>3 DEF FlowSeen, Ran

(* When a flow began and ended by its exporter's clock.                    *)
Began(f) == f.first.at + exporter.skew
Ended(f) == f.last.at + exporter.skew

(* The times of a record whose exporter's clock is set, as the code reads  *)
(* them: every one sent is given, and right to the second at least.        *)
LEMMA AbsoluteTimes ==
  ASSUME Running, exporter.skew # None, NEW f \in Flows,
         Epoch <= f.first.at, f.first.at <= f.last.at, NEW i \in 1..4
  PROVE  /\ Starts[i] \in exporter.sends.fields =>
              /\ Given(Record(f), Starts[i])
              /\ InMillis(Starts[i], Record(f)[Starts[i]])
                   \in Began(f) - Milli + 1 .. Began(f)
              /\ i # 2 => Record(f)[Starts[i]] = Began(f)
              /\ i = 2 => Record(f)[Starts[i]] = Began(f) \div Milli
         /\ Ends[i] \in exporter.sends.fields =>
              /\ Given(Record(f), Ends[i])
              /\ i # 2 => Record(f)[Ends[i]] = Ended(f)
              /\ i = 2 => Record(f)[Ends[i]] = Ended(f) \div Milli
         /\ Began(f) \in Int /\ Ended(f) \in Int
         /\ Milli <= Began(f) /\ Began(f) <= Ended(f)
<1> DEFINE a == Began(f)
           b == Ended(f)
           r == Record(f)
<1>1. /\ f.first.at \in Nat /\ f.last.at \in Nat /\ exporter.skew \in Int
      /\ exporter.skew \in Skews
  BY DEF Running, Flows, Stamps
<1>2. a \in Int /\ b \in Int /\ a >= Milli /\ b >= Milli /\ a <= b
  BY <1>1 DEF Began, Ended
<1>3. /\ Pairs[i][1] = Starts[i] /\ Pairs[i][2] = Ends[i]
      /\ Starts[i] \notin {"first_switched", "last_switched"}
      /\ Ends[i] \notin {"first_switched", "last_switched"}
      /\ (Starts[i] \in InSeconds <=> i = 2) /\ (Ends[i] \in InSeconds <=> i = 2)
  BY DEF Pairs, Starts, Ends, InSeconds
<1>4. /\ DOMAIN r = exporter.sends.fields
      /\ Starts[i] \in exporter.sends.fields =>
           r[Starts[i]] = IF i = 2 THEN a \div Milli ELSE a
      /\ Ends[i] \in exporter.sends.fields =>
           r[Ends[i]] = IF i = 2 THEN b \div Milli ELSE b
  <2>1. i \in 1..5
    OBVIOUS
  <2>2. /\ DOMAIN r = exporter.sends.fields
        /\ Starts[i] \in exporter.sends.fields =>
             r[Starts[i]] = Sent(Starts[i], f.first)
        /\ Ends[i] \in exporter.sends.fields =>
             r[Ends[i]] = Sent(Ends[i], f.last)
    BY <1>3, <2>1, RecordTells
  <2>3. /\ Sent(Starts[i], f.first) = IF i = 2 THEN a \div Milli ELSE a
        /\ Sent(Ends[i], f.last) = IF i = 2 THEN b \div Milli ELSE b
    BY <1>3 DEF Sent, Seen, Began, Ended
  <2>4. QED BY <2>2, <2>3
<1>5. /\ a \div Milli \in Int /\ a \div Milli >= 1
      /\ b \div Milli \in Int /\ b \div Milli >= 1
      /\ (a \div Milli) * Milli \in a - Milli + 1 .. a
  <2>1. /\ a \div Milli \in Int /\ b \div Milli \in Int
        /\ (a \div Milli) * Milli \in Int
        /\ (a \div Milli) * Milli <= a /\ a < (a \div Milli) * Milli + Milli
    BY <1>2, WholeSeconds
  <2>2. a \div Milli >= 1 /\ b \div Milli >= 1
    BY <1>2, SecondsPositive
  <2> DEFINE p == (a \div Milli) * Milli
  <2> HIDE DEF a, b, p
  <2>3. p \in a - Milli + 1 .. a
    BY <1>2, <2>1 DEF p
  <2>4. QED BY <2>1, <2>2, <2>3 DEF p
<1>6. a \in a - Milli + 1 .. a
  <2> HIDE DEF a
  <2>1. QED BY <1>2
<1> HIDE DEF a, b, r
<1>7. ASSUME Starts[i] \in exporter.sends.fields
      PROVE  /\ Given(r, Starts[i])
             /\ InMillis(Starts[i], r[Starts[i]]) \in a - Milli + 1 .. a
  <2>1. CASE i = 2
    <3>1. r[Starts[i]] = a \div Milli
      BY <1>4, <1>7, <2>1
    <3>2. r[Starts[i]] \notin {None, 0}
      BY <1>5, <3>1
    <3>3. QED BY <1>3, <1>4, <1>5, <1>7, <2>1, <3>1, <3>2
              DEF Given, Get, InMillis
  <2>2. CASE i # 2
    <3>1. r[Starts[i]] = a
      BY <1>4, <1>7, <2>2
    <3>2. r[Starts[i]] \notin {None, 0}
      BY <1>2, <3>1
    <3>3. QED BY <1>3, <1>4, <1>6, <1>7, <2>2, <3>1, <3>2
              DEF Given, Get, InMillis
  <2>3. QED BY <2>1, <2>2
<1>8. ASSUME Ends[i] \in exporter.sends.fields
      PROVE  Given(r, Ends[i])
  <2>1. r[Ends[i]] \notin {None, 0}
    BY <1>2, <1>4, <1>5, <1>8
  <2>2. QED BY <1>4, <1>8, <2>1 DEF Given, Get
<1>9. Starts[i] \in exporter.sends.fields =>
        /\ Given(r, Starts[i])
        /\ InMillis(Starts[i], r[Starts[i]]) \in a - Milli + 1 .. a
        /\ i # 2 => r[Starts[i]] = a
        /\ i = 2 => r[Starts[i]] = a \div Milli
  BY <1>4, <1>7
<1>10. Ends[i] \in exporter.sends.fields =>
         /\ Given(r, Ends[i])
         /\ i # 2 => r[Ends[i]] = b
         /\ i = 2 => r[Ends[i]] = b \div Milli
  BY <1>4, <1>8
<1>11. QED BY <1>2, <1>9, <1>10 DEF a, b, r

(* The times of a record whose exporter's clock is not set are all zero.   *)
LEMMA UnsetTimes ==
  ASSUME Running, exporter.skew = None, NEW f \in Flows, NEW i \in 1..4
  PROVE  ~Given(Record(f), Starts[i]) /\ ~Given(Record(f), Ends[i])
<1>1. /\ Pairs[i][1] = Starts[i] /\ Pairs[i][2] = Ends[i] /\ i \in 1..5
      /\ Starts[i] \notin {"first_switched", "last_switched"}
      /\ Ends[i] \notin {"first_switched", "last_switched"}
  BY DEF Pairs, Starts, Ends
<1>2. 0 \div Milli = 0
  OBVIOUS
<1>3. \A time : Seen(time) = 0
  BY DEF Seen
<1>4. /\ Sent(Starts[i], f.first) = 0 /\ Sent(Ends[i], f.last) = 0
  BY <1>1, <1>2, <1>3 DEF Sent
<1>5. /\ DOMAIN Record(f) = exporter.sends.fields
      /\ Starts[i] \in exporter.sends.fields => Record(f)[Starts[i]] = 0
      /\ Ends[i] \in exporter.sends.fields => Record(f)[Ends[i]] = 0
  BY <1>1, <1>4, RecordTells
<1>6. QED BY <1>5 DEF Given, Get

(* What the message at hand says of one of its flows, by name.             *)
LEMMA MessageTells ==
  ASSUME Running, Told, now # None, NEW i \in DOMAIN msg.flows
  PROVE  /\ FlowSeen(msg.flows[i], msg.sent, now) /\ msg.flows[i] \in Flows
         /\ msg.recs[i] = Record(msg.flows[i])
         /\ msg.hdr.unix_secs = Seen(msg.sent.at) \div Milli
         /\ msg.hdr.sys_uptime = IF exporter.sends.uptime THEN msg.sent.up
                                 ELSE None
         /\ msg.sent \in Stamps /\ msg.sent.at <= now /\ now \in Nat
         /\ Epoch <= msg.sent.at
<1>1. /\ msg.recs[i] = Record(msg.flows[i])
      /\ msg.hdr.unix_secs = Seen(msg.sent.at) \div Milli
      /\ msg.hdr.sys_uptime = IF exporter.sends.uptime THEN msg.sent.up
                              ELSE None
  BY DEF Told
<1>2. /\ FlowSeen(msg.flows[i], msg.sent, clock)
      /\ now \in Nat /\ msg.sent.at <= now /\ now <= clock /\ clock \in Nat
      /\ msg.sent \in Stamps /\ Epoch <= msg.sent.at
  BY DEF Told, Running
<1>3. msg.flows[i] \in Flows /\ msg.flows[i].first.at \in Nat
  BY <1>2 DEF FlowSeen, Flows, Stamps
<1>4. FlowSeen(msg.flows[i], msg.sent, now)
  <2> DEFINE a == msg.flows[i].first.at
  <2>1. clock - a <= MaxLag /\ a \in Nat
    BY <1>2, <1>3 DEF FlowSeen
  <2> HIDE DEF a
  <2>2. now - a <= MaxLag
    BY <1>2, <2>1
  <2>3. QED BY <1>2, <2>2 DEF FlowSeen, a
<1>5. QED BY <1>1, <1>2, <1>3, <1>4

(* The start of a flow whose exporter sends one of the absolute times.     *)
LEMMA AbsoluteStart ==
  ASSUME Running, Told, now # None, exporter.skew # None,
         NEW i \in DOMAIN msg.flows, SendsStart
  PROVE  flow_timestamp(msg.recs[i], msg.hdr, now)
           \in Began(msg.flows[i]) - Milli + 1 .. Began(msg.flows[i])
<1> DEFINE f == msg.flows[i]
           r == Record(f)
           given == {j \in 1..4 : Given(r, Starts[j])}
<1>1. /\ f \in Flows /\ Epoch <= f.first.at /\ f.first.at <= f.last.at
      /\ msg.recs[i] = r
  <2>1. /\ FlowSeen(f, msg.sent, now) /\ msg.sent \in Stamps /\ now \in Nat
        /\ msg.sent.at <= now /\ msg.recs[i] = r
    BY MessageTells
  <2> HIDE DEF f, r
  <2>2. QED BY <2>1, FlowInNumbers
<1>2. PICK j \in 1..4 : Starts[j] \in exporter.sends.fields
  BY DEF SendsStart
<1>3. j \in given
  <2> HIDE DEF f
  <2>1. QED BY <1>1, <1>2, AbsoluteTimes
<1>4. given \in SUBSET (1..5)
  OBVIOUS
<1> DEFINE k == Min(given)
<1>5. k \in given
  <2> HIDE DEF given
  <2>1. QED BY <1>3, <1>4, FirstOf
<1>6. k \in 1..4 /\ Given(r, Starts[k])
  <2> HIDE DEF k, f
  <2>1. QED BY <1>5
<1>7. flow_timestamp(r, msg.hdr, now) = InMillis(Starts[k], r[Starts[k]])
  <2>1. given # {}
    BY <1>3
  <2>2. QED BY <2>1 DEF flow_timestamp
<1>8. Starts[k] \in exporter.sends.fields
  <2> HIDE DEF k, f
  <2>1. DOMAIN r = exporter.sends.fields
    BY <1>1, RecordTells
  <2> HIDE DEF r
  <2>2. QED BY <1>6, <2>1 DEF Given, Get
<1> HIDE DEF k, given
<1>9. InMillis(Starts[k], r[Starts[k]]) \in Began(f) - Milli + 1 .. Began(f)
  <2> HIDE DEF f
  <2>1. QED BY <1>1, <1>6, <1>8, AbsoluteTimes
<1>10. QED BY <1>1, <1>7, <1>9

(* Of a record with no absolute start nothing is taken for one.            *)
LEMMA NoneGiven ==
  ASSUME Running, NEW f \in Flows, ~SendsStart
  PROVE  {j \in 1..4 : Given(Record(f), Starts[j])} = {}
<1>1. DOMAIN Record(f) = exporter.sends.fields
  BY RecordTells
<1>2. ASSUME NEW j \in 1..4 PROVE ~Given(Record(f), Starts[j])
  <2>1. Starts[j] \notin exporter.sends.fields
    BY DEF SendsStart
  <2>2. QED BY <1>1, <2>1 DEF Given, Get
<1>3. QED BY <1>2

(* Otherwise the start is the export time less what the counter moved,     *)
(* when it did not come round and the result is within a day of now; a     *)
(* counter that came round puts the start more than a day ahead of now.    *)
LEMMA RelativeStart ==
  ASSUME Running, Told, now # None, exporter.skew # None,
         NEW i \in DOMAIN msg.flows, ~SendsStart
  PROVE  LET f == msg.flows[i]
             start == flow_timestamp(msg.recs[i], msg.hdr, now)
         IN  \/ start \in Began(f) - Milli + 1 .. Began(f)
             \/ /\ start = ((msg.sent.at + exporter.skew) \div Milli) * Milli
                /\ \/ f.first.up + (msg.sent.at - f.first.at) >= Wrap
                   \/ "first_switched" \notin exporter.sends.fields
                   \/ ~exporter.sends.uptime
                   \/ Abs(now - Began(f)) > (Day - 1) * Milli
<1> DEFINE f == msg.flows[i]
           r == Record(f)
           t == msg.sent
           s == exporter.skew
           base == msg.hdr.unix_secs * Milli
           started == Get(r, "first_switched")
           candidate == base - (msg.hdr.sys_uptime - started)
           start == flow_timestamp(r, msg.hdr, now)
<1>1. /\ f \in Flows /\ msg.recs[i] = r /\ t \in Stamps /\ t.at <= now
      /\ FlowSeen(f, t, now) /\ now \in Nat /\ Epoch <= t.at
      /\ msg.hdr.unix_secs = Seen(t.at) \div Milli
      /\ msg.hdr.sys_uptime = IF exporter.sends.uptime THEN t.up ELSE None
  BY MessageTells
<1>2. /\ f.first.at \in Nat /\ t.at \in Nat
      /\ f.first.up \in 0 .. Wrap - 1 /\ t.up \in 0 .. Wrap - 1
      /\ now - f.first.at <= MaxLag /\ Epoch <= f.first.at
      /\ Ran(f.first, t)
  <2> HIDE DEF f, t
  <2>1. QED BY <1>1, FlowInNumbers
<1>3. s \in Skews /\ s \in Int
  BY DEF Running
<1>4. base = ((t.at + s) \div Milli) * Milli
  BY <1>1 DEF Seen
<1>5. t.at + s \in Int /\ t.at + s >= Milli
  <2> HIDE DEF t, s
  <2>1. Epoch + s >= Milli
    BY <1>3
  <2>2. QED BY <1>1, <1>2, <1>3, <2>1
<1>6. base \in Int /\ base <= t.at + s /\ t.at + s < base + Milli /\ base >= Milli
  <2> HIDE DEF base, t, s
  <2>1. QED BY <1>4, <1>5, WholeSeconds, SecondsPositive
<1>7. start = IF /\ started # None /\ msg.hdr.sys_uptime # None
                 /\ base # 0 /\ NearNow(candidate, now)
              THEN candidate
              ELSE IF base # 0 THEN base ELSE now
  <2>1. {j \in 1..4 : Given(r, Starts[j])} = {}
    <3> HIDE DEF f
    <3>1. QED BY <1>1, NoneGiven
  <2> HIDE DEF f
  <2>2. QED BY <2>1 DEF flow_timestamp
<1>8. base # 0
  <2> HIDE DEF base
  <2>1. QED BY <1>6
<1>9. started # None => "first_switched" \in exporter.sends.fields
  <2>1. DOMAIN r = exporter.sends.fields
    <3> HIDE DEF f
    <3>1. QED BY <1>1, RecordTells
  <2> HIDE DEF r
  <2>2. QED BY <2>1 DEF Get
<1>10. "first_switched" \in exporter.sends.fields => started = f.first.up
  <2>1. Pairs[5][1] = "first_switched" /\ 5 \in 1..5
    BY DEF Pairs
  <2>2. /\ DOMAIN r = exporter.sends.fields
        /\ Pairs[5][1] \in exporter.sends.fields =>
             r[Pairs[5][1]] = Sent(Pairs[5][1], f.first)
    <3> HIDE DEF f
    <3>1. QED BY <1>1, <2>1, RecordTells
  <2> HIDE DEF r
  <2>3. QED BY <2>1, <2>2 DEF Get, Sent
<1> DEFINE a == f.first.at
           u == f.first.up
           d == t.at - a
<1>11. CASE /\ "first_switched" \in exporter.sends.fields
            /\ exporter.sends.uptime /\ u + d < Wrap
  <2>1. t.up = u + d
    BY <1>2, <1>11 DEF Ran
  <2>2. /\ started = u /\ msg.hdr.sys_uptime = t.up /\ started # None
        /\ msg.hdr.sys_uptime # None
    BY <1>1, <1>2, <1>10, <1>11
  <2>3. candidate = base - d
    <3>1. candidate = base - (t.up - u)
      BY <2>2
    <3> HIDE DEF candidate, base, t, f
    <3>2. QED BY <1>2, <1>6, <2>1, <3>1
  <2>4. candidate \in Began(f) - Milli + 1 .. Began(f)
    <3> HIDE DEF candidate, base, t, f, s
    <3>1. Began(f) = a + s
      BY DEF Began, s
    <3> HIDE DEF a
    <3>2. a \in Nat /\ t.at \in Nat
      BY <1>2 DEF a
    <3>3. QED BY <1>3, <1>6, <2>3, <3>1, <3>2
  <2>5. CASE NearNow(candidate, now)
    <3>1. start = candidate
      BY <1>7, <1>8, <2>2, <2>5
    <3> HIDE DEF start, candidate, f
    <3>2. start \in Began(f) - Milli + 1 .. Began(f)
      BY <2>4, <3>1
    <3>3. QED BY <1>1, <3>2 DEF start, f
  <2>6. CASE ~NearNow(candidate, now)
    <3>1. start = base
      BY <1>7, <1>8, <2>6
    <3> DEFINE c == candidate
               g == Began(f)
    <3>2. Abs(now - g) > (Day - 1) * Milli
      <4>1. g \in Int /\ c \in Int
        <5>1. g = a + s
          BY DEF Began
        <5> HIDE DEF g, c, base, t, f, s
        <5>2. c = base - (t.at - a)
          BY <2>3 DEF c
        <5>3. QED BY <1>2, <1>3, <1>6, <5>1, <5>2
      <4>2. /\ c <= g /\ g < c + Milli
        <5> HIDE DEF c, g
        <5>1. c \in g - Milli + 1 .. g
          BY <2>4 DEF c, g
        <5>2. QED BY <4>1, <5>1
      <4>3. ~(Abs(c - now) < Day * Milli)
        BY <2>6 DEF NearNow
      <4> DEFINE w == Day * Milli
      <4>4. (Day - 1) * Milli = w - Milli /\ w \in Nat
        OBVIOUS
      <4> HIDE DEF c, g, w
      <4>5. Abs(now - g) > w - Milli
        BY <1>1, <4>1, <4>2, <4>3, <4>4 DEF Abs, w
      <4>6. QED BY <4>4, <4>5 DEF g
    <3> HIDE DEF g
    <3>3. QED BY <1>1, <1>4, <3>1, <3>2 DEF g
  <2>7. QED BY <2>5, <2>6
<1>12. CASE /\ "first_switched" \in exporter.sends.fields
            /\ exporter.sends.uptime /\ u + d >= Wrap
  <2>1. t.up = u + d - Wrap
    BY <1>2, <1>12 DEF Ran
  <2>2. /\ started = u /\ msg.hdr.sys_uptime = t.up
    BY <1>1, <1>2, <1>10, <1>12
  <2>3. ~NearNow(candidate, now)
    <3> DEFINE c == candidate
               w == Day * Milli
    <3>1. c = base - (t.up - u)
      BY <2>2
    <3>2. MaxLag + (Day + 1) * Milli - s <= Wrap
      BY <1>3
    <3>3. (Day + 1) * Milli = w + Milli /\ w \in Nat
      OBVIOUS
    <3>4. a \in Nat /\ t.at \in Nat /\ u \in Nat
      BY <1>2
    <3>5. now - a <= MaxLag
      BY <1>2
    <3> HIDE DEF c, w, base, t, f, s, a, u
    <3>6. c \in Int /\ c - now > w
      BY <1>1, <1>3, <1>6, <2>1, <3>1, <3>2, <3>3, <3>4, <3>5
    <3>7. ~(Abs(c - now) < w)
      BY <1>1, <3>3, <3>6 DEF Abs
    <3>8. QED BY <3>7 DEF NearNow, c, w
  <2>4. start = base
    BY <1>7, <1>8, <2>3
  <2>5. QED BY <1>1, <1>4, <1>12, <2>4
<1>13. CASE ~("first_switched" \in exporter.sends.fields /\ exporter.sends.uptime)
  <2>1. start = base
    BY <1>1, <1>7, <1>8, <1>9, <1>13
  <2>2. QED BY <1>1, <1>4, <1>13, <2>1
<1>14. u + d < Wrap \/ u + d >= Wrap
  <2> HIDE DEF f, t
  <2>1. QED BY <1>2
<1>15. QED BY <1>11, <1>12, <1>13, <1>14

-----------------------------------------------------------------------------
(* How long a flow lasted.                                                 *)
SentPairs ==
  {p \in 1..5 : {Pairs[p][1], Pairs[p][2]} \subseteq exporter.sends.fields}

ToldPairs(r) ==
  {p \in 1..5 : /\ Given(r, Pairs[p][1]) /\ Given(r, Pairs[p][2])
                /\ InOrder(r[Pairs[p][1]], r[Pairs[p][2]])}

PairLasts(r, p) == InMillis(Pairs[p][2], r[Pairs[p][2]] - r[Pairs[p][1]])
Lasted(f) == f.last.at - f.first.at

LEMMA ToldAreSent ==
  ASSUME Running, NEW f \in Flows
  PROVE  ToldPairs(Record(f)) \subseteq SentPairs
<1>1. DOMAIN Record(f) = exporter.sends.fields
  BY RecordTells
<1>2. QED BY <1>1 DEF ToldPairs, SentPairs, Given, Get

(* An absolute pair that is sent is told, and right to the second at least. *)
LEMMA AbsolutePair ==
  ASSUME Running, exporter.skew # None, NEW f \in Flows,
         Epoch <= f.first.at, f.first.at <= f.last.at,
         NEW p \in SentPairs, p # 5
  PROVE  /\ p \in ToldPairs(Record(f))
         /\ PairLasts(Record(f), p) \in Int
         /\ PairLasts(Record(f), p) - Lasted(f) < Milli
         /\ Lasted(f) - PairLasts(Record(f), p) < Milli
         /\ p # 2 => PairLasts(Record(f), p) = Lasted(f)
<1> DEFINE r == Record(f)
           a == Began(f)
           b == Ended(f)
           x == r[Pairs[p][1]]
           y == r[Pairs[p][2]]
<1>1. /\ p \in 1..4 /\ Pairs[p][1] = Starts[p] /\ Pairs[p][2] = Ends[p]
      /\ Starts[p] \in exporter.sends.fields /\ Ends[p] \in exporter.sends.fields
      /\ (Ends[p] \in InSeconds <=> p = 2)
  BY DEF SentPairs, Pairs, Starts, Ends, InSeconds
<1>2. /\ Given(r, Pairs[p][1]) /\ Given(r, Pairs[p][2])
      /\ p # 2 => x = a /\ y = b
      /\ p = 2 => x = a \div Milli /\ y = b \div Milli
      /\ a \in Int /\ b \in Int /\ a <= b
  BY <1>1, AbsoluteTimes
<1>3. b - a = Lasted(f) /\ Lasted(f) \in Nat
  <2>1. f.first.at \in Nat /\ f.last.at \in Nat /\ exporter.skew \in Int
    BY DEF Running, Flows, Stamps
  <2>2. QED BY <2>1 DEF Began, Ended, Lasted
<1> HIDE DEF a, b, x, y
<1>4. CASE p # 2
  <2>1. InOrder(x, y)
    BY <1>2, <1>4 DEF InOrder
  <2>2. InMillis(Pairs[p][2], y - x) = Lasted(f)
    BY <1>1, <1>2, <1>3, <1>4 DEF InMillis
  <2>3. PairLasts(r, p) = Lasted(f) /\ p \in ToldPairs(r)
    BY <1>1, <1>2, <2>1, <2>2 DEF PairLasts, ToldPairs, x, y
  <2>4. QED BY <1>3, <1>4, <2>3
<1>5. CASE p = 2
  <2> DEFINE m == x * Milli
             n == y * Milli
  <2>1. /\ x \in Int /\ y \in Int /\ m \in Int /\ n \in Int
        /\ m <= a /\ a < m + Milli /\ n <= b /\ b < n + Milli
    BY <1>2, <1>5, WholeSeconds
  <2>2. x <= y
    BY <1>2, <1>5, SecondsMonotone
  <2>3. InOrder(x, y)
    BY <2>1, <2>2 DEF InOrder
  <2>4. (y - x) * Milli = n - m
    BY <2>1
  <2>5. InMillis(Pairs[p][2], y - x) = n - m
    BY <1>1, <1>5, <2>4 DEF InMillis
  <2>6. PairLasts(r, p) = n - m /\ p \in ToldPairs(r)
    BY <1>1, <1>2, <2>3, <2>5 DEF PairLasts, ToldPairs, x, y
  <2> HIDE DEF m, n
  <2>7. /\ n - m \in Int /\ (n - m) - Lasted(f) < Milli
        /\ Lasted(f) - (n - m) < Milli
    BY <1>2, <1>3, <2>1
  <2>8. QED BY <1>5, <2>6, <2>7
<1>6. QED BY <1>4, <1>5

(* The counter's pair is told unless it came round in between or stood at  *)
(* zero, and what it tells is right.                                       *)
LEMMA SwitchedPair ==
  ASSUME Running, NEW f \in Flows, Ran(f.first, f.last), Lasted(f) <= MaxLag,
         5 \in SentPairs
  PROVE  /\ 5 \in ToldPairs(Record(f)) => PairLasts(Record(f), 5) = Lasted(f)
         /\ 5 \notin ToldPairs(Record(f)) =>
              \/ f.first.up + Lasted(f) >= Wrap
              \/ 0 \in {f.first.up, f.last.up}
<1> DEFINE r == Record(f)
           u == f.first.up
           v == f.last.up
<1>1. /\ Pairs[5][1] = "first_switched" /\ Pairs[5][2] = "last_switched"
      /\ "first_switched" \in exporter.sends.fields
      /\ "last_switched" \in exporter.sends.fields
      /\ "last_switched" \notin InSeconds /\ 5 \in 1..5
  BY DEF SentPairs, Pairs, InSeconds, Starts, Ends
<1>2. DOMAIN r = exporter.sends.fields /\ r[Pairs[5][1]] = u /\ r[Pairs[5][2]] = v
  <2>1. /\ DOMAIN r = exporter.sends.fields
        /\ r[Pairs[5][1]] = Sent(Pairs[5][1], f.first)
        /\ r[Pairs[5][2]] = Sent(Pairs[5][2], f.last)
    BY <1>1, RecordTells
  <2>2. QED BY <1>1, <2>1 DEF Sent
<1>3. u \in Nat /\ v \in Nat /\ u < Wrap /\ Lasted(f) \in Nat
  BY DEF Flows, Stamps, Ran, Lasted
<1>4. v = IF u + Lasted(f) < Wrap THEN u + Lasted(f) ELSE u + Lasted(f) - Wrap
  BY DEF Ran, Lasted
<1>5. 5 \in ToldPairs(r) <=> u # 0 /\ v # 0 /\ v >= u
  <2>1. (Given(r, Pairs[5][1]) <=> u # 0) /\ (Given(r, Pairs[5][2]) <=> v # 0)
    <3> HIDE DEF r
    <3>1. QED BY <1>1, <1>2, <1>3 DEF Given, Get
  <2> HIDE DEF r
  <2>2. QED BY <1>1, <1>2, <2>1 DEF ToldPairs, InOrder
<1>6. PairLasts(r, 5) = v - u
  BY <1>1, <1>2 DEF PairLasts, InMillis
<1> HIDE DEF r, u, v
<1>7. v >= u => v - u = Lasted(f)
  BY <1>3, <1>4
<1>8. ~(v >= u) => u + Lasted(f) >= Wrap
  BY <1>3, <1>4
<1>9. QED BY <1>5, <1>6, <1>7, <1>8 DEF r, u, v

LEMMA DurationTold ==
  ASSUME Running, Told, now # None, NEW i \in DOMAIN msg.flows
  PROVE  LET f == msg.flows[i]
             duration == flow_duration(msg.recs[i])
         IN  IF duration # None
             THEN /\ Abs(duration - Lasted(f)) < Milli
                  /\ 1 \in SentPairs => \/ duration = Lasted(f)
                                        \/ exporter.skew = None
             ELSE /\ exporter.skew # None => SentPairs \subseteq {5}
                  /\ 5 \in SentPairs =>
                       \/ f.first.up + Lasted(f) >= Wrap
                       \/ 0 \in {f.first.up, f.last.up}
<1> DEFINE f == msg.flows[i]
           r == Record(f)
           told == ToldPairs(r)
           k == Min(told)
           duration == flow_duration(r)
<1>1. /\ f \in Flows /\ msg.recs[i] = r /\ Ran(f.first, f.last)
      /\ Epoch <= f.first.at /\ f.first.at <= f.last.at
      /\ Lasted(f) \in Nat /\ Lasted(f) <= MaxLag
  <2>1. /\ FlowSeen(f, msg.sent, now) /\ msg.sent \in Stamps /\ now \in Nat
        /\ msg.sent.at <= now /\ msg.recs[i] = r
    BY MessageTells
  <2> HIDE DEF f, r
  <2>2. /\ f \in Flows /\ Ran(f.first, f.last) /\ Epoch <= f.first.at
        /\ f.first.at <= f.last.at /\ f.last.at <= msg.sent.at
        /\ f.first.at \in Nat /\ f.last.at \in Nat /\ msg.sent.at \in Nat
        /\ now - f.first.at <= MaxLag
    BY <2>1, FlowInNumbers
  <2> DEFINE a == f.first.at
             b == f.last.at
  <2> HIDE DEF a, b
  <2>3. /\ a \in Nat /\ b \in Nat /\ a <= b /\ b <= now /\ now - a <= MaxLag
    BY <2>1, <2>2 DEF a, b
  <2>4. b - a \in Nat /\ b - a <= MaxLag
    BY <2>1, <2>3
  <2>5. QED BY <2>1, <2>2, <2>4 DEF Lasted, a, b
<1>2. duration = IF told = {} THEN None ELSE PairLasts(r, k)
  BY DEF flow_duration, ToldPairs, PairLasts
<1>3. told \in SUBSET (1..5) /\ told \subseteq SentPairs
  <2>1. told \in SUBSET (1..5)
    BY DEF ToldPairs
  <2> HIDE DEF f
  <2>2. QED BY <1>1, <2>1, ToldAreSent
<1> HIDE DEF f, duration
<1>4. 5 \in SentPairs =>
        /\ 5 \in told => PairLasts(r, 5) = Lasted(f)
        /\ 5 \notin told => \/ f.first.up + Lasted(f) >= Wrap
                            \/ 0 \in {f.first.up, f.last.up}
  BY <1>1, SwitchedPair
<1>5. exporter.skew # None => \A p \in SentPairs \ {5} :
        /\ p \in told /\ PairLasts(r, p) \in Int
        /\ PairLasts(r, p) - Lasted(f) < Milli
        /\ Lasted(f) - PairLasts(r, p) < Milli
        /\ p # 2 => PairLasts(r, p) = Lasted(f)
  BY <1>1, AbsolutePair
<1>6. exporter.skew = None => told \subseteq {5}
  <2>1. ASSUME exporter.skew = None, NEW p \in 1..4 PROVE p \notin told
    <3>1. Pairs[p][1] = Starts[p]
      BY DEF Pairs
    <3>2. ~Given(r, Starts[p])
      BY <1>1, <2>1, UnsetTimes
    <3>3. QED BY <3>1, <3>2 DEF ToldPairs
  <2> HIDE DEF told
  <2>2. QED BY <1>3, <2>1
<1> HIDE DEF told, r
<1>7. CASE told = {}
  <2>1. duration = None
    BY <1>2, <1>7
  <2>2. exporter.skew # None => SentPairs \subseteq {5}
    BY <1>5, <1>7
  <2>3. QED BY <1>1, <1>4, <1>7, <2>1, <2>2 DEF f, duration
<1>8. CASE told # {}
  <2>1. k \in told /\ \A p \in told : k <= p
    BY <1>3, <1>8, FirstOf
  <2>2. duration = PairLasts(r, k)
    BY <1>2, <1>8
  <2> HIDE DEF k
  <2>3. /\ duration \in Int /\ duration - Lasted(f) < Milli
        /\ Lasted(f) - duration < Milli
    <3>1. CASE k = 5
      <4>1. duration = Lasted(f)
        BY <1>3, <1>4, <2>1, <2>2, <3>1
      <4>2. QED BY <1>1, <4>1
    <3>2. CASE k # 5
      <4>1. exporter.skew # None
        BY <1>6, <2>1, <3>2
      <4>2. QED BY <1>3, <1>5, <2>1, <2>2, <3>2, <4>1
    <3>3. QED BY <3>1, <3>2
  <2>4. 1 \in SentPairs => duration = Lasted(f) \/ exporter.skew = None
    <3>1. SUFFICES ASSUME 1 \in SentPairs, exporter.skew # None
                   PROVE  duration = Lasted(f)
      OBVIOUS
    <3>2. 1 \in told /\ PairLasts(r, 1) = Lasted(f)
      BY <1>5, <3>1
    <3>3. k = 1
      BY <1>3, <2>1, <3>2
    <3>4. QED BY <2>2, <3>2, <3>3
  <2>5. Abs(duration - Lasted(f)) < Milli
    BY <1>1, <2>3 DEF Abs
  <2>6. duration # None
    BY <2>3
  <2>7. QED BY <1>1, <2>4, <2>5, <2>6 DEF f, duration
<1>9. QED BY <1>7, <1>8

-----------------------------------------------------------------------------
(* The steps.                                                              *)
LEMMA TimeInitInv == TimeInit => TimeInv
<1> SUFFICES ASSUME TimeInit PROVE TimeInv
  OBVIOUS
<1>1. uptime \in 0 .. Wrap - 1
  BY DEF TimeInit
<1>2. QED BY <1>1 DEF TimeInit, TimeInv, Running

(* One more tick of the clock and of the counter.                          *)
LEMMA RanOn ==
  ASSUME NEW a \in Stamps, NEW b \in Stamps, Ran(a, b), b.at - a.at < MaxLag
  PROVE  Ran(a, [at |-> b.at + 1, up |-> (b.up + 1) % Wrap])
<1> DEFINE x == a.at
           y == b.at
           u == a.up
           v == b.up
           w == (v + 1) % Wrap
<1>1. /\ x \in Nat /\ y \in Nat /\ x <= y /\ y - x < MaxLag
      /\ u \in Nat /\ v \in Nat /\ u < Wrap /\ v < Wrap
      /\ v = IF u + (y - x) < Wrap THEN u + (y - x) ELSE u + (y - x) - Wrap
  BY DEF Stamps, Ran
<1>2. w = IF v + 1 = Wrap THEN 0 ELSE v + 1
  BY <1>1
<1> DEFINE t == [at |-> y + 1, up |-> w]
<1>3. t.at = y + 1 /\ t.up = w
  OBVIOUS
<1> HIDE DEF x, y, u, v, w, t
<1>4. x <= y + 1
  BY <1>1
<1>5. w = IF u + ((y + 1) - x) < Wrap THEN u + ((y + 1) - x)
          ELSE u + ((y + 1) - x) - Wrap
  BY <1>1, <1>2
<1>6. Ran(a, t)
  BY <1>3, <1>4, <1>5 DEF Ran, x, u
<1>7. QED BY <1>6 DEF t, y, v, w

LEMMA SeenOn ==
  ASSUME NEW f, NEW t \in Stamps, FlowSeen(f, t, t.at), t.at - f.first.at < MaxLag
  PROVE  FlowSeen(f, [at |-> t.at + 1, up |-> (t.up + 1) % Wrap], t.at + 1)
<1> DEFINE s == [at |-> t.at + 1, up |-> (t.up + 1) % Wrap]
<1>1. /\ f \in Flows /\ f.first \in Stamps /\ f.first.at \in Nat
      /\ f.last.at \in Nat /\ t.at \in Nat
  BY DEF FlowSeen, Flows, Stamps
<1>2. Ran(f.first, s)
  BY <1>1, RanOn DEF FlowSeen
<1>3. s.at = t.at + 1
  OBVIOUS
<1> HIDE DEF s
<1>4. f.last.at <= s.at /\ (t.at + 1) - f.first.at <= MaxLag
  <2> DEFINE a == f.first.at
             b == f.last.at
             c == t.at
  <2>1. a \in Nat /\ b \in Nat /\ c \in Nat /\ b <= c /\ c - a < MaxLag
    BY <1>1 DEF FlowSeen
  <2> HIDE DEF a, b, c
  <2>2. b <= c + 1 /\ (c + 1) - a <= MaxLag
    BY <2>1
  <2>3. QED BY <1>3, <2>2 DEF a, b, c
<1>5. QED BY <1>2, <1>4 DEF FlowSeen, s

(* A flow that has just begun.                                             *)
LEMMA NewFlow ==
  ASSUME NEW t \in Stamps, Epoch <= t.at
  PROVE  FlowSeen([first |-> t, last |-> t], t, t.at)
<1>1. /\ t.at \in Nat /\ t.up \in 0 .. Wrap - 1
  BY DEF Stamps
<1> DEFINE a == t.at
           u == t.up
<1>2. Ran(t, t)
  <2>1. a <= a /\ u + (a - a) = u /\ u < Wrap
    BY <1>1
  <2>2. QED BY <2>1 DEF Ran
<1>3. a - a <= MaxLag /\ a <= a
  BY <1>1
<1>4. QED BY <1>2, <1>3 DEF FlowSeen, Flows

(* A flow of the cache seen once more.                                     *)
LEMMA SeenAgain ==
  ASSUME NEW f, NEW t \in Stamps, FlowSeen(f, t, t.at)
  PROVE  FlowSeen([f EXCEPT !.last = t], t, t.at)
<1> DEFINE g == [f EXCEPT !.last = t]
<1>1. f \in Flows /\ g \in Flows /\ g.first = f.first /\ g.last = t
  BY DEF FlowSeen, Flows
<1>2. t.at <= t.at
  BY DEF Stamps
<1> HIDE DEF g
<1>3. FlowSeen(g, t, t.at)
  BY <1>1, <1>2 DEF FlowSeen
<1>4. QED BY <1>3 DEF g

LEMMA StampIsStamp == ASSUME Running PROVE Stamp \in Stamps
BY DEF Running, Stamp, Stamps

(* What is made of a record depends on the message and the reading alone.  *)
LEMMA ViewsStand ==
  ASSUME msg' = msg, now' = now
  PROVE  (\A r : View(r)' = View(r)) /\ Views' = Views
<1>1. \A r : View(r)' = View(r)
  BY DEF View, flow_timestamp
<1>2. QED BY <1>1 DEF Views

LEMMA ViewedStands ==
  ASSUME Viewed, msg' = msg, now' = now, built' = built
  PROVE  Viewed'
<1>1. Views' = Views /\ \A r : View(r)' = View(r)
  BY ViewsStand
<1>2. QED BY <1>1 DEF Viewed

LEMMA ToldStands ==
  ASSUME Told, msg' = msg, now' = now, exporter' = exporter, clock' = clock
  PROVE  Told'
BY DEF Told, Record, Sent, Seen

LEMMA TickInv == ASSUME TimeInv, Tick PROVE TimeInv'
<1> DEFINE s == [at |-> Stamp.at + 1, up |-> (Stamp.up + 1) % Wrap]
<1>1. /\ Running /\ clock \in Nat /\ Epoch <= clock /\ uptime \in 0 .. Wrap - 1
      /\ clock' = clock + 1 /\ uptime' = (uptime + 1) % Wrap
      /\ UNCHANGED <<exporter, cache, msg, now, built>>
      /\ \A i \in DOMAIN Pending : clock - Pending[i].first.at < MaxLag
  BY DEF TimeInv, Running, Tick
<1>2. Stamp \in Stamps /\ Stamp.at = clock /\ Stamp' = s
  BY <1>1, StampIsStamp DEF Stamp
<1>3. clock' \in Nat /\ Epoch <= clock' /\ clock <= clock'
      /\ uptime' \in 0 .. Wrap - 1
  BY <1>1
<1> HIDE DEF s
<1>4. Running'
  <2>1. ASSUME msg = None, NEW i \in DOMAIN cache
        PROVE  FlowSeen(cache[i], Stamp', clock')
    <3>1. FlowSeen(cache[i], Stamp, Stamp.at)
      BY <1>2, <2>1 DEF TimeInv, Running
    <3>2. Stamp.at - cache[i].first.at < MaxLag
      BY <1>1, <1>2, <2>1 DEF Pending
    <3>3. FlowSeen(cache[i], s, Stamp.at + 1)
      BY <1>2, <3>1, <3>2, SeenOn DEF s
    <3>4. QED BY <1>1, <1>2, <3>3
  <2>2. QED BY <1>1, <1>3, <2>1 DEF Running
<1>5. ASSUME msg # None PROVE Told' /\ Viewed'
  <2>1. Told /\ Viewed
    BY <1>5 DEF TimeInv
  <2>2. ASSUME NEW i \in DOMAIN msg.flows
        PROVE  FlowSeen(msg.flows[i], msg.sent, clock')
    <3> DEFINE a == msg.flows[i].first.at
    <3>1. clock - a < MaxLag /\ FlowSeen(msg.flows[i], msg.sent, clock)
      BY <1>1, <1>5, <2>1, <2>2 DEF Pending, Told
    <3>2. a \in Nat
      BY <3>1 DEF FlowSeen, Flows, Stamps
    <3>3. clock' - a <= MaxLag
      <4> HIDE DEF a
      <4>1. QED BY <1>1, <3>1, <3>2
    <3>4. QED BY <3>1, <3>3 DEF FlowSeen
  <2>3. msg.sent.at \in Nat
    BY <2>1 DEF Told, Stamps
  <2>4. msg.sent.at <= clock' /\ (now \in Nat /\ now <= clock => now <= clock')
    <3> DEFINE c == msg.sent.at
    <3>1. c \in Nat /\ c <= clock
      BY <2>1, <2>3 DEF Told
    <3> HIDE DEF c
    <3>2. c <= clock' /\ (now \in Nat /\ now <= clock => now <= clock')
      BY <1>1, <3>1
    <3>3. QED BY <3>2 DEF c
  <2>5. Told'
    BY <1>1, <2>1, <2>2, <2>4 DEF Told, Seen, Record, Sent
  <2>6. Viewed'
    BY <1>1, <2>1, ViewedStands
  <2>7. QED BY <2>5, <2>6
<1>6. QED BY <1>1, <1>4, <1>5 DEF TimeInv

LEMMA CacheInv ==
  ASSUME TimeInv, Begin \/ Packet \/ Reboot
  PROVE  TimeInv'
<1>1. /\ Running /\ msg = None /\ now = None /\ built = <<>>
      /\ UNCHANGED <<exporter, clock, msg, now, built>>
      /\ cache \in Seq(Flows)
      /\ \A i \in DOMAIN cache : FlowSeen(cache[i], Stamp, clock)
      /\ Stamp.at = clock /\ Stamp \in Stamps
  BY StampIsStamp DEF TimeInv, Running, Begin, Packet, Reboot, Stamp
<1>2. SUFFICES /\ cache' \in Seq(Flows) /\ uptime' \in 0 .. Wrap - 1
               /\ \A i \in DOMAIN cache' : FlowSeen(cache'[i], Stamp', clock)
  BY <1>1 DEF TimeInv, Running
<1>3. CASE Begin
  <2> DEFINE f == [first |-> Stamp, last |-> Stamp]
  <2>1. FlowSeen(f, Stamp, clock) /\ f \in Flows
    <3>1. Epoch <= clock
      BY <1>1 DEF Running
    <3>2. QED BY <1>1, <3>1, NewFlow DEF Flows
  <2>2. cache' = Append(cache, f) /\ Stamp' = Stamp /\ uptime' = uptime
    BY <1>1, <1>3 DEF Begin, Stamp
  <2> HIDE DEF f
  <2>3. ASSUME NEW i \in DOMAIN cache' PROVE FlowSeen(cache'[i], Stamp, clock)
    <3>1. CASE i \in DOMAIN cache
      BY <1>1, <2>1, <2>2, <3>1
    <3>2. CASE i \notin DOMAIN cache
      <4>1. cache'[i] = f
        BY <1>1, <2>1, <2>2, <2>3, <3>2
      <4>2. QED BY <2>1, <4>1
    <3>3. QED BY <3>1, <3>2
  <2>4. cache' \in Seq(Flows)
    BY <1>1, <2>1, <2>2
  <2>5. QED BY <1>1, <2>2, <2>3, <2>4 DEF Running
<1>4. CASE Packet
  <2>1. PICK i \in DOMAIN cache :
          cache' = [cache EXCEPT ![i].last = Stamp]
    BY <1>4 DEF Packet
  <2> DEFINE g == [cache[i] EXCEPT !.last = Stamp]
  <2>2. FlowSeen(g, Stamp, clock)
    BY <1>1, SeenAgain
  <2>3. g \in Flows
    BY <2>2 DEF FlowSeen
  <2>4. cache' = [cache EXCEPT ![i] = g]
    BY <2>1
  <2> HIDE DEF g
  <2>5. cache' \in Seq(Flows) /\ DOMAIN cache' = DOMAIN cache
        /\ \A j \in DOMAIN cache : cache'[j] = IF j = i THEN g ELSE cache[j]
    BY <1>1, <2>3, <2>4
  <2>6. Stamp' = Stamp /\ uptime' = uptime
    BY <1>1, <1>4 DEF Packet, Stamp
  <2>7. QED BY <1>1, <2>2, <2>5, <2>6 DEF Running
<1>5. CASE Reboot
  BY <1>5 DEF Reboot
<1>6. QED BY <1>3, <1>4, <1>5

LEMMA ExportInv == ASSUME TimeInv, Export PROVE TimeInv'
<1>1. /\ Running /\ msg = None /\ now = None /\ built = <<>>
      /\ UNCHANGED <<exporter, clock, uptime, now, built>>
      /\ cache \in Seq(Flows) /\ cache' = <<>>
      /\ \A i \in DOMAIN cache : FlowSeen(cache[i], Stamp, clock)
      /\ Stamp.at = clock /\ Stamp.up = uptime /\ Stamp \in Stamps
      /\ Epoch <= clock /\ clock \in Nat
      /\ msg' = [hdr |-> Header, flows |-> cache, sent |-> Stamp,
                 recs |-> [i \in DOMAIN cache |-> Record(cache[i])]]
  BY StampIsStamp DEF TimeInv, Running, Export, Stamp
<1>2. /\ msg'.hdr = Header /\ msg'.flows = cache /\ msg'.sent = Stamp
      /\ msg'.recs = [i \in DOMAIN cache |-> Record(cache[i])]
  BY <1>1
<1>3. Running'
  BY <1>1 DEF Running
<1>4. Told'
  <2>1. \A f : Record(f)' = Record(f)
    BY <1>1 DEF Record, Sent, Seen
  <2>2. \A time : Seen(time)' = Seen(time)
    BY <1>1 DEF Seen
  <2>3. msg'.recs = [i \in DOMAIN msg'.flows |-> Record(msg'.flows[i])]
    BY <1>2
  <2>4. msg'.hdr = [unix_secs |-> Seen(msg'.sent.at) \div Milli,
                    sys_uptime |-> IF exporter.sends.uptime THEN msg'.sent.up
                                   ELSE None]
    BY <1>1, <1>2 DEF Header
  <2>5. clock <= clock
    BY <1>1
  <2>6. QED BY <1>1, <1>2, <2>3, <2>4, <2>5 DEF Told, Record, Sent, Seen
<1>5. Viewed'
  BY <1>1 DEF Viewed
<1>6. QED BY <1>3, <1>4, <1>5 DEF TimeInv

LEMMA ReadInv == ASSUME TimeInv, Read PROVE TimeInv'
<1>1. /\ Running /\ Told /\ Viewed /\ msg # None /\ now = None /\ now' = clock
      /\ UNCHANGED <<exporter, clock, uptime, cache, msg, built>>
      /\ clock \in Nat /\ msg.sent.at <= clock /\ clock <= clock
  BY DEF TimeInv, Running, Read, Told
<1>2. built = <<>>
  BY <1>1 DEF Viewed
<1>3. Running'
  BY <1>1 DEF Running
<1>4. Told'
  BY <1>1 DEF Told, Record, Sent, Seen
<1>5. Viewed'
  BY <1>1, <1>2 DEF Viewed
<1>6. QED BY <1>3, <1>4, <1>5 DEF TimeInv

LEMMA FromRecordInv == ASSUME TimeInv, FromRecord PROVE TimeInv'
<1> DEFINE n == Len(built) + 1
           v == View(msg.recs[n])
<1>1. /\ Running /\ Told /\ Viewed /\ msg # None /\ now # None
      /\ UNCHANGED <<exporter, clock, uptime, cache, msg, now>>
      /\ built' = Append(built, v) /\ Len(built) < Len(msg.recs)
      /\ built \in Seq(Views) /\ msg.flows \in Seq(Flows)
      /\ msg.recs = [i \in DOMAIN msg.flows |-> Record(msg.flows[i])]
  BY DEF TimeInv, Told, Viewed, FromRecord, Reading, View
<1>2. n \in DOMAIN msg.flows
  <2>1. Len(msg.recs) = Len(msg.flows)
    BY <1>1
  <2>2. Len(built) \in Nat /\ Len(msg.flows) \in Nat
        /\ DOMAIN msg.flows = 1 .. Len(msg.flows)
    BY <1>1
  <2>3. QED BY <1>1, <2>1, <2>2
<1>3. v \in Views
  BY <1>2 DEF Views
<1>4. \A r : View(r)' = View(r)
  BY <1>1, ViewsStand
<1>5. Views' = Views
  BY <1>1, ViewsStand
<1> HIDE DEF v
<1>6. built' \in Seq(Views) /\ built' # <<>>
  BY <1>1, <1>3
<1>7. ASSUME NEW i \in DOMAIN built'
      PROVE  i \in DOMAIN msg.flows /\ built'[i] = View(msg.recs[i])
  <2>1. CASE i \in DOMAIN built
    <3>1. built'[i] = built[i]
      BY <1>1, <1>3, <2>1
    <3>2. QED BY <1>1, <2>1, <3>1 DEF Viewed
  <2>2. CASE i \notin DOMAIN built
    <3>1. i = n /\ built'[n] = v
      BY <1>1, <1>3, <1>7, <2>2
    <3>2. QED BY <1>2, <3>1 DEF v
  <2>3. QED BY <2>1, <2>2
<1>8. Viewed'
  BY <1>1, <1>4, <1>5, <1>6, <1>7 DEF Viewed
<1>9. Running'
  BY <1>1 DEF Running
<1>10. Told'
  BY <1>1, ToldStands
<1>11. QED BY <1>8, <1>9, <1>10 DEF TimeInv

LEMMA TimeNextInv == TimeInv /\ [TimeNext]_timeVars => TimeInv'
<1> SUFFICES ASSUME TimeInv, [TimeNext]_timeVars PROVE TimeInv'
  OBVIOUS
<1>1. CASE UNCHANGED timeVars
  <2>1. msg # None => Told' /\ Viewed'
    BY <1>1, ToldStands, ViewedStands DEF timeVars, TimeInv
  <2>2. Running'
    BY <1>1 DEF timeVars, TimeInv, Running, Stamp
  <2>3. QED BY <1>1, <2>1, <2>2 DEF timeVars, TimeInv
<1>2. CASE TimeNext
  BY <1>2, TickInv, CacheInv, ExportInv, ReadInv, FromRecordInv DEF TimeNext
<1>3. QED BY <1>1, <1>2

LEMMA TimeInvAlways == TimeSpec => []TimeInv
BY TimeInitInv, TimeNextInv, PTL DEF TimeSpec

-----------------------------------------------------------------------------
LEMMA WhatIsDated ==
  ASSUME TimeInv, NEW i \in Dated
  PROVE  /\ Running /\ Told /\ now # None /\ i \in DOMAIN msg.flows
         /\ built[i].start = flow_timestamp(msg.recs[i], msg.hdr, now)
         /\ built[i].duration = flow_duration(msg.recs[i])
<1>1. i \in DOMAIN built /\ i \in DOMAIN msg.flows /\ built # <<>>
  BY DEF Dated
<1>2. msg # None
  BY <1>1 DEF TimeInv, Running
<1>3. Running /\ Told /\ now # None /\ built[i] = View(msg.recs[i])
  BY <1>1, <1>2 DEF TimeInv, Viewed
<1>4. QED BY <1>1, <1>3 DEF View

(* A flow is dated when it began, or else, and only for the reasons named, *)
(* when its message was sent, wherever the exporter's counter stood and    *)
(* however the clocks differ.                                              *)
THEOREM StartsAreTrue == TimeSpec => []StartIsTrue
<1>1. TimeInv => StartIsTrue
  <2> SUFFICES ASSUME TimeInv, exporter.skew # None, NEW i \in Dated
               PROVE  \/ StartsRight(i)
                      \/ /\ ~SendsStart
                         /\ built[i].start
                              = ((msg.sent.at + exporter.skew) \div Milli) * Milli
                         /\ \/ Wrapped(i)
                            \/ "first_switched" \notin exporter.sends.fields
                            \/ ~exporter.sends.uptime
                            \/ Abs(now - Began(msg.flows[i])) > (Day - 1) * Milli
    BY DEF StartIsTrue, Began
  <2>1. /\ Running /\ Told /\ now # None /\ i \in DOMAIN msg.flows
        /\ built[i].start = flow_timestamp(msg.recs[i], msg.hdr, now)
    BY WhatIsDated
  <2>2. StartsRight(i) <=>
          built[i].start \in Began(msg.flows[i]) - Milli + 1 .. Began(msg.flows[i])
    BY DEF StartsRight, Began
  <2>3. CASE SendsStart
    BY <2>1, <2>2, <2>3, AbsoluteStart
  <2>4. CASE ~SendsStart
    BY <2>1, <2>2, <2>4, RelativeStart DEF Wrapped
  <2>5. QED BY <2>3, <2>4
<1>2. QED BY <1>1, TimeInvAlways, PTL

(* Without a clock to go by a flow is dated when it was read, which is not *)
(* before it began.                                                        *)
THEOREM UnsetClockNeverDates == TimeSpec => []UnsetClockIsNoTime
<1>1. TimeInv => UnsetClockIsNoTime
  <2> SUFFICES ASSUME TimeInv, exporter.skew = None, NEW i \in Dated
               PROVE  built[i].start \in msg.flows[i].first.at .. clock
    BY DEF UnsetClockIsNoTime
  <2> DEFINE f == msg.flows[i]
             r == Record(f)
  <2>1. /\ Running /\ Told /\ now # None /\ i \in DOMAIN msg.flows
        /\ built[i].start = flow_timestamp(msg.recs[i], msg.hdr, now)
    BY WhatIsDated
  <2>2. /\ FlowSeen(f, msg.sent, now) /\ f \in Flows /\ msg.recs[i] = r
        /\ msg.hdr.unix_secs = Seen(msg.sent.at) \div Milli
        /\ msg.sent \in Stamps /\ msg.sent.at <= now /\ now \in Nat
    BY <2>1, MessageTells
  <2>3. msg.hdr.unix_secs * Milli = 0
    <3>1. 0 \div Milli = 0
      OBVIOUS
    <3>2. QED BY <2>2, <3>1 DEF Seen
  <2>4. {j \in 1..4 : Given(r, Starts[j])} = {}
    <3> HIDE DEF f
    <3>1. QED BY <2>1, <2>2, UnsetTimes
  <2>5. flow_timestamp(r, msg.hdr, now) = now
    <3> HIDE DEF r
    <3>1. QED BY <2>3, <2>4 DEF flow_timestamp
  <2>6. /\ f.first.at \in Nat /\ f.first.at <= f.last.at
        /\ f.last.at <= msg.sent.at /\ f.last.at \in Nat
        /\ msg.sent.at \in Nat
    <3> HIDE DEF f
    <3>1. QED BY <2>2, FlowInNumbers
  <2>7. now <= clock /\ clock \in Nat
    BY <2>1 DEF Told, Running
  <2> DEFINE a == f.first.at
             b == f.last.at
             c == msg.sent.at
  <2> HIDE DEF a, b, c
  <2>8. now \in a .. clock
    <3>1. a \in Nat /\ b \in Nat /\ c \in Nat /\ a <= b /\ b <= c /\ c <= now
      BY <2>2, <2>6 DEF a, b, c
    <3>2. QED BY <2>2, <2>7, <3>1
  <2>9. QED BY <2>1, <2>2, <2>5, <2>8 DEF a
<1>2. QED BY <1>1, TimeInvAlways, PTL

(* A duration is the time from a flow's first packet to its last, and is   *)
(* withheld only for the reasons named.                                    *)
THEOREM DurationsAreTrue == TimeSpec => []DurationIsTrue
<1>1. TimeInv => DurationIsTrue
  <2>1. ASSUME TimeInv, NEW i \in Dated
        PROVE  LET flow == msg.flows[i]
                   true == flow.last.at - flow.first.at
               IN  IF built[i].duration # None
                   THEN /\ Abs(built[i].duration - true) < Milli
                        /\ 1 \in SentPairs => \/ built[i].duration = true
                                              \/ exporter.skew = None
                   ELSE /\ exporter.skew # None => SentPairs \subseteq {5}
                        /\ 5 \in SentPairs =>
                             \/ flow.first.up + true >= Wrap
                             \/ 0 \in {flow.first.up, flow.last.up}
    BY <2>1, WhatIsDated, DurationTold DEF Lasted
  <2>2. QED BY <2>1 DEF DurationIsTrue, SentPairs
<1>2. QED BY <1>1, TimeInvAlways, PTL

(* Flows that say the same of themselves are dated the same.               *)
THEOREM ReadOnce == TimeSpec => []OneReading
<1>1. TimeInv => OneReading
  BY WhatIsDated DEF OneReading
<1>2. QED BY <1>1, TimeInvAlways, PTL
=============================================================================
