----------------------------- MODULE ParseSets ------------------------------
(***************************************************************************)
(* parse_message: the walk over the bytes of one datagram, of any version, *)
(* to the templates, records and counts it holds.                          *)
(*                                                                         *)
(* A datagram is its bytes; every number below is read out of them where   *)
(* the code reads it, so the walk can be led anywhere an exporter's        *)
(* lengths and counts can lead it.  A value stays the bytes it is decoded  *)
(* from: all that is asked of decode_value is whether it means "not filled *)
(* in".  One exporter and domain, a template store with room to spare      *)
(* (TemplateStore has the ceiling), and the header's other fields, which   *)
(* decide nothing here, are left out.                                      *)
(***************************************************************************)
EXTENDS Integers, Sequences

CONSTANTS Datagrams,  \* [bytes, known: the store beforehand, holds: below]
          Ie          \* element number -> [name, kind]

Byte == 0..255
Word == {n \in Nat : n < 65536}
Variable == 65535     \* the length of a field that carries its own

(* A field specification as read_template_fields returns it.               *)
Name == {Ie[e].name : e \in DOMAIN Ie}
          \cup ({"ie"} \X Word) \cup ({"e"} \X Nat \X {n \in Nat : n < 32768})
Kind == {"ipv4", "ipv6", "uint", "mac", "auto"}
Field == [name : Name, kind : Kind, len : Word]
Template == [fields : Seq(Field), options : BOOLEAN]

ASSUME DatagramsAssumption ==
  /\ \A d \in Datagrams : /\ d.bytes \in Seq(Byte)
                          /\ \A t \in DOMAIN d.known : d.known[t] \in Template
  /\ \A e \in DOMAIN Ie : Ie[e].kind \in Kind

VARIABLES data,    \* the datagram; data.holds is what its sender put in it
          pc,      \* where the walk is
          off,     \* the set, or v5 record, to look at next
          msgEnd,  \* where the message ends
          setEnd,  \* where the set in hand ends
          body,    \* what has been read of it
          tmpl,    \* the template in hand: [id, count, options]
          fields,  \* its fields, or the fields records are cut up by
          at,      \* inside a record: what has been read of it
          rec,     \* inside a record: name -> value
          next,    \* inside a record: the field to read
          store,   \* template id -> Template
          found,   \* what is returned and counted
          read     \* history: the bytes last read, from .from up to .to

walk == <<off, msgEnd>>
set == <<setEnd, body>>
template == <<tmpl, fields>>
record == <<at, rec, next>>
vars == <<data, pc, walk, set, template, record, store, found, read>>

-----------------------------------------------------------------------------
Size == Len(data.bytes)
U8(o) == data.bytes[o + 1]
U16(o) == U8(o) * 256 + U8(o + 1)
U32(o) == U16(o) * 65536 + U16(o + 2)

Least(a, b) == IF a <= b THEN a ELSE b
Raw(from, to) == SubSeq(data.bytes, from + 1, Least(to, Size))

Version == U16(0)
Ipfix == Version = 10

HeaderSize(v) == CASE v = 5 -> 24 [] v = 9 -> 20 [] v = 10 -> 16 [] OTHER -> 2
V5Record == 48

Reads(from, to) == read' = [from |-> from, to |-> to]

Init == /\ data \in Datagrams
        /\ pc = "message"
        /\ off = 0 /\ msgEnd = 0 /\ setEnd = 0 /\ body = 0
        /\ tmpl = [id |-> 0, count |-> 0, options |-> FALSE] /\ fields = <<>>
        /\ at = 0 /\ rec = <<>> /\ next = 1
        /\ store = data.known
        /\ found = [flows |-> <<>>, options |-> <<>>, new |-> 0,
                    deferred |-> 0, truncated |-> FALSE]
        /\ read = [from |-> 0, to |-> 0]

(* No header: neither a version nor the rest of it.                        *)
Short == ~(Size >= 2 /\ Size >= HeaderSize(Version))

ReturnNothing ==
  /\ pc = "message" /\ Short
  /\ pc' = "done"
  /\ UNCHANGED <<data, walk, set, template, record, store, found, read>>

(* ValueError: a version this package does not decode.                     *)
Refuse ==
  /\ pc = "message" /\ ~Short /\ Version \notin {5, 9, 10}
  /\ pc' = "raised"
  /\ UNCHANGED <<data, walk, set, template, record, store, found, read>>

-----------------------------------------------------------------------------
(* parse_v5: a header that may state a sampling rate, then records of one  *)
(* size.                                                                   *)
SamplingWord == U16(22)

ReadV5Header ==
  /\ pc = "message" /\ ~Short /\ Version = 5
  /\ pc' = "v5" /\ off' = 24
  /\ Reads(0, 24)
  /\ tmpl' = [tmpl EXCEPT !.count = U16(2)]
  /\ found' = [found EXCEPT !.options =
       IF SamplingWord \div 16384 # 0 /\ SamplingWord % 16384 > 1
       THEN <<[interval |-> SamplingWord % 16384]>> ELSE <<>>]
  /\ UNCHANGED <<data, msgEnd, set, fields, record, store>>

V5RecordWaits == Len(found.flows) < tmpl.count /\ off + V5Record <= Size

ReadV5Record ==
  /\ pc = "v5" /\ V5RecordWaits
  /\ found' = [found EXCEPT !.flows = Append(@, Raw(off, off + V5Record))]
  /\ off' = off + V5Record
  /\ Reads(off, off + V5Record)
  /\ UNCHANGED <<data, pc, msgEnd, set, template, record, store>>

ReturnV5 ==
  /\ pc = "v5" /\ ~V5RecordWaits
  /\ pc' = "done"
  /\ found' = [found EXCEPT !.truncated = Len(found.flows) < tmpl.count]
  /\ UNCHANGED <<data, walk, set, template, record, store, read>>

-----------------------------------------------------------------------------
(* parse_v9_or_ipfix: the header, and where the message ends.              *)
MessageEnd == IF Ipfix /\ U16(2) # 0 THEN Least(U16(2), Size) ELSE Size

ReadHeader ==
  /\ pc = "message" /\ ~Short /\ Version \in {9, 10}
  /\ pc' = "sets"
  /\ off' = HeaderSize(Version) /\ msgEnd' = MessageEnd
  /\ Reads(0, HeaderSize(Version))
  /\ found' = [found EXCEPT !.truncated = Ipfix /\ U16(2) > Size]
  /\ UNCHANGED <<data, set, template, record, store>>

(* Mutant: the length a set gives for itself is believed.                  *)
SetWaitsOfAnyLength == off + 4 <= msgEnd
SetWaits == off + 4 <= msgEnd /\ U16(off + 2) >= 4

ReturnSets ==
  /\ pc = "sets" /\ ~SetWaits
  /\ pc' = "done"
  /\ UNCHANGED <<data, walk, set, template, record, store, found, read>>

TemplateSet == IF Ipfix THEN 2 ELSE 0
OptionsSet == IF Ipfix THEN 3 ELSE 1

(* Whatever becomes of the body, the walk goes on behind the set.          *)
OpenSet ==
  /\ pc = "sets" /\ SetWaits
  /\ LET id == U16(off)
         end == off + U16(off + 2)
     IN  /\ pc' = CASE id = TemplateSet -> "templates"
                   [] id = OptionsSet -> "options"
                   [] id >= 256 -> "data"
                   [] OTHER -> "sets"
         /\ tmpl' = [tmpl EXCEPT !.id = id]
         /\ setEnd' = Least(end, msgEnd) /\ body' = off + 4 /\ off' = setEnd'
         /\ found' = [found EXCEPT !.truncated = @ \/ end > msgEnd]
  /\ Reads(off, off + 4)
  /\ UNCHANGED <<data, msgEnd, fields, record, store>>

LeaveSet ==
  /\ pc' = "sets"
  /\ UNCHANGED <<data, walk, set, template, record, store, found, read>>

-----------------------------------------------------------------------------
(* A template, its id and the number of its fields.  One without fields    *)
(* (how IPFIX withdraws a template) is passed over.                        *)
ReadTemplate ==
  /\ pc = "templates" /\ body + 4 <= setEnd
  /\ tmpl' = [id |-> U16(body), count |-> U16(body + 2), options |-> FALSE]
  /\ pc' = IF U16(body + 2) = 0 THEN "templates" ELSE "specs"
  /\ fields' = <<>>
  /\ body' = body + 4
  /\ Reads(body, body + 4)
  /\ UNCHANGED <<data, walk, setEnd, record, store, found>>

(* The IPFIX options template counts its fields; one without ends the set. *)
ReadOptionsTemplate ==
  /\ pc = "options" /\ Ipfix /\ body + 6 <= setEnd
  /\ tmpl' = [id |-> U16(body), count |-> U16(body + 2), options |-> TRUE]
  /\ pc' = IF U16(body + 2) = 0 THEN "sets" ELSE "specs"
  /\ fields' = <<>>
  /\ body' = body + 6
  /\ Reads(body, body + 6)
  /\ UNCHANGED <<data, walk, setEnd, record, store, found>>

(* Mutant of PassedOver: a template passed over is looked at again.        *)
PassedOverInPlace(behind) == body
PassedOver(behind) == Least(behind, setEnd)

(* The v9 one gives the lengths of its two halves in bytes.  Both hold     *)
(* whole specifications and fit the set, or the template is passed over,   *)
(* so reading the halves one after the other is reading a quarter of that  *)
(* many specifications.                                                    *)
ReadOptionsTemplateV9 ==
  /\ pc = "options" /\ ~Ipfix /\ body + 6 <= setEnd
  /\ LET scopeLen == U16(body + 2)
         optLen == U16(body + 4)
         behind == body + 6 + scopeLen + optLen
         malformed == \/ scopeLen % 4 # 0 \/ optLen % 4 # 0
                      \/ behind > setEnd
     IN  /\ tmpl' = [id |-> U16(body), count |-> (scopeLen + optLen) \div 4,
                     options |-> TRUE]
         /\ pc' = CASE malformed -> "options"
                   [] scopeLen + optLen = 0 -> "sets"
                   [] OTHER -> "specs"
         /\ body' = IF malformed THEN PassedOver(behind) ELSE body + 6
  /\ fields' = <<>>
  /\ Reads(body, body + 6)
  /\ UNCHANGED <<data, walk, setEnd, record, store, found>>

NoTemplateLeft ==
  /\ \/ pc = "templates" /\ body + 4 > setEnd
     \/ pc = "options" /\ body + 6 > setEnd
  /\ LeaveSet

(* read_template_fields, one specification at a time.                      *)
HasEnterprise == Ipfix /\ U16(body) >= 32768
SpecEnd == body + (IF HasEnterprise THEN 8 ELSE 4)

Standard(e, len) ==
  IF e \in DOMAIN Ie THEN [name |-> Ie[e].name, kind |-> Ie[e].kind, len |-> len]
  ELSE [name |-> <<"ie", e>>, kind |-> "auto", len |-> len]

Specified ==
  IF HasEnterprise
  THEN [name |-> <<"e", U32(body + 4), U16(body) - 32768>>, kind |-> "auto",
        len |-> U16(body + 2)]
  ELSE Standard(U16(body), U16(body + 2))

MoreSpecs == pc = "specs" /\ Len(fields) < tmpl.count

ReadSpec ==
  /\ MoreSpecs /\ body + 4 <= setEnd /\ SpecEnd <= setEnd
  /\ fields' = Append(fields, Specified)
  /\ body' = SpecEnd
  /\ Reads(body, SpecEnd)
  /\ UNCHANGED <<data, pc, walk, setEnd, tmpl, record, store, found>>

(* A template the set ends inside is not stored, and nothing behind it in  *)
(* the set is read.                                                        *)
SpecCutShort ==
  /\ MoreSpecs
  /\ \/ body + 4 > setEnd /\ UNCHANGED read
     \/ body + 4 <= setEnd /\ SpecEnd > setEnd /\ Reads(body, body + 4)
  /\ pc' = "sets"
  /\ UNCHANGED <<data, walk, set, template, record, store, found>>

PutTemplate ==
  /\ pc = "specs" /\ Len(fields) = tmpl.count
  /\ LET entry == [fields |-> fields, options |-> tmpl.options]
         learned == \/ tmpl.id \notin DOMAIN store
                    \/ tmpl.id \in DOMAIN store /\ store[tmpl.id] # entry
     IN  /\ store' = [t \in DOMAIN store \cup {tmpl.id} |->
                       IF t = tmpl.id THEN entry ELSE store[t]]
         /\ found' = [found EXCEPT !.new = IF learned THEN @ + 1 ELSE @]
  /\ pc' = IF tmpl.options THEN "options" ELSE "templates"
  /\ UNCHANGED <<data, walk, set, template, record, read>>

-----------------------------------------------------------------------------
(* A data set is cut up by the template held under its id.                 *)
Defer ==
  /\ pc = "data" /\ tmpl.id \notin DOMAIN store
  /\ pc' = "sets"
  /\ found' = [found EXCEPT !.deferred = @ + 1]
  /\ UNCHANGED <<data, walk, set, template, record, store, read>>

OpenData ==
  /\ pc = "data" /\ tmpl.id \in DOMAIN store
  /\ pc' = "records"
  /\ fields' = store[tmpl.id].fields
  /\ tmpl' = [tmpl EXCEPT !.options = store[tmpl.id].options]
  /\ UNCHANGED <<data, walk, set, record, store, found, read>>

(* Mutant: a field of variable length is taken at its declared length.     *)
MinLengthAsDeclared(fs) ==
  LET total[i \in 0..Len(fs)] == IF i = 0 THEN 0 ELSE total[i - 1] + fs[i].len
  IN  IF total[Len(fs)] = 0 THEN 1 ELSE total[Len(fs)]

(* record_min_length: a field of variable length is at least its prefix.   *)
MinLength(fs) ==
  LET total[i \in 0..Len(fs)] ==
        IF i = 0 THEN 0
        ELSE total[i - 1] + (IF fs[i].len = Variable THEN 1 ELSE fs[i].len)
  IN  IF total[Len(fs)] = 0 THEN 1 ELSE total[Len(fs)]

RecordWaits == setEnd - body >= MinLength(fields)

StartRecord ==
  /\ pc = "records" /\ RecordWaits
  /\ pc' = "fields"
  /\ at' = body /\ rec' = <<>> /\ next' = 1
  /\ UNCHANGED <<data, walk, set, template, store, found, read>>

NoRecordLeft == pc = "records" /\ ~RecordWaits /\ LeaveSet

(* parse_data_record, one field at a time.  A field of variable length has *)
(* one byte of length before it, or 255 and two.                           *)
OwnLength == Ipfix /\ fields[next].len = Variable
PrefixFits == OwnLength => at < setEnd /\ (U8(at) = 255 => at + 3 <= setEnd)
ValueStart == IF ~OwnLength THEN at ELSE IF U8(at) = 255 THEN at + 3 ELSE at + 1
ValueLength == IF ~OwnLength THEN fields[next].len
               ELSE IF U8(at) = 255 THEN U16(at + 1) ELSE U8(at)
ValueEnd == ValueStart + ValueLength
(* Mutant: the value is taken for as long as it says it is.                *)
ValueFitsAlways == PrefixFits
ValueFits == PrefixFits /\ ValueEnd <= setEnd

(* What decode_value makes of the bytes is in UNSPECIFIED: a zero, the     *)
(* zero address of either family, or nothing at all.  Up to eight bytes    *)
(* are a number where their kind does not say otherwise.                   *)
Unfilled(kind, raw) ==
  /\ \A i \in 1..Len(raw) : raw[i] = 0
  /\ \/ raw = <<>>
     \/ kind = "uint"
     \/ kind = "ipv6" /\ Len(raw) = 16
     \/ kind # "mac" /\ Len(raw) <= 8

(* A repeated name: a value not filled in displaces nothing.  Where no     *)
(* name repeats there is nothing to displace, so the code's test whether   *)
(* any does changes nothing.                                               *)
Keep(name, kind, raw) ==
  IF name \in DOMAIN rec /\ Unfilled(kind, raw) THEN rec
  ELSE [n \in DOMAIN rec \cup {name} |-> IF n = name THEN raw ELSE rec[n]]

MoreFields == pc = "fields" /\ next <= Len(fields)

ReadField ==
  /\ MoreFields /\ ValueFits
  /\ rec' = Keep(fields[next].name, fields[next].kind, Raw(ValueStart, ValueEnd))
  /\ at' = ValueEnd /\ next' = next + 1
  /\ Reads(at, ValueEnd)
  /\ UNCHANGED <<data, pc, walk, set, template, store, found>>

(* The set ends inside the record: it is dropped, and the set with it.     *)
FieldCutShort ==
  /\ MoreFields /\ ~ValueFits
  /\ pc' = "sets"
  /\ \/ PrefixFits /\ Reads(at, ValueStart)
     \/ ~PrefixFits /\ at < setEnd /\ Reads(at, at + 1)
     \/ ~PrefixFits /\ at >= setEnd /\ UNCHANGED read
  /\ UNCHANGED <<data, walk, set, template, record, store, found>>

(* A record that took no bytes would be found again for ever.              *)
EmptyRecord == pc = "fields" /\ next > Len(fields) /\ at <= body /\ LeaveSet

EndRecord ==
  /\ pc = "fields" /\ next > Len(fields) /\ at > body
  /\ pc' = "records" /\ body' = at
  /\ found' = IF tmpl.options THEN [found EXCEPT !.options = Append(@, rec)]
              ELSE [found EXCEPT !.flows = Append(@, rec)]
  /\ UNCHANGED <<data, walk, setEnd, template, record, store, read>>

Next ==
  \/ ReturnNothing \/ Refuse
  \/ ReadV5Header \/ ReadV5Record \/ ReturnV5
  \/ ReadHeader \/ OpenSet \/ ReturnSets
  \/ ReadTemplate \/ ReadOptionsTemplate \/ ReadOptionsTemplateV9
  \/ NoTemplateLeft \/ ReadSpec \/ SpecCutShort \/ PutTemplate
  \/ Defer \/ OpenData \/ StartRecord \/ NoRecordLeft
  \/ ReadField \/ FieldCutShort \/ EmptyRecord \/ EndRecord

(* The call runs until it returns.                                         *)
Spec == Init /\ [][Next]_vars /\ WF_vars(Next)

-----------------------------------------------------------------------------
InSet == {"templates", "options", "specs", "data", "records", "fields"}

(* The state keeps its shape.                                              *)
TypeOK ==
  /\ pc \in {"message", "v5", "sets", "done", "raised"} \cup InSet
  /\ off \in Nat /\ msgEnd \in Nat /\ setEnd \in Nat /\ body \in Nat
  /\ at \in Nat /\ next \in Nat \ {0}
  /\ tmpl \in [id : Nat, count : Nat, options : BOOLEAN]
  /\ fields \in Seq(Field)
  /\ \A t \in DOMAIN store : store[t] \in Template
  /\ read \in [from : Nat, to : Nat]

(* Nothing outside the datagram is read, and inside a set nothing of the   *)
(* next one: an exporter's lengths never take the walk past either end.    *)
ReadsInside ==
  /\ read.from <= read.to /\ read.to <= Size
  /\ pc \in InSet => read.to <= setEnd

(* No byte is read twice, so none is given to two templates or records.    *)
EachByteOnce == [][read' # read => read'.from >= read.to]_vars

(* What is found is what the sender put there and arrived whole: every     *)
(* template and record, nothing made of padding or of the start of one,    *)
(* and the sets deferred and the message cut short counted.                *)
FindsWhatIsThere ==
  /\ pc = "done" => /\ store = data.holds.store
                    /\ found = data.holds.found
  /\ pc \in {"done", "raised"} => (pc = "raised") = data.holds.raises

(* What is left of the walk, the outermost first: bytes behind the set in  *)
(* hand, loops to leave, bytes of the set, steps to the next loop inward,  *)
(* fields of the record.                                                   *)
Depth == CASE pc \in InSet -> 2
           [] pc \in {"message", "v5", "sets"} -> 1
           [] OTHER -> 0
Stage == CASE pc = "data" -> 3
           [] pc = "records" -> 2
           [] pc \in {"specs", "fields"} -> 1
           [] OTHER -> 0
Left == <<Size - off, Depth, IF pc \in InSet THEN setEnd - body ELSE 0, Stage,
          IF pc = "fields" THEN Len(fields) + 1 - next ELSE 0>>

(* Of two of these, the one with less left where they first differ.        *)
Lefts == [1..5 -> Nat]
Less(a, b) == \E i \in 1..5 : a[i] < b[i] /\ \A j \in 1..(i - 1) : a[j] = b[j]

(* Every loop gets on: each step leaves less to do than there was, in a    *)
(* measure that cannot fall for ever, whatever lengths and counts of zero, *)
(* and templates without bytes, the datagram brings.                       *)
EveryStepGetsOn == [][Left' \in Lefts /\ Less(Left', Left)]_vars

(* Every datagram is done with.                                            *)
Terminates == <>(pc \in {"done", "raised"})
=============================================================================
