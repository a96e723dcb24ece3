---------------------------- MODULE MCParseSets -----------------------------
(* The datagrams ParseSets walks: messages put together from sets an       *)
(* exporter can send, cut short anywhere and claiming any length, each     *)
(* with what it holds said from how it was put together, never by reading  *)
(* it back.                                                                *)
EXTENDS ParseSets, SequencesExt

CONSTANT Cuts   \* how many bytes may be missing from the end

MCIe == 1 :> [name |-> <<"octets">>, kind |-> "uint"]
        @@ 8 :> [name |-> <<"src_addr">>, kind |-> "ipv4"]
        @@ 27 :> [name |-> <<"src_addr">>, kind |-> "ipv6"]
        @@ 56 :> [name |-> <<"src_mac">>, kind |-> "mac"]

W(n) == <<n \div 256, n % 256>>
Zeros(n) == [i \in 1..n |-> 0]

(* Field specifications: one of a known element, one of a vendor's.        *)
F(e, len) == [bytes |-> W(e) \o W(len), name |-> MCIe[e].name,
              kind |-> MCIe[e].kind, len |-> len]
Unknown(e, len) == [bytes |-> W(e) \o W(len), name |-> <<"ie", e>>,
                    kind |-> "auto", len |-> len]
Vendor(ent, e, len) ==
  [bytes |-> W(32768 + e) \o W(len) \o W(0) \o W(ent),
   name |-> <<"e", ent, e>>, kind |-> "auto", len |-> len]

Bytes(items) == FlattenSeq([i \in DOMAIN items |-> items[i].bytes])
Layout(specs) == [i \in DOMAIN specs |-> [name |-> specs[i].name,
                                          kind |-> specs[i].kind,
                                          len |-> specs[i].len]]

(* What a set is made of: bytes, and what they mean where they arrive.     *)
Nothing == [is |-> "nothing"]
Ends == [is |-> "end"]
Declares(id, specs, options) ==
  [is |-> "template", id |-> id,
   entry |-> [fields |-> Layout(specs), options |-> options]]

T(id, specs) == [bytes |-> W(id) \o W(Len(specs)) \o Bytes(specs),
                 means |-> Declares(id, specs, FALSE)]
Withdrawn(id) == [bytes |-> W(id) \o W(0), means |-> Nothing]
Overclaimed(id, specs) == [bytes |-> W(id) \o W(Len(specs) + 1) \o Bytes(specs),
                           means |-> Ends]
O10(id, specs) == [bytes |-> W(id) \o W(Len(specs)) \o W(1) \o Bytes(specs),
                   means |-> Declares(id, specs, TRUE)]
O9(id, scope, opts) ==
  [bytes |-> W(id) \o W(4 * Len(scope)) \o W(4 * Len(opts)) \o Bytes(scope \o opts),
   means |-> Declares(id, scope \o opts, TRUE)]
O9Uneven(id) == [bytes |-> W(id) \o W(2) \o W(3) \o Zeros(5), means |-> Nothing]

(* A record: its values in the order of the template's fields.  Of values  *)
(* under one name the last one filled in counts, or the first; a hardware  *)
(* address is filled in whatever its bytes.                                *)
Filled(spec, v) == spec.kind = "mac" \/ \E i \in DOMAIN v : v[i] # 0
Wire(spec, v) == IF spec.len # Variable THEN v
                 ELSE IF Len(v) % 2 = 1 THEN <<Len(v)>> \o v
                 ELSE <<255>> \o W(Len(v)) \o v
Meant(specs, values) ==
  [n \in {specs[i].name : i \in DOMAIN specs} |->
     LET here == {i \in DOMAIN specs : specs[i].name = n}
         filled == {i \in here : Filled(specs[i], values[i])}
     IN  values[IF filled = {} THEN Min(here) ELSE Max(filled)]]
R(specs, values) ==
  [bytes |-> FlattenSeq([i \in DOMAIN specs |-> Wire(specs[i], values[i])]),
   means |-> [is |-> "record", rec |-> Meant(specs, values)]]

S(id, items, pad) == [id |-> id, items |-> items, pad |-> pad,
                      len |-> 4 + Len(Bytes(items)) + pad, layout |-> <<>>]
D(id, specs, values, pad) ==
  [S(id, [i \in DOMAIN values |-> R(specs, values[i])], pad)
     EXCEPT !.layout = Layout(specs)]
Junk(len) == [S(300, <<>>, 0) EXCEPT !.len = len]

SetBytes(s) == W(s.id) \o W(s.len) \o Bytes(s.items) \o Zeros(s.pad)

-----------------------------------------------------------------------------
Twins == <<F(8, 1), F(27, 2)>>
Dual == <<F(8, 4), F(27, 16)>>
Count == <<F(1, 2)>>
Nil == <<F(1, 0)>>
Macs == <<F(56, 1), Unknown(99, 1), F(56, 1)>>
Lengthy == <<F(1, Variable), Unknown(99, Variable)>>
Vendors == <<Vendor(7, 8, 1), F(8, 1)>>
Rate == <<F(1, 1), Unknown(34, 1)>>

(* Sets of either version, templates of set id t and options of o.         *)
Common(t) ==
  { S(t, <<T(256, Twins), T(260, Dual)>>, 0),
    S(t, <<T(256, Count), T(257, Macs)>>, 3),
    S(t, <<Withdrawn(256), T(257, Count), Overclaimed(256, Count)>>, 2),
    S(t, <<T(256, Nil)>>, 4),
    D(256, Twins, <<<<<<5>>, <<0, 0>>>>, <<<<0>>, <<0, 7>>>>, <<<<0>>, <<0, 0>>>>>>, 2),
    D(256, Twins, <<<<<<5>>, <<0, 6>>>>>>, 0),
    D(260, Dual, <<<<<<1, 2, 3, 4>>, Zeros(16)>>, <<Zeros(4), [Zeros(16) EXCEPT ![16] = 1]>>,
                   <<<<1, 2, 3, 4>>, [Zeros(16) EXCEPT ![1] = 32]>>, <<Zeros(4), Zeros(16)>>>>, 3),
    D(256, Count, <<<<<<3, 4>>>>, <<<<0, 0>>>>>>, 1),
    D(256, Nil, <<>>, 3),
    D(257, Macs, <<<<<<6>>, <<5>>, <<0>>>>>>, 0),
    S(200, <<>>, 5), Junk(3) }

V9Sets ==
  Common(0) \cup
  { S(1, <<O9(258, <<F(1, 1)>>, <<Unknown(34, 1)>>)>>, 2),
    S(1, <<O9Uneven(258), O9(259, <<>>, Count)>>, 0),
    D(258, Rate, <<<<<<1>>, <<9>>>>>>, 1) }

IpfixSets ==
  Common(2) \cup
  { S(3, <<O10(258, Rate)>>, 6),
    S(2, <<T(257, Lengthy), T(258, Vendors)>>, 0),
    S(2, <<Overclaimed(258, <<Vendor(7, 8, 1)>>)>>, 0),
    D(258, Rate, <<<<<<1>>, <<9>>>>>>, 0),
    D(257, Lengthy, <<<<<<4>>, <<5>>>>, <<<<6, 7>>, <<8>>>>, <<<<>>, <<9>>>>>>, 1),
    D(258, Vendors, <<<<<<2>>, <<3>>>>>>, 1) }

-----------------------------------------------------------------------------
(* What the first `arrived` bytes of these sets, behind a header of size   *)
(* `header`, hold for a collector that knows `known`.                      *)
Take(acc, item, arrived) ==
  LET end == acc.at + Len(item.bytes)
      m == item.means
  IN  IF acc.ended \/ end > arrived \/ m.is = "end" THEN [acc EXCEPT !.ended = TRUE]
      ELSE CASE m.is = "nothing" -> [acc EXCEPT !.at = end]
             [] m.is = "template" ->
                  [acc EXCEPT !.at = end,
                     !.store = (m.id :> m.entry) @@ @,
                     !.found.new = IF m.id \notin DOMAIN acc.store THEN @ + 1
                                   ELSE IF acc.store[m.id] # m.entry THEN @ + 1
                                   ELSE @]
             [] m.is = "record" ->
                  IF acc.options
                  THEN [acc EXCEPT !.at = end, !.found.options = Append(@, m.rec)]
                  ELSE [acc EXCEPT !.at = end, !.found.flows = Append(@, m.rec)]

(* `mixed`: its records are not of the layout held, which no exporter that *)
(* sends its templates first brings about.                                 *)
TakeSet(acc, s, arrived) ==
  LET isData == s.id >= 256
      held == isData /\ s.id \in DOMAIN acc.store
      entered == [acc EXCEPT !.at = @ + 4, !.ended = FALSE,
                    !.options = IF held THEN acc.store[s.id].options ELSE FALSE,
                    !.mixed = IF held THEN @ \/ acc.store[s.id].fields # s.layout
                              ELSE @,
                    !.found.truncated = @ \/ acc.at + s.len > arrived]
      taken == IF isData /\ ~held THEN [entered EXCEPT !.found.deferred = @ + 1]
               ELSE FoldLeft(LAMBDA a, i : Take(a, i, arrived), entered, s.items)
  IN  IF acc.over \/ acc.at + 4 > arrived \/ s.len < 4
      THEN [acc EXCEPT !.over = TRUE]
      ELSE [taken EXCEPT !.at = acc.at + s.len]

Found(flows, options, truncated) ==
  [flows |-> flows, options |-> options, new |-> 0, deferred |-> 0,
   truncated |-> truncated]

Holds(sets, header, size, arrived, claimed, known) ==
  FoldLeft(LAMBDA a, s : TakeSet(a, s, arrived),
           [at |-> header, store |-> known, ended |-> FALSE, options |-> FALSE,
            mixed |-> FALSE, over |-> size < header,
            found |-> Found(<<>>, <<>>, size >= header /\ claimed > size)],
           sets)

Datagram(bytes, known, h) ==
  [bytes |-> bytes, known |-> known,
   holds |-> [store |-> h.store, found |-> h.found, raises |-> FALSE]]

(* `cut` bytes of the message never arrived; an IPFIX header claims        *)
(* `claimed` bytes, 0 for as many as there are.                            *)
SetsDatagrams(version, header, sets, cut, claims, known) ==
  LET sent == FlattenSeq([i \in DOMAIN sets |-> SetBytes(sets[i])])
      full == header + Len(sent)
      size == full - cut
      Claimed(c) == IF c = 0 THEN 0 ELSE full + 1 - c
      Arrived(c) == IF c = 0 THEN size ELSE Least(Claimed(c), size)
      H(c) == Holds(sets, header, size, Arrived(c), Claimed(c), known)
      Bytes9 == W(9) \o Zeros(18) \o sent
      Bytes10(c) == W(10) \o W(Claimed(c)) \o Zeros(12) \o sent
      Sent(c) == SubSeq(IF version = 9 THEN Bytes9 ELSE Bytes10(c), 1, size)
  IN  {Datagram(Sent(c), known, H(c)) : c \in {x \in claims : ~H(x).mixed}}

Scripts(sets) == {<<a>> : a \in sets} \cup {<<a, b>> : a, b \in sets}

Knowns == {<<>>, 256 :> [fields |-> Layout(Twins), options |-> FALSE]}

V9Datagrams(cuts) ==
  UNION {SetsDatagrams(9, 20, s, c, {0}, k) :
           s \in Scripts(V9Sets), c \in cuts, k \in Knowns}
IpfixDatagrams(cuts) ==
  UNION {SetsDatagrams(10, 16, s, c, {0, 1, 4}, k) :
           s \in Scripts(IpfixSets), c \in cuts, k \in Knowns}

(* v5: `count` records claimed, three sent, `cut` bytes of them lost.      *)
V5Flow(i) == [b \in 1..48 |-> i]
V5Datagram(count, sampling, cut) ==
  LET bytes == W(5) \o W(count) \o Zeros(18) \o W(sampling)
                 \o V5Flow(1) \o V5Flow(2) \o V5Flow(3)
      size == Len(bytes) - cut
      flows == Least(count, (size - 24) \div 48)
      rate == sampling % 16384
  IN  Datagram(SubSeq(bytes, 1, size), <<>>,
        [store |-> <<>>,
         found |-> IF size < 24 THEN Found(<<>>, <<>>, FALSE)
                   ELSE Found([i \in 1..flows |-> V5Flow(i)],
                          IF sampling > 16384 + 1 /\ rate > 1
                          THEN <<[interval |-> rate]>> ELSE <<>>,
                          flows < count)])

V5Datagrams ==
  {V5Datagram(n, s, c) : n \in 0..4, s \in {0, 2, 16384 + 1, 32768 + 2},
                         c \in {0, 1, 47, 48, 49, 144, 145}}

OtherDatagrams ==
  {Datagram(b, <<>>, [store |-> <<>>, found |-> Found(<<>>, <<>>, FALSE)]) :
     b \in {<<>>, <<0>>, W(9) \o Zeros(17), W(10) \o Zeros(13)}}
  \cup {[Datagram(W(v) \o Zeros(40), <<>>, [store |-> <<>>,
              found |-> Found(<<>>, <<>>, FALSE)]) EXCEPT !.holds.raises = TRUE] :
           v \in {0, 7, 11, 9 * 256}}

MCDatagrams == V5Datagrams \cup OtherDatagrams
                 \cup V9Datagrams(Cuts) \cup IpfixDatagrams(Cuts)
=============================================================================
