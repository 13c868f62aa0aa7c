------------------------------ MODULE MdnsWire ------------------------------
(***************************************************************************)
(* The resource records of libmdns and their form on the wire (mdns.c).    *)
(*                                                                         *)
(* A name is the sequence of its labels.  The packet buffer is a sequence  *)
(* of cells: a label, the root that ends a name, a compression pointer or  *)
(* one field of fixed width.  Positions count cells, from 0 as in the C    *)
(* code.  PointerLimit stands for 2^14, the first position that the 14     *)
(* bits of a compression pointer cannot hold.                              *)
(***************************************************************************)
EXTENDS Naturals, Sequences, SequencesExt

CONSTANTS PointerLimit

ASSUME PointerLimitAssumption == PointerLimit \in Nat \ {0}

DefaultTtl == 120

ServicesName == <<"_services", "_dns-sd", "_udp", "local">>

----------------------------------------------------------------------------
(* Records.  Two records are the same only if they are the same object, so *)
(* each carries its owner: the service or the call that it was made for.   *)

Record(name, type, data, owner) ==
  [name |-> name, type |-> type, data |-> data, owner |-> owner]

InstanceName(s) == <<s.id>> \o s.type

TxtRecord(s) == Record(InstanceName(s), "TXT", s.txt, s.id)
SrvRecord(s, target) == Record(InstanceName(s), "SRV", target, s.id)
PtrRecord(s) == Record(s.type, "PTR", InstanceName(s), s.id)
BrowseRecord(s) == Record(ServicesName, "PTR", s.type, s.id)

AddressRecord(host, addr) == Record(host, "A", addr, "host")
NsecRecord(host) == Record(host, "NSEC", "A", "host")

\* Whether s is a sequence, a name in particular.
IsList(s) == s \in Seq(ToSet(s))

\* A record as the library makes them (enum rr_type, struct rr_entry).
WellFormed(r) ==
  /\ r.type \in {"A", "AAAA", "PTR", "TXT", "SRV", "NSEC"}
  /\ IsList(r.name)
  /\ r.type \in {"PTR", "SRV"} => IsList(r.data)

----------------------------------------------------------------------------
(* Lists of records. *)

\* The members of S in a list, in their order.
Kept(list, S) ==
  LET kept[i \in 0..Len(list)] ==
        IF i = 0 THEN <<>>
        ELSE IF list[i] \in S THEN Append(kept[i - 1], list[i]) ELSE kept[i - 1]
  IN kept[Len(list)]

\* rr_list_append for each record of from that is in S, in turn.
AppendFrom(list, from, S) == list \o Kept(from, S \ ToSet(list))

AppendNew(list, rrs) == AppendFrom(list, rrs, ToSet(rrs))

\* The groups of a responder, one for each name, are taken together.
GroupAdd(group, rrs) == AppendNew(group, rrs)

\* The records of group that a question for name and type asks for.
Asked(group, name, type) ==
  {r \in ToSet(group) : /\ r.name = name
                        /\ \/ r.type = type
                           \/ type = "ANY" /\ r.type # "NSEC"}

\* A known answer is the same record when name and type agree, and for a
\* PTR the target too; of several matches the first one counts.
SameAnswer(k, r) ==
  /\ k.type = r.type
  /\ k.name = r.name
  /\ r.type = "PTR" => k.data = r.data

FirstMatch(known, r) == Kept(known, {k \in ToSet(known) : SameAnswer(k, r)})

----------------------------------------------------------------------------
(* Encoding.  out is the buffer written so far, with the suffixes already  *)
(* in it and their positions.                                              *)

Label(l) == <<"label", l>>
Root == <<"root">>
Pointer(pos) == <<"pointer", pos % PointerLimit>>
Field(v) == <<"field", v>>

Suffix(name, i) == SubSeq(name, i, Len(name))

Write(out, cells) == [out EXCEPT !.buf = @ \o cells]

\* Mutant: the position remembered is the one after the label.
EncodeNameAfter(out, name) ==
  LET known(i) == {c \in ToSet(out.comp) : c.name = Suffix(name, i)}
      cut == Min({i \in 1..Len(name) : known(i) # {}} \cup {Len(name) + 1})
      end == IF cut > Len(name) THEN Root
             ELSE Pointer((CHOOSE c \in known(cut) : TRUE).pos)
      start == Len(out.buf) - 1
  IN [buf  |-> out.buf \o [i \in 1..(cut - 1) |-> Label(name[i])] \o <<end>>,
      comp |-> out.comp \o [i \in 1..(cut - 1) |->
                              [name |-> Suffix(name, i), pos |-> start + i + 1]]]

\* Labels are copied, and remembered, up to the first suffix met before.
EncodeName(out, name) ==
  LET known(i) == {c \in ToSet(out.comp) : c.name = Suffix(name, i)}
      cut == Min({i \in 1..Len(name) : known(i) # {}} \cup {Len(name) + 1})
      end == IF cut > Len(name) THEN Root
             ELSE Pointer((CHOOSE c \in known(cut) : TRUE).pos)
      start == Len(out.buf) - 1
  IN [buf  |-> out.buf \o [i \in 1..(cut - 1) |-> Label(name[i])] \o <<end>>,
      comp |-> out.comp \o [i \in 1..(cut - 1) |->
                              [name |-> Suffix(name, i), pos |-> start + i]]]

EncodeData(out, r) ==
  CASE r.type = "PTR"  -> EncodeName(out, r.data)
    [] r.type = "SRV"  -> EncodeName(Write(out, <<Field("port")>>), r.data)
    [] r.type = "NSEC" -> Write(EncodeName(out, r.name), <<Field(r.data)>>)
    [] r.type = "TXT"  -> Write(out, <<Label(r.data)>>)
    [] OTHER           -> Write(out, <<Field(r.data)>>)

\* The length of the data is filled in once the data is written.
EncodeRR(out, r, ttl) ==
  LET head == Write(EncodeName(out, r.name),
                    <<Field(r.type), Field(ttl), Field(0)>>)
      done == EncodeData(head, r)
  IN [done EXCEPT !.buf[Len(head.buf)] = Field(Len(done.buf) - Len(head.buf))]

\* ttl gives the lifetime of every record of the reply.
EncodePkt(reply, ttl) ==
  LET rrs == reply.ans \o reply.add
      header == <<Field(reply.numAns), Field(reply.numAdd)>>
      out[i \in 0..Len(rrs)] ==
        IF i = 0 THEN [buf |-> header, comp |-> <<>>]
                 ELSE EncodeRR(out[i - 1], rrs[i], ttl[rrs[i]])
  IN out[Len(rrs)].buf

----------------------------------------------------------------------------
(* Parsing. *)

At(buf, off) == buf[off + 1]

\* What a name occupies in the buffer, without following its pointer.
LabelLen(buf, off) ==
  1 + Min({n \in 0..(Len(buf) - off - 1) :
             At(buf, off + n)[1] \in {"root", "pointer"}})

\* A pointer is taken for a jump to a label: the cell it names is copied,
\* whatever it is, and the name goes on after it.
UncompressName(buf, off) ==
  LET labels[p \in 0..Len(buf)] ==
        IF p = Len(buf) \/ At(buf, p) = Root THEN <<>>
        ELSE LET q == IF At(buf, p)[1] = "pointer" THEN At(buf, p)[2] ELSE p
             IN <<At(buf, q)[2]>> \o labels[q + 1]
  IN labels[off]

ParseData(buf, type, off) ==
  CASE type = "PTR" -> UncompressName(buf, off)
    [] type \in {"A", "AAAA", "TXT"} -> At(buf, off)[2]
    [] OTHER -> "skipped"

\* One record more: parsed is what was read and where the next one starts.
ParseRR(buf, parsed) ==
  LET off == parsed.off
      p == off + LabelLen(buf, off)
      type == At(buf, p)[2]
      rr == [name |-> UncompressName(buf, off), type |-> type,
             ttl |-> At(buf, p + 1)[2], data |-> ParseData(buf, type, p + 3)]
  IN [rrs |-> Append(parsed.rrs, rr), off |-> p + 3 + At(buf, p + 2)[2]]

ParseRecords(buf, n) ==
  LET parsed[i \in 0..n] ==
        IF i = 0 THEN [rrs |-> <<>>, off |-> 2] ELSE ParseRR(buf, parsed[i - 1])
  IN parsed[n].rrs

\* The parser takes the answers and leaves the additional records alone.
ParsePkt(buf) == ParseRecords(buf, At(buf, 0)[2])
=============================================================================
