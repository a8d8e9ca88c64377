----------------------------- MODULE LogMessages ------------------------------
(***************************************************************************)
(* How a value is streamed into a message (easylogging++.h, MessageBuilder *)
(* and the workarounds for containers that cannot be iterated over).       *)
(*                                                                         *)
(* A value is [kind, items]: a text, with its one item, or a container of  *)
(* values.  What it writes is a sequence of tokens.                        *)
(***************************************************************************)
EXTENDS Integers, Sequences, FiniteSets, SequencesExt, FiniteSetsExt

CONSTANTS
  kMaxLogPerContainer,
  Ascending,  \* texts, as std::less orders them
  Values      \* that are streamed, and the values in these

ASSUME LimitAssumption == kMaxLogPerContainer \in Nat \ {0}

Less(v, w) ==
  LET Rank(u) == CHOOSE i \in DOMAIN Ascending : Ascending[i] = u.items[1]
  IN  Rank(v) < Rank(w)

(* The flag AutoSpacing puts a space after each value. *)
Spaced(s, flags) == IF "AutoSpacing" \in flags THEN Append(s, " ") ELSE s

(* A text of Qt's goes to the stream as it is. *)
QtText(s) == s

(* MessageBuilder::initialize *)
Separator(flags) == IF "NewLineForContainer" \in flags THEN "\n" ELSE ", "

(* MessageBuilder::writeIterator: every element but the last is followed   *)
(* by a separator, the last one shown as well where others are left out.   *)
Bracketed(written, sep) ==
  <<"[">>
  \o FlattenSeq([i \in 1 .. Min({Len(written), kMaxLogPerContainer}) |->
       IF i < Len(written) THEN Append(written[i], sep) ELSE written[i]])
  \o (IF Len(written) > kMaxLogPerContainer THEN <<"...">> ELSE <<>>) \o <<"]">>

Iterated(written, flags) == Spaced(Bracketed(written, Separator(flags)), flags)

(* A copy of an adapter's elements in the order in which it gives them up, *)
(* one less than the limit: the counter is incremented before it is        *)
(* compared.  The greatest of a priority queue comes first.                *)
Taken(items) == SubSeq(items, 1, Min({Len(items), kMaxLogPerContainer - 1}))

Elements(v) ==
  CASE v.kind = "queue" -> Taken(v.items)
    [] v.kind = "stack" -> Taken(Reverse(v.items))
    [] v.kind = "priority_queue" -> Taken(SortSeq(v.items, LAMBDA v1, v2 : Less(v2, v1)))
    [] OTHER -> v.items

Pair(written) == <<"(">> \o written[1] \o <<", ">> \o written[2] \o <<")">>

Bitset(s, flags) == <<"[">> \o Spaced(s, flags) \o <<"]">>

(* QMap and QHash put the brackets around each entry themselves. *)
QMap(written, flags) == Bracketed(written, Separator(flags))

(* MAKE_CONTAINERELPP_FRIENDLY writes elements to the stream, without      *)
(* spaces of their own.                                                    *)
Friendly(written, flags) == Iterated(written, flags)

Written[v \in Values, flags \in SUBSET {"AutoSpacing", "NewLineForContainer"}] ==
  LET Each(fs) == [i \in DOMAIN Elements(v) |-> Written[Elements(v)[i], fs]]
  IN  CASE v.kind = "text" -> Spaced(v.items, flags)
        [] v.kind = "qstring" -> QtText(v.items)
        [] v.kind = "bitset" -> Bitset(v.items, flags)
        [] v.kind = "pair" -> Pair(Each(flags))
        [] v.kind = "qmap" -> QMap(Each(flags), flags)
        [] v.kind = "friendly" -> Friendly(Each(flags \ {"AutoSpacing"}), flags)
        [] OTHER -> Iterated(Each(flags), flags)
=============================================================================
