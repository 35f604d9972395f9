--------------------------- MODULE IdentityCodecs --------------------------
(***************************************************************************)
(* The texts that name an invocation and its entity: ExecIdCodec           *)
(* (receipt.ts) and entityIdCodec (entity-id-codec.ts).  A text is a       *)
(* sequence of tokens; Nul, Colon and Percent are the three the codecs     *)
(* give a meaning to.                                                      *)
(***************************************************************************)
EXTENDS Naturals, Sequences, SequencesExt

Nul == "nul"
Colon == ":"
Percent == "%"

Has(text, token) == token \in ToSet(text)

\* The text around the first separator, which the text has.
Before(text, token) == SubSeq(text, 1, SelectInSeq(text, LAMBDA t : t = token) - 1)
After(text, token) ==
    SubSeq(text, SelectInSeq(text, LAMBDA t : t = token) + 1, Len(text))

-----------------------------------------------------------------------------
\* ExecIdCodec: three segments joined by NUL, none of them escaped.
EncodeExecId(entityId, tag, primaryKey) ==
    entityId \o <<Nul>> \o tag \o <<Nul>> \o primaryKey

\* The first two separators end the entity id and the tag.  A text with fewer
\* stands for the segments it lacks.
DecodeExecId(text) ==
    IF ~Has(text, Nul) THEN [entityId |-> text, tag |-> text, primaryKey |-> text]
    ELSE LET rest == After(text, Nul)
         IN IF ~Has(rest, Nul)
              THEN [entityId |-> Before(text, Nul), tag |-> rest, primaryKey |-> text]
              ELSE [entityId |-> Before(text, Nul), tag |-> Before(rest, Nul),
                    primaryKey |-> After(rest, Nul)]

-----------------------------------------------------------------------------
\* encodeURIComponent and decodeURIComponent of one part.
EncodeToken(token) ==
    CASE token = Colon -> <<Percent, "3A">>
      [] token = Percent -> <<Percent, "25">>
      [] token = Nul -> <<Percent, "00">>
      [] OTHER -> <<token>>

EncodePart(part) == FlattenSeq([i \in DOMAIN part |-> EncodeToken(part[i])])

Unescape(code) ==
    CASE code = "3A" -> Colon
      [] code = "25" -> Percent
      [] code = "00" -> Nul
      [] OTHER -> code

DecodeToken(text, i) ==
    CASE text[i] = Percent -> <<>>
      [] text[i] # Percent /\ i > 1 /\ text[i - 1] = Percent ->
            <<Unescape(text[i])>>
      [] OTHER -> <<text[i]>>

DecodePart(text) == FlattenSeq([i \in DOMAIN text |-> DecodeToken(text, i)])

\* The parts, with a colon between any two of them.
JoinParts(parts) == Tail(FlattenSeq([i \in DOMAIN parts |-> <<Colon>> \o parts[i]]))

\* A colon starts another part, any other token belongs to the last one.
Extend(parts, token) ==
    IF token = Colon THEN Append(parts, <<>>)
                     ELSE [parts EXCEPT ![Len(parts)] = Append(@, token)]

SplitParts(text) == FoldLeft(Extend, << <<>> >>, text)

\* Mutant: the parts are joined as they are.
JoinUnescaped(parts) == JoinParts(parts)

\* entityIdCodec: the parts of a tuple, escaped and joined by colons...
EncodeEntityId(parts) == JoinParts([i \in DOMAIN parts |-> EncodePart(parts[i])])

\* ...and split at the colons again.
DecodeEntityId(text) ==
    LET parts == SplitParts(text)
    IN [i \in DOMAIN parts |-> DecodePart(parts[i])]

=============================================================================
