------------------------------- MODULE Exports -------------------------------
(***************************************************************************)
(* What a recorded run is exported to: a token profile (tracewake/         *)
(* pprof.py), a trace of spans (otel.py) and a report page within a budget *)
(* (report.py).                                                            *)
(*                                                                         *)
(* A call is [call, model, messages, in, out] with messages as records of  *)
(* a length and a tag, which is empty when there is none.                  *)
(***************************************************************************)
EXTENDS Integers, Sequences, FiniteSets, SequencesExt, FiniteSetsExt, Folds

Total(s) == FoldLeft(LAMBDA a, b : a + b, 0, s)

-----------------------------------------------------------------------------
\* pprof.py: attribution

\* Fault: every share is rounded down.
ProportionalFloors(total, weights) ==
    LET mass == Total(weights)
    IN IF mass = 0 THEN [k \in DOMAIN weights |-> IF k = 1 THEN total ELSE 0]
       ELSE [k \in DOMAIN weights |-> (total * weights[k]) \div mass]

\* proportional: floors, and the leftover to the largest remainders, the
\* earlier of two equal ones first.
Proportional(total, weights) ==
    LET mass == Total(weights)
        floors == [k \in DOMAIN weights |-> (total * weights[k]) \div mass]
        rest == [k \in DOMAIN weights |-> (total * weights[k]) % mass]
        before(k) == {j \in DOMAIN weights : rest[j] > rest[k] \/ (rest[j] = rest[k] /\ j < k)}
        leftover == total - Total(floors)
    IN IF mass = 0 THEN [k \in DOMAIN weights |-> IF k = 1 THEN total ELSE 0]
       ELSE [k \in DOMAIN weights |-> floors[k] + IF Cardinality(before(k)) < leftover THEN 1 ELSE 0]

Tag(message) == IF message.tag = "" THEN "untagged" ELSE message.tag

\* The shares of one call: its messages, then its answer, zeros left out.
CallShares(call, turn) ==
    LET messages == IF call.messages = <<>> THEN <<[length |-> 0, tag |-> ""]>> ELSE call.messages
        parts == Proportional(call.in, [k \in DOMAIN messages |-> messages[k].length])
        share(leaf, in, out) == [model |-> call.model, turn |-> turn, leaf |-> leaf, in |-> in, out |-> out]
        inputs == [k \in DOMAIN messages |-> share(Tag(messages[k]), parts[k], 0)]
    IN SelectSeq(inputs, LAMBDA s : s.in # 0)
       \o (IF call.out # 0 THEN <<share("response", 0, call.out)>> ELSE <<>>)

\* _merge_shares: shares with one stack add up, where the first of them stood.
Added(shares, s) ==
    IF \E k \in DOMAIN shares : shares[k].turn = s.turn /\ shares[k].leaf = s.leaf
    THEN [k \in DOMAIN shares |->
             IF shares[k].turn = s.turn /\ shares[k].leaf = s.leaf
             THEN [shares[k] EXCEPT !.in = @ + s.in, !.out = @ + s.out] ELSE shares[k]]
    ELSE Append(shares, s)

AttributeTokens(calls) ==
    FoldLeft(Added, <<>>, FlattenSeq([t \in DOMAIN calls |-> CallShares(calls[t], t)]))

UsageTotals(calls) ==
    <<Total([t \in DOMAIN calls |-> calls[t].in]), Total([t \in DOMAIN calls |-> calls[t].out])>>

\* report.py _spend and pprof.py format_top: the shares by leaf.
Spend(calls) ==
    LET shares == AttributeTokens(calls)
        spent(own) == <<MapThenSumSet(LAMBDA s : s.in, own), MapThenSumSet(LAMBDA s : s.out, own)>>
    IN [leaf \in {s.leaf : s \in Range(shares)} |-> spent({s \in Range(shares) : s.leaf = leaf})]

-----------------------------------------------------------------------------
\* pprof.py: the encoding.  A message is a sequence of bytes; a string is one
\* byte per character.

Varint[n \in Nat] == IF n > 127 THEN <<(n % 128) + 128>> \o Varint[n \div 128] ELSE <<n>>
Key(field, wire) == Varint[field * 8 + wire]
VarintField(field, value) == IF value = 0 THEN <<>> ELSE Key(field, 0) \o Varint[value]
BytesField(field, raw) == Key(field, 2) \o Varint[Len(raw)] \o raw

\* Interned strings, functions and locations; ids of the last two start at 1.
StringAt(table, text) == (CHOOSE k \in DOMAIN table : table[k] = text) - 1
Interned(table, text) == IF text \in Range(table) THEN table ELSE Append(table, text)

SampleValue(v) == Key(2, 0) \o Varint[v]

\* add_sample: the stack leaf first, then as many values as there are types.
AddSample(profile, stack, values) ==
    LET strings == FoldLeft(Interned, profile.strings, Reverse(stack))
        functions == FoldLeft(Interned, profile.functions, Reverse(stack))
        ids == [k \in DOMAIN stack |-> StringAt(functions, Reverse(stack)[k]) + 1]
        body == FlattenSeq([k \in DOMAIN ids |-> VarintField(1, ids[k])])
                \o FlattenSeq([k \in DOMAIN values |-> SampleValue(values[k])])
    IN [strings |-> strings, functions |-> functions, samples |-> Append(profile.samples, body)]

\* serialize: types, samples, locations, functions, strings, comments.
Serialize(profile, types, comments) ==
    LET strings == FoldLeft(Interned, profile.strings, FlattenSeq(types) \o comments)
        functions == profile.functions
        line(k) == BytesField(4, VarintField(1, k))
    IN FlattenSeq([k \in DOMAIN types |->
            BytesField(1, VarintField(1, StringAt(strings, types[k][1])) \o VarintField(2, StringAt(strings, types[k][2])))])
       \o FlattenSeq([k \in DOMAIN profile.samples |-> BytesField(2, profile.samples[k])])
       \o FlattenSeq([k \in DOMAIN functions |-> BytesField(4, VarintField(1, k) \o line(k))])
       \o FlattenSeq([k \in DOMAIN functions |->
            BytesField(5, VarintField(1, k) \o VarintField(2, StringAt(strings, functions[k]))
                          \o VarintField(3, StringAt(strings, functions[k])))])
       \o FlattenSeq([k \in DOMAIN strings |-> BytesField(6, strings[k])])
       \o FlattenSeq([k \in DOMAIN comments |-> VarintField(13, StringAt(strings, comments[k]))])

\* build_token_profile: run, model, turn and leaf, each a name of its own; name
\* gives the bytes of a name.
BuildProfile(calls, name) ==
    LET shares == AttributeTokens(calls)
        stack(s) == <<name[<<"run", 0>>], name[<<s.model, 0>>], name[<<"turn", s.turn>>], name[<<s.leaf, 0>>]>>
    IN Serialize(FoldLeft(LAMBDA p, s : AddSample(p, stack(s), <<s.in, s.out>>),
                          [strings |-> <<<<>>>>, functions |-> <<>>, samples |-> <<>>], shares),
                 <<<<name[<<"in", 0>>], name[<<"count", 0>>]>>, <<name[<<"out", 0>>], name[<<"count", 0>>]>>>>,
                 <<name[<<"comment", 0>>]>>)

\* _read_varint, and the fields of a message.
VarintUpTo(buf, i, stop) ==
    [value |-> FoldLeft(LAMBDA v, k : v * 128 + (buf[stop + 1 - k] % 128), 0, [k \in 1 .. stop - i + 1 |-> k]),
     next |-> stop + 1]
ReadVarint(buf, i) == VarintUpTo(buf, i, Min({k \in i .. Len(buf) : buf[k] < 128}))

\* Every field of a message: its number, its value or its bytes.
FieldOf(buf, key, value) ==
    LET next == value.next + IF key.value % 8 = 2 THEN value.value ELSE 0
    IN [field |-> key.value \div 8, value |-> value.value, bytes |-> SubSeq(buf, value.next, next - 1), next |-> next]
ReadField(buf, key) == FieldOf(buf, key, ReadVarint(buf, key.next))
Fields(buf) ==
    LET read[i \in 1 .. Len(buf) + 1] ==
            LET from(f) == <<f>> \o read[f.next]
            IN IF i > Len(buf) THEN <<>> ELSE from(ReadField(buf, ReadVarint(buf, i)))
    IN read[1]
Values(fields, n) ==
    LET own == SelectSeq(fields, LAMBDA f : f.field = n) IN [k \in DOMAIN own |-> own[k].value]
Chunks(fields, n) ==
    LET own == SelectSeq(fields, LAMBDA f : f.field = n) IN [k \in DOMAIN own |-> Fields(own[k].bytes)]
LastOf(values) == IF values = <<>> THEN 0 ELSE Last(values)

\* Messages by their identifier, which is the first field.
ById(messages) ==
    LET id(m) == LastOf(Values(m, 1))
    IN [n \in {id(m) : m \in messages} |-> CHOOSE m \in messages : id(m) = n]

\* decode_profile, with the samples resolved through locations and functions.
DecodeProfile(raw) ==
    LET top == Fields(raw)
        strings == LET own == SelectSeq(top, LAMBDA f : f.field = 6) IN [k \in DOMAIN own |-> own[k].bytes]
        functions == ById(Range(Chunks(top, 5)))
        locations == ById(Range(Chunks(top, 4)))
        name(id) == strings[1 + LastOf(Values(functions[LastOf(Values(Chunks(locations[id], 4)[1], 1))], 2))]
        resolved(sample) ==
            LET ids == Values(sample, 1)
            IN [stack |-> [i \in DOMAIN ids |-> name(ids[i])], values |-> Values(sample, 2)]
        samples == Chunks(top, 2)
    IN [k \in DOMAIN samples |-> resolved(samples[k])]

-----------------------------------------------------------------------------
\* otel.py: a root, a span per call and one per tool, named by run and key.

ToolKey(event) == <<event.parent, event.tool>>

BuildSpans(events) ==
    LET spanOf(e) ==
            IF e.type = "model" THEN [key |-> <<e.call>>, parent |-> <<"run">>, start |-> e.at - e.took, end |-> e.at]
            ELSE [key |-> ToolKey(e), parent |-> <<e.parent>>, start |-> e.at - e.took, end |-> e.at]
        spanned == SelectSeq(events, LAMBDA e : e.type \in {"model", "tool"})
    IN <<[key |-> <<"run">>, parent |-> <<>>, start |-> 0, end |-> Max({0} \cup {e.at : e \in Range(events)})]>>
       \o [k \in DOMAIN spanned |-> spanOf(spanned[k])]

-----------------------------------------------------------------------------
\* report.py: a text is its length and the kind of its characters; a payload is
\* what it holds besides them, the texts, a flag each, and what was cut, in digits.

Digits[n \in Nat] == IF n < 10 THEN 1 ELSE 1 + Digits[n \div 10]
Kept(length, limit) == IF length <= limit THEN length ELSE limit

\* Bytes of a character in the serialized payload: one that JSON escapes, or
\* UTF-8 encodes, takes two.
Width(char) == IF char = "wide" THEN 2 ELSE 1

\* _serialize: the bytes of a text of which at most `limit` characters are kept.
Serialized(text, limit) == Width(text.char) * Kept(text.length, limit)

\* apply: the size with every text cut to the limit, written before measuring.
SizeAt(fixed, texts, limit) ==
    LET cut == {k \in DOMAIN texts : texts[k].length > limit}
    IN fixed + Total([k \in DOMAIN texts |-> Serialized(texts[k], limit)])
       + Total([k \in DOMAIN texts |-> IF k \in cut THEN 4 ELSE 5])
       + Digits[Cardinality(cut)] + Digits[MapThenSumSet(LAMBDA k : texts[k].length - limit, cut)] + Digits[limit]

Longest(texts) == Max({0} \cup {t.length : t \in Range(texts)})

SizeWhole(fixed, texts) ==
    fixed + Total([k \in DOMAIN texts |-> Serialized(texts[k], texts[k].length)])
    + 5 * Len(texts) + 1 + 1 + 4

\* render: what is embedded in the page, "<" escaped to six characters.
PageAt(fixed, texts, limit) ==
    SizeAt(fixed, texts, limit)
    + 5 * Total([k \in DOMAIN texts |->
                    IF texts[k].char = "less" THEN Kept(texts[k].length, limit) ELSE 0])

\* The largest limit found to fit, by bisection.
Search(fixed, texts, budget) ==
    LET search[low \in 0 .. Longest(texts) + 1, high \in -1 .. Longest(texts), best \in 0 .. Longest(texts)] ==
            IF low > high THEN best
            ELSE LET mid == (low + high) \div 2
                 IN IF SizeAt(fixed, texts, mid) <= budget THEN search[mid + 1, high, mid] ELSE search[low, mid - 1, best]
    IN search[0, Longest(texts), 0]

\* _fit_budget: whole, cut at a limit, or refused.
FitBudget(fixed, texts, budget) ==
    IF SizeWhole(fixed, texts) <= budget THEN [fits |-> TRUE, whole |-> TRUE, limit |-> Longest(texts)]
    ELSE LET best == Search(fixed, texts, budget)
         IN [fits |-> SizeAt(fixed, texts, best) <= budget, whole |-> FALSE, limit |-> best]
=============================================================================
