---------------------------- MODULE TextAnalysis ----------------------------
(***************************************************************************)
(* What the processor makes of the text of one captured post (nlp/): the   *)
(* safety check, the normalisation that undoes disguises, the redaction,   *)
(* and the detectors of wallets, contacts, products, vendors, coded words, *)
(* intent, place, severity and links between actors.                       *)
(*                                                                         *)
(* A text is a sequence of words and a phrase is a sequence of words that  *)
(* may occur in it.  A word is one sample of the strings the code's        *)
(* patterns tell apart; the tables say what each step does to the samples, *)
(* a word in no table passes unchanged and is caught by no pattern.        *)
(* Scores are integers: thousandths, hundredths of a severity factor.      *)
(***************************************************************************)
EXTENDS Integers, SequencesExt, Ordering

CONSTANT Blocklist  \* the texts whose hash is on the operator's blocklist

Lookup(table, w) == IF w \in DOMAIN table THEN table[w] ELSE w
Hits(phrases, text) == phrases \cap SubSeqs(text) # {}

\* The spans <<i, j>> of a text that read as one of the phrases, leftmost first.
Spans(phrases, text) ==
    Ordered({s \in (1..Len(text)) \X (1..Len(text)) :
                s[1] <= s[2] /\ SubSeq(text, s[1], s[2]) \in phrases},
            LAMBDA s, t : s[1] < t[1] \/ (s[1] = t[1] /\ s[2] < t[2]))

-----------------------------------------------------------------------------
(* sanitizer.py *)

Forbidden  == {<<"forbidden">>}  \* the keyword rule and the expressions that drop a post
Indicators == {<<"escrow">>, <<"bulk", "discount">>, <<"stealth", "shipping">>}

Sanitize(raw) ==
    [dropped   |-> raw \in Blocklist \/ Hits(Forbidden, raw),
     detectors |-> IF Cardinality(Indicators \cap SubSeqs(raw)) >= 2
                   THEN {"yara:drug_trafficking_indicators"} ELSE {}]

\* The pattern wants neither a full stop nor a hyphen after the address, so the
\* one at the end of a sentence is no word it catches.
EmailWords == {"buyer@proton.me"}
UncaughtEmails == {"buyer@proton.me."}
PhoneWords == {"9876543210", "ph:9876543210"}

\* redact_sensitive_text
RedactWord(w) == CASE w \in EmailWords -> "[EMAIL_REDACTED]"
                   [] w \in PhoneWords -> "[PHONE_REDACTED]"
                   [] OTHER            -> w
Redact(text) ==
    [text      |-> [i \in DOMAIN text |-> RedactWord(text[i])],
     detectors |-> {d \in {"pii:email", "pii:phone"} :
                       LET caught == IF d = "pii:email" THEN EmailWords ELSE PhoneWords
                       IN ToSet(text) \cap caught # {}}]

-----------------------------------------------------------------------------
(* language.py *)

\* Unicode compatibility folding: the "wide" samples use full-width characters.
Compat == [w \in {"wide-mdma", "wide-buyer@proton.me"} |->
              IF w = "wide-mdma" THEN "mdma" ELSE "buyer@proton.me"]
EmojiMap == [w \in {"leaf-emoji", "plug-emoji"} |->
                IF w = "leaf-emoji" THEN "cannabis" ELSE "dealer"]

\* What LEET_MAP makes of the samples with a digit or sign it knows.
LeetMap ==
    [w \in {"m3th", "m44l", "m1lo", "ph:9876543210", "buyer@proton.me", "buyer@proton.me.",
            "@milo99", "1BitcoinAddress", "0xEtherAddress", "$50", "5g"} |->
        CASE w = "m3th"            -> "meth"
          [] w = "m44l"            -> "maal"
          [] w = "m1lo"            -> "milo"
          [] w = "ph:9876543210"   -> "ph:gbt6sae2io"
          [] w = "buyer@proton.me" -> "buyeraproton.me"
          [] w = "buyer@proton.me." -> "buyeraproton.me."
          [] w = "@milo99"         -> "amilogg"
          [] w = "1BitcoinAddress" -> "iBitcoinAddress"
          [] w = "0xEtherAddress"  -> "oxEtherAddress"
          [] w = "$50"             -> "sso"
          [] w = "5g"              -> "sg"]

\* _foldable: handles, e-mails, strings of 25 characters and amounts are left alone.
Foldable(w) ==
    /\ w \in DOMAIN LeetMap
    /\ w \notin EmailWords \cup UncaughtEmails
    /\ w \notin {"@milo99", "1BitcoinAddress", "0xEtherAddress", "$50", "5g"}
FoldLeet(w) == IF Foldable(w) THEN LeetMap[w] ELSE w

NormalizeNarrow(raw) == [i \in DOMAIN raw |-> FoldLeet(Lookup(EmojiMap, raw[i]))]
Normalize(raw) ==
    [i \in DOMAIN raw |-> FoldLeet(Lookup(EmojiMap, Lookup(Compat, raw[i])))]

\* detect_language_info; guess is the external detector's answer.
LanguageInfo(text, guess) ==
    LET mixed == Hits({<<"mixed-script">>}, text)
    IN [detected  |-> {guess} \cup (IF ~mixed THEN {}
                                    ELSE CASE guess = "en" -> {"hi"}
                                           [] guess \in {"hi", "gu"} -> {"en"}
                                           [] OTHER -> {}),
        codeMixed |-> mixed,
        romanized |-> Hits({<<"hai">>, <<"maal">>, <<"rate">>}, text)]

-----------------------------------------------------------------------------
(* ner/deterministic.py: read from the text as it was captured *)

\* The chains in the order they are tried: a base58 address of 32 to 44
\* characters is also a Solana address, the first chain to claim it keeps it.
Chains == <<"BTC", "ETH", "SOL">>
ChainWords == [BTC |-> {"1BitcoinAddress"}, ETH |-> {"0xEtherAddress"},
               SOL |-> {"1BitcoinAddress", "SolanaAddress"}]
Wallets(text) ==
    LET claims(w) == {i \in DOMAIN Chains : w \in ChainWords[Chains[i]]}
    IN {[chain |-> Chains[Min(claims(w))], address |-> w] :
           w \in {v \in ToSet(text) : claims(v) # {}}}

\* The 40 hexadecimal digits of an Ethereum address read as a fingerprint too.
FingerprintWords == {"PgpFingerprint", "0xEtherAddress"}
Fingerprints(text) == ToSet(text) \cap FingerprintWords

\* Contacts are listed under a mask: what is kept of each sample, by type.
ContactMasks ==
    [telegram |-> [w \in {"@milo99"} \cup EmailWords \cup UncaughtEmails |->
                      IF w = "@milo99" THEN "@mil***" ELSE "@pro***"],
     wickr    |-> [w \in {"wickr:milo"} |-> "mil***"],
     email    |-> [w \in EmailWords \cup UncaughtEmails |-> "bu***@proton.me"],
     phone    |-> [w \in PhoneWords |-> "+98...10"]]
Contacts(text) ==
    UNION {{[type |-> t, value |-> ContactMasks[t][w]] :
               w \in ToSet(text) \cap DOMAIN ContactMasks[t]} : t \in DOMAIN ContactMasks}

Prices(text)     == ToSet(text) \cap {"$50"}
Quantities(text) == ToSet(text) \cap {"5g"}

Deterministic(text) ==
    [wallets |-> Wallets(text), fingerprints |-> Fingerprints(text),
     contacts |-> Contacts(text), prices |-> Prices(text), quantities |-> Quantities(text)]

-----------------------------------------------------------------------------
(* ner/__init__.py: mentions of products and vendors, as spans of the text *)

Mention(label, phrase, from, to) == [label |-> label, phrase |-> phrase, from |-> from, to |-> to]
MentionsOf(label, phrases, text) ==
    LET spans == Spans(phrases, text)
    IN [i \in DOMAIN spans |-> Mention(label, SubSeq(text, spans[i][1], spans[i][2]),
                                       spans[i][1], spans[i][2])]

ProductPatterns ==   \* in the order they are tried
    << {<<"mdma">>, <<"ecstasy">>}, {<<"cocaine">>}, {<<"meth">>}, {<<"cannabis">>},
       {<<"meow", "meow">>}, {<<"liquid", "ecstasy">>} >>

ProductMentions(text) ==
    FlattenSeq([k \in DOMAIN ProductPatterns |-> MentionsOf("PRODUCT", ProductPatterns[k], text)])

\* A name is a run of 3 to 32 letters, digits and underscores: what of a word
\* is one, and the words that begin with none.
NotNames == {"by", "5g", "$50", "@milo99", "ph:gbt6sae2io", "[EMAIL_REDACTED]", "[PHONE_REDACTED]",
             "zw-maal", "zw-mdma"}
Cut == "vendor:" :> "vendor" @@ "wickr:milo" :> "wickr" @@ "0xEtherAddress" :> "0xEtherAddr"
       @@ "1BitcoinAddress" :> "1BitcoinAddr" @@ "SolanaAddress" :> "SolanaAddr"
       @@ "PgpFingerprint" :> "PgpFinger" @@ "buyer@proton.me." :> "buyer"
StopWords == {"the"}

\* finditer: a cue that the match before it has taken for a name is no cue.
Unconsumed(S) == {i \in S : \E j \in S : /\ j - 1 \notin S /\ j..i \subseteq S
                                        /\ (i - j) % 2 = 0}

\* "vendor: name" and "dealer @name", then "by name" unless the name is a stop word.
VendorMentions(text) ==
    LET after(cue) == {i \in 2..Len(text) : text[i - 1] = cue}
        handles == {i \in after("dealer") : text[i] = "@milo99"}
        cued    == {i \in after("vendor:") \cup after("by") :
                       text[i] \notin NotNames \cup StopWords}
        name(i) == IF text[i] = "@milo99" THEN "milo99" ELSE Lookup(Cut, text[i])
        named(S) == LET at == Ordered(S, <)
                    IN [k \in DOMAIN at |-> Mention("VENDOR", <<name(at[k])>>, at[k], at[k])]
    IN named(Unconsumed(handles \cup (cued \cap after("vendor:")))) \o named(cued \cap after("by"))

Overlap(m, n) == m.from <= n.to /\ n.from <= m.to
\* Keeps each mention that overlaps none kept before it.
Admit(kept, m) == IF \E i \in DOMAIN kept : Overlap(m, kept[i]) THEN kept ELSE Append(kept, m)
Greedy(mentions) ==
    LET kept[n \in 0..Len(mentions)] ==
            IF n = 0 THEN <<>> ELSE Admit(kept[n - 1], mentions[n])
    IN kept[Len(mentions)]

\* The rules of the optional spaCy package; its ruler keeps the longest match.
SpacyProducts == {<<"mdma">>, <<"cocaine">>, <<"meth">>, <<"cannabis">>,
                  <<"crystal", "meth">>, <<"meow", "meow">>}
SpacyMentions(text) ==
    LET names   == (ToSet(text) \ NotNames) \ (DOMAIN Cut \ {"vendor:"})
        vendors == {<<"dealer", w>> : w \in names}
        longer(m, n) == LET d == (m.to - m.from) - (n.to - n.from)
                        IN d > 0 \/ (d = 0 /\ m.from < n.from)
    IN Greedy(Ordered(ToSet(MentionsOf("PRODUCT", SpacyProducts, text))
                      \cup ToSet(MentionsOf("VENDOR", vendors, text)), longer))

\* merge_entities: patterns before spaCy and the surer pattern before the
\* other, which is the order of the lists; the survivors by position.
MergeEntities(lists) ==
    Ordered(ToSet(Greedy(FlattenSeq(lists))), LAMBDA m, n : m.from < n.from)

\* extract_all_entities; spacy says whether the package is installed.
Extract(text, spacy) ==
    MergeEntities(<<ProductMentions(text), VendorMentions(text),
                    IF spacy THEN SpacyMentions(text) ELSE <<>> >>)

\* entities_to_model: the vendors, each name once, in the order of the text.
Vendors(mentions) ==
    FoldLeft(LAMBDA vs, m : IF m.label # "VENDOR" \/ Contains(vs, m.phrase)
                            THEN vs ELSE Append(vs, m.phrase),
             <<>>, mentions)

-----------------------------------------------------------------------------
(* slang.py: the coded words; a dictionary maps phrases to their meaning *)

\* decode_text strips the invisible characters, which normalising leaves alone:
\* the "zw" samples have one inside.
Visible == [w \in {"zw-maal", "zw-mdma"} |-> IF w = "zw-maal" THEN "maal" ELSE "mdma"]
Seen(text) == [i \in DOMAIN text |-> Lookup(Visible, text[i])]

\* The samples with punctuation, and the words they make.
Parts ==
    [w \in {"vendor:", "origin:", "@milo99", "$50", "wickr:milo", "ph:gbt6sae2io",
            "buyer@proton.me."} |->
        CASE w = "vendor:"          -> <<"vendor">>
          [] w = "origin:"          -> <<"origin">>
          [] w = "@milo99"          -> <<"milo99">>
          [] w = "$50"              -> <<"50">>
          [] w = "wickr:milo"       -> <<"wickr", "milo">>
          [] w = "ph:gbt6sae2io"    -> <<"ph", "gbt6sae2io">>
          [] w = "buyer@proton.me." -> <<"buyer", "proton", "me">>]
Tokens(text) ==
    LET seen == Seen(text)
    IN FlattenSeq([i \in DOMAIN seen |->
           IF seen[i] \in DOMAIN Parts THEN Parts[seen[i]] ELSE <<seen[i]>>])

\* fuzzy_lookup: words of four letters or more and the term they resemble by 85;
\* a part of a longer term resembles it too.
Resembles == "maall" :> <<"maal">> @@ "meow" :> <<"meow", "meow">>

Decode(dictionary, text) ==
    LET words     == Tokens(text)
        first(p)  == IndexFirstSubSeq(p, words)
        phrases   == {p \in DOMAIN dictionary : Len(p) \in 1..4 /\ p \in SubSeqs(words)}
        fuzzy     == {w \in ToSet(words) \cap DOMAIN Resembles :
                         <<w>> \notin DOMAIN dictionary /\ Resembles[w] \in DOMAIN dictionary}
        decoded   == {[term |-> p, meaning |-> dictionary[p], at |-> first(p)] : p \in phrases}
                     \cup {[term |-> <<w>>, meaning |-> dictionary[Resembles[w]],
                            at |-> first(<<w>>)] : w \in fuzzy}
    IN Ordered(decoded, LAMBDA d, e : d.at < e.at \/ (d.at = e.at /\ Len(d.term) > Len(e.term)))

-----------------------------------------------------------------------------
(* intent.py *)

Labels == <<"SALE", "SOLICITATION", "DISCUSSION", "REVIEW", "UNRELATED">>
IntentPatterns ==   \* for each label, the phrases of each of its expressions
    [SALE         |-> {{<<"selling">>}, {<<"escrow">>}, {<<"bulk", "discount">>}, {<<"$50">>}},
     SOLICITATION |-> {{<<"need">>}, {<<"source">>}},
     DISCUSSION   |-> {{<<"tried">>}},
     REVIEW       |-> {{<<"fire">>}},
     UNRELATED    |-> {{<<"weather">>}, {<<"school">>}}]

\* The label most expressions speak for, the earlier one of a tie.
RuleIntent(text) ==
    LET votes  == [l \in ToSet(Labels) |-> Quantify(IntentPatterns[l], LAMBDA p : Hits(p, text))]
        most   == Max(Range(votes))
        total  == SumFunction(votes)
    IN IF most = 0 THEN [label |-> "UNRELATED", score |-> 100]
       ELSE [label |-> Labels[Min({i \in DOMAIN Labels : votes[Labels[i]] = most})],
             score |-> Min({950, 500 + (most * 500) \div total})]

\* classify: ml is the answer of the trained model, or NoModel without one.
NoModel == [label |-> "none", score |-> 0]
Classify(text, ml) ==
    LET rule == RuleIntent(text)
    IN IF ml = NoModel \/ rule.score >= 800 THEN rule
       ELSE IF ml.score >= 700 THEN ml
       ELSE [rule EXCEPT !.score = (@ * 4) \div 5]

-----------------------------------------------------------------------------
(* geo.py *)

\* The index: each term in its order, its neighbourhood, its length in characters.
Places ==
    << [term |-> <<"adajan">>, name |-> "adajan", len |-> 6],
       [term |-> <<"pal">>, name |-> "pal", len |-> 3],
       [term |-> <<"station">>, name |-> "station", len |-> 7],
       [term |-> <<"surat", "station">>, name |-> "station", len |-> 13] >>
Generic == {<<"station">>, <<"chowk">>}
\* Inside a word too: the term "pal" is part of "nepal".
Within(text, place) ==
    Hits({place.term}, text) \/ (place.name = "pal" /\ Hits({<<"nepal">>}, text))

Geo(neighborhood, city, confidence, basis) ==
    [neighborhood |-> neighborhood, city |-> city, confidence |-> confidence, basis |-> basis]
Nowhere == Geo("", "", 0, "inference")

NamedPlace(text) ==
    LET named == {p \in ToSet(Places) : p.term \notin Generic /\ Hits({p.term}, text)}
        best  == CHOOSE p \in named : \A q \in named : p.len >= q.len
    IN IF named = {} THEN Nowhere
       ELSE Geo(best.name, "Surat", Min({950, 700 + best.len * 20}), "explicit")

\* The place a location reads as: a term of the index in it, or the city.
PlaceIn(location, inPlace, inCity, basis) ==
    LET part == SelectInSeq(Places, LAMBDA p : Within(location, p))
    IN IF part > 0 THEN Geo(Places[part].name, "Surat", inPlace, basis)
       ELSE IF Contains(location, "surat") THEN Geo("", "Surat", inCity, basis) ELSE Nowhere

ShipFrom(text) ==
    LET from == SelectInSeq(text, LAMBDA w : w = "origin:")
    IN IF from = 0 THEN Nowhere ELSE PlaceIn(SubSeq(text, from + 1, Len(text)), 850, 800, "ship_from")

SlangPlace(text) ==
    IF Hits({<<"surat", "special">>}, text) THEN Geo("", "Surat", 800, "slang")
    ELSE IF Hits({<<"city", "delivery">>}, text) THEN Geo("", "Surat", 550, "slang")
    ELSE Nowhere

\* match_geo: the first of these that finds a place, the collector's hint last.
MatchGeo(text, hint) ==
    LET answers == <<NamedPlace(text), ShipFrom(text), SlangPlace(text),
                     PlaceIn(hint, 600, 500, "inference")>>
        first   == SelectInSeq(answers, LAMBDA g : g # Nowhere)
    IN IF first = 0 THEN Nowhere ELSE answers[first]

-----------------------------------------------------------------------------
(* processor.py and actors.py: links to the actors of earlier posts *)

\* _known_actors: the aliases the earlier posts list, and the fingerprints and
\* wallets of each actor, who is the first vendor of the post or the post itself.
KnownActors(earlier) ==
    LET actor(e) == IF e.vendors = <<>> THEN <<"intel", e.id>> ELSE Head(e.vendors)
    IN [aliases      |-> UNION {ToSet(e.vendors) : e \in earlier},
        fingerprints |-> UNION {{<<f, actor(e)>> : f \in e.fingerprints} : e \in earlier},
        wallets      |-> UNION {{<<w.address, actor(e)>> : w \in e.wallets} : e \in earlier}]

\* normalize_username of the sample names, and the names it makes prefixes.
Username(alias) == Lookup(<<"milo99">> :> <<"milogg">> @@ <<"milo_99">> :> <<"milogg">>, alias)
SharesStem(a, b) == {a, b} = {<<"milogg">>, <<"miloggshop">>}

Link(from, to, relation, confidence) ==
    [from |-> from, to |-> to, relation |-> relation, confidence |-> confidence]

ActorLinks(entities, known) ==
    {Link(p[1], p[2], "same_as", IF Username(p[1]) = Username(p[2]) THEN 850 ELSE 650) :
        p \in {q \in ToSet(entities.vendors) \X known.aliases :
                   /\ q[1] # q[2]
                   /\ \/ Username(q[1]) = Username(q[2])
                      \/ SharesStem(Username(q[1]), Username(q[2]))}}
    \cup {Link(p[1], p[2], "same_as", 950) :
             p \in {q \in known.fingerprints : q[1] \in entities.fingerprints}}
    \cup {Link(p[1], p[2], "uses_wallet", 900) :
             p \in {q \in known.wallets : q[1] \in {w.address : w \in entities.wallets}}}

-----------------------------------------------------------------------------
(* severity.py, in hundredths; the weights are the defaults *)

Weights == [intent |-> 25, harm |-> 20, source |-> 15, place |-> 15, recency |-> 10, exposure |-> 15]
IntentScore == [SALE |-> 100, SOLICITATION |-> 80, DISCUSSION |-> 30, REVIEW |-> 20, UNRELATED |-> 0]
Harm == <<"cocaine">> :> 85 @@ <<"mdma">> :> 70 @@ <<"ecstasy">> :> 70 @@ <<"cannabis">> :> 30
        @@ <<"mephedrone">> :> 80 @@ <<"methamphetamine">> :> 95
Reliability == [tor_market |-> 80, telegram |-> 70, surface_market |-> 50]
BaseExposure == [tor_market |-> 65, telegram |-> 55, surface_market |-> 40]
Recency == [now |-> 100, halflife |-> 50, old |-> 0]

\* A product unknown to the table counts by its raw term, else by the default.
ProductHarm(products) ==
    LET harm(p) == IF p.canonical \in DOMAIN Harm THEN Harm[p.canonical]
                   ELSE IF p.raw \in DOMAIN Harm THEN Harm[p.raw] ELSE 50
    IN Max({0} \cup {harm(p) : p \in ToSet(products)})
PlaceScore(geo) ==
    IF geo.neighborhood # "" THEN Min({100, 80 + geo.confidence \div 50})
    ELSE IF geo.city = "Surat" THEN Min({80, 50 + (geo.confidence * 3) \div 100}) ELSE 10
Exposure(post) ==
    LET views     == IF post.views > 10000 THEN 20 ELSE IF post.views > 1000 THEN 10 ELSE 0
        followers == IF post.followers > 10000 THEN 15 ELSE IF post.followers > 1000 THEN 5 ELSE 0
    IN Min({100, Min({100, BaseExposure[post.source] + views}) + followers})

\* The score in tenths of a point, 0 to 1000, and its band.
Severity(post, intent, products, geo) ==
    LET score == (Weights.intent * IntentScore[intent.label]
                  + Weights.harm * ProductHarm(products)
                  + Weights.source * Reliability[post.source]
                  + Weights.place * PlaceScore(geo)
                  + Weights.recency * Recency[post.age]
                  + Weights.exposure * Exposure(post) + 5) \div 10
    IN [score |-> score,
        band  |-> CASE score >= 800 -> "CRITICAL" [] score \in 600..799 -> "HIGH"
                    [] score \in 400..599 -> "MEDIUM" [] score \in 200..399 -> "LOW"
                    [] score < 200 -> "INFO"]

-----------------------------------------------------------------------------
(* pipeline.py *)

\* _build_products: the products named, then what the coded words mean; the empty
\* phrase is none.
NonProducts == {<<>>, <<"delivery">>, <<"home delivery">>, <<"surat">>}
AddProduct(kept, p) ==
    IF p.canonical \in NonProducts \/ \E i \in DOMAIN kept : kept[i].canonical = p.canonical
    THEN kept ELSE Append(kept, p)
Products(mentions, decoded, prices, quantities) ==
    LET product(canonical, raw, slang) ==
            [canonical |-> canonical, raw |-> raw, slang |-> slang,
             price |-> prices, quantity |-> quantities]
        named(m) == IF m.label = "PRODUCT" THEN <<product(m.phrase, m.phrase, FALSE)>> ELSE <<>>
        all == FlattenSeq([i \in DOMAIN mentions |-> named(mentions[i])])
               \o [i \in DOMAIN decoded |-> product(decoded[i].meaning, decoded[i].term, TRUE)]
        kept[n \in 0..Len(all)] ==
            IF n = 0 THEN <<>> ELSE AddProduct(kept[n - 1], all[n])
    IN kept[Len(all)]

\* _calculate_confidence, the mean of what is known, in thousandths.
Confidence(intent, geo, language) ==
    LET scores == {<<"intent", intent.score>>, <<"language", IF language.codeMixed THEN 700 ELSE 900>>}
                  \cup {<<"geo", geo.confidence>>}
        given  == {s \in scores : s[2] > 0}
    IN MapThenSumSet(LAMBDA s : s[2], given) \div Cardinality(given)

Dropped == [kept |-> FALSE]

(***************************************************************************)
(* process.  A post is its raw text, the source it came from, its age,     *)
(* views and followers and the collector's hint; aids are the answers of   *)
(* the optional parts (spaCy, the trained intent model, the language       *)
(* detector); known are the actors of earlier posts.                       *)
(***************************************************************************)
Process(post, dictionary, known, aids) ==
    LET checked  == Sanitize(post.raw)
        found    == Deterministic(post.raw)
        redacted == Redact(Normalize(post.raw))
        text     == redacted.text
        mentions == Extract(text, aids.spacy)
        decoded  == Decode(dictionary, text)
        vendors  == Vendors(mentions)
        intent   == Classify(text, aids.ml)
        geo      == MatchGeo(text, post.hint)
        language == LanguageInfo(text, aids.guess)
        products == Products(mentions, decoded, found.prices, found.quantities)
        signal   == products # <<>> \/ decoded # <<>> \/ vendors # <<>> \/ found.wallets # {}
        entities == [vendors |-> vendors, wallets |-> found.wallets,
                     contacts |-> found.contacts, fingerprints |-> found.fingerprints]
    IN IF checked.dropped \/ (intent.label = "UNRELATED" /\ ~signal) THEN Dropped
       ELSE [kept       |-> TRUE,
             text       |-> text,
             detectors  |-> checked.detectors \cup redacted.detectors,
             language   |-> language,
             intent     |-> intent,
             mentions   |-> mentions,
             products   |-> products,
             decoded    |-> decoded,
             geo        |-> geo,
             entities   |-> entities,
             links      |-> ActorLinks(entities, known),
             severity   |-> Severity(post, intent, products, geo),
             confidence |-> Confidence(intent, geo, language)]
=============================================================================
