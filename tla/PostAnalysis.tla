---------------------------- MODULE PostAnalysis ----------------------------
(***************************************************************************)
(* The analysis of one post, whatever its text: any sequence of up to      *)
(* MaxWords sample words, under each setting of its origin, of the parts   *)
(* that may be missing and of the posts analysed before.                   *)
(***************************************************************************)
EXTENDS TextAnalysis

CONSTANTS
    Words,      \* the samples the text is made of
    MaxWords,   \* bound: the length of the text
    Settings,   \* records [origin, aids, earlier] of what else decides
    Dictionary  \* the coded words in force

ASSUME AnalysisConstantsOK == MaxWords \in Nat

VARIABLES
    post,    \* the captured post
    setting, \* the one of Settings it is analysed in
    outcome  \* <<>>, then <<what the pipeline returned>>

analysisVars == <<post, setting, outcome>>

Post(text, origin) ==
    [raw |-> text, source |-> origin.source, age |-> origin.age, views |-> origin.views,
     followers |-> origin.followers, hint |-> origin.hint]

AnalysisInit ==
    /\ setting \in Settings
    /\ \E n \in 0..MaxWords : \E text \in [1..n -> Words] : post = Post(text, setting.origin)
    /\ outcome = <<>>

Analyse ==
    /\ outcome = <<>>
    /\ outcome' = <<Process(post, Dictionary, KnownActors(setting.earlier), setting.aids)>>
    /\ UNCHANGED <<post, setting>>

AnalysisSpec == AnalysisInit /\ [][Analyse]_analysisVars

-----------------------------------------------------------------------------
\* What a person reads in the disguised samples.
Plain ==
    [w \in {"wide-mdma", "m3th", "leaf-emoji", "plug-emoji", "m44l", "m1lo"} |->
        CASE w = "wide-mdma"  -> "mdma"
          [] w = "m3th"       -> "meth"
          [] w = "leaf-emoji" -> "cannabis"
          [] w = "plug-emoji" -> "dealer"
          [] w = "m44l"       -> "maal"
          [] w = "m1lo"       -> "milo"]
PlainPost == [post EXCEPT !.raw = [i \in DOMAIN @ |-> Lookup(Plain, @[i])]]

Drugs == {"mdma", "meth", "cannabis", "cocaine", "ecstasy"}
Addresses == {"1BitcoinAddress", "0xEtherAddress", "SolanaAddress"}
Personal == {"buyer@proton.me", "9876543210"}

\* A term of the dictionary that can be found and counts: one to four words, which
\* is what is looked up, that neither normalising nor redacting changes and no
\* punctuation splits, and a meaning that is a product.  The other terms, such as
\* "re-up" or an emoji of the seed, match no text or name no product.
PlainTerm(p) ==
    /\ Len(p) \in 1..4 /\ Redact(Normalize(p)).text = p
    /\ ToSet(p) \cap (DOMAIN Parts \cup DOMAIN Visible) = {}
    /\ Dictionary[p] \notin NonProducts

\* The coded words a person reads in the post, disguised or not.
CodedWords == {p \in DOMAIN Dictionary : PlainTerm(p) /\ Hits({p}, Seen(PlainPost.raw))}

\* A post is dropped only if it is prohibited or nobody could use it: neither a
\* drug, a coded word nor a wallet is to be read in it.
DroppedRightly ==
    Sanitize(post.raw).dropped
    \/ /\ ToSet(PlainPost.raw) \cap Drugs = {}
       /\ CodedWords = {}
       /\ ToSet(post.raw) \cap Addresses = {}

\* A disguise that normalising undoes changes nothing that the analysis finds,
\* unless the blocklist names the plain text.
SameAsPlain(o) ==
    LET p == Process(PlainPost, Dictionary, KnownActors(setting.earlier), setting.aids)
    IN PlainPost.raw \notin Blocklist =>
       /\ p.kept
       /\ <<o.text, o.products, o.decoded, o.intent, o.geo, o.severity, o.entities.vendors>>
          = <<p.text, p.products, p.decoded, p.intent, p.geo, p.severity, p.entities.vendors>>

\* Every drug and coded word that can be read is a product, unless a longer
\* entry or an equal product stands for it; with an invisible character inside
\* only a coded word is read.
ProductsFound(o) ==
    /\ \A w \in ToSet(PlainPost.raw) \cap Drugs :
          \E i \in DOMAIN o.products : Contains(o.products[i].canonical, w)
    /\ \A p \in CodedWords :
          \E i \in DOMAIN o.products : o.products[i].canonical = Dictionary[p]

\* The stored text shows no e-mail address, in wide characters or not, that
\* neither a full stop nor a hyphen follows, and no number that is a word of its
\* own; what was captured is listed under a mask, an address before a full stop
\* too, each wallet under one chain, and leads to the actor who showed it before.
ContactsKept(o) ==
    /\ ToSet(o.text) \cap Personal = {}
    /\ "9876543210" \in ToSet(post.raw) => \E c \in o.entities.contacts : c.type = "phone"
    /\ ToSet(post.raw) \cap {"buyer@proton.me", "buyer@proton.me."} # {} =>
          \E c \in o.entities.contacts : c.type = "email"
    /\ {w.address : w \in o.entities.wallets} = ToSet(post.raw) \cap Addresses
    /\ \A v, w \in o.entities.wallets : v.address = w.address => v = w
    /\ \A e \in setting.earlier, w \in o.entities.wallets :
          w \in e.wallets => \E l \in o.links : l.relation = "uses_wallet" /\ l.from = w.address

\* No word counts for two entities.
MentionsDisjoint(o) ==
    \A i, j \in DOMAIN o.mentions : i # j => ~Overlap(o.mentions[i], o.mentions[j])

\* What the analysis owes every post, whatever the dictionary and the blocklist: a
\* product or coded word in a disguise that normalising undoes, or a wallet, is
\* neither dropped nor missed, contacts are listed and redacted, and no word
\* counts twice, in whatever order normalising, redacting and detecting run.
AnalysisPromise ==
    \A i \in DOMAIN outcome :
        LET o == outcome[i]
        IN IF ~o.kept THEN DroppedRightly
           ELSE SameAsPlain(o) /\ ProductsFound(o) /\ ContactsKept(o) /\ MentionsDisjoint(o)
=============================================================================
