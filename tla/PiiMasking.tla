----------------------------- MODULE PiiMasking -----------------------------
(***************************************************************************)
(* One text on its way through the PII vault: masked before it reaches a   *)
(* model, translated for a caller, resolved for a tool                     *)
(* (saap/compliance/pii.py, saap/core/i18n.py).                            *)
(*                                                                         *)
(* A text is a sequence of characters, and what the recognizers find are   *)
(* spans of it.  A character is a pair: <<Raw, n>> is the n-th of the      *)
(* original, <<e, j>> the j-th of the token minted for entity e, and       *)
(* <<e, 0>> the sentinel that stands for that token during translation.    *)
(* Regular expressions of two recognizers may overlap, those of one never  *)
(* do.  Token characters are a few, so that tokens are longer than some    *)
(* spans and shorter than others, as they are in the code.                 *)
(*                                                                         *)
(* Each loop of the code is a stage, each of its iterations an action, and *)
(* `todo` holds the entities the loop still has to treat.                  *)
(***************************************************************************)
EXTENDS Integers, Sequences, SequencesExt

CONSTANTS
  TextLength,   \* characters of the original
  TokenWidth,   \* characters of a vault token
  Recognizers,  \* entity types, in the order of _RECOGNIZER_PATTERNS
  Matched,      \* those whose tokens <[A-Z_]+_[0-9a-f]{8}> matches
  Analyses      \* what analyze() may find in a text: sets of spans

Entity == [type : ToSet(Recognizers), start : 0..TextLength, end : 0..TextLength]
Overlap(e, f) == e.start < f.end /\ f.start < e.end
Disjoint(E) == \A e, f \in E : e # f => ~ Overlap(e, f)

\* finditer() gives the matches of one pattern without overlap.
ASSUME PiiAssumption ==
  /\ TextLength \in Nat /\ TokenWidth \in Nat \ {0}
  /\ Matched \subseteq ToSet(Recognizers)
  /\ \A E \in Analyses :
       /\ E \subseteq Entity /\ \A e \in E : e.start < e.end
       /\ \A t \in ToSet(Recognizers) : Disjoint({e \in E : e.type = t})

VARIABLES
  found,  \* the entities analyze() found in the original
  text,   \* the text as it is now
  vault,  \* the entities whose token the vault can resolve
  stage,  \* the loop last entered: "mask", "protect", "restore" or "resolve";
          \* "received" before, "lost" when translate() has raised
  todo    \* the entities this loop still has to treat

piiVars == <<found, text, vault, stage, todo>>

Raw == [type |-> "RAW", start |-> 0, end |-> 0]
Original == [n \in 1..TextLength |-> <<Raw, n>>]
VaultToken(e) == [j \in 1..TokenWidth |-> <<e, j>>]
Sentinel(e) == <<<<e, 0>>>>

\* s[start:end], and s with its characters from start to end replaced.
Slice(s, start, end) == SubSeq(s, start + 1, IF end > Len(s) THEN Len(s) ELSE end)
Splice(s, start, end, new) == Slice(s, 0, start) \o new \o Slice(s, end, Len(s))

Occurs(s, i, sub) == i + Len(sub) <= Len(s) + 1 /\ \A k \in DOMAIN sub : s[i + k - 1] = sub[k]
Holds(s, sub) == \E i \in DOMAIN s : Occurs(s, i, sub)

\* s.replace(sub, new), for tokens and sentinels: one is put into a text once.
Replaced(s, sub, new) ==
  LET i == CHOOSE i \in DOMAIN s : Occurs(s, i, sub) IN
    IF Holds(s, sub) THEN Splice(s, i - 1, i - 1 + Len(sub), new) ELSE s

\* What the pattern of vault tokens finds.
TokensIn(s) == {e \in found : e.type \in Matched /\ Holds(s, VaultToken(e))}

-----------------------------------------------------------------------------
\* The place of an entity's recognizer in _RECOGNIZER_PATTERNS.
Rank(e) == IndexFirstSubSeq(<<e.type>>, Recognizers)

\* Mutant: from the left.
LaterFirst(e, f) == e.start < f.start

\* sorted(..., key=start, reverse=True) keeps the recognizers' order among
\* entities that begin together.
Precedes(e, f) ==
  \/ e.start > f.start
  \/ e.start = f.start /\ Rank(e) < Rank(f)

PiiInit ==
  found = {} /\ text = Original /\ vault = {} /\ stage = "received" /\ todo = {}

\* PIIMaskingInterceptor.before() on personal text: _mask() analyzes it.
Mask(E) ==
  /\ stage = "received"
  /\ found' = E /\ todo' = E
  /\ stage' = "mask"
  /\ UNCHANGED <<text, vault>>

\* The loop of _mask(): offsets of the original are used on a text that has
\* changed to the right of the last entity replaced.
MaskNext(e) ==
  /\ stage = "mask" /\ e \in todo
  /\ \A f \in todo \ {e} : Precedes(e, f)
  /\ vault' = vault \cup {e}
  /\ text' = Splice(text, e.start, e.end, VaultToken(e))
  /\ todo' = todo \ {e}
  /\ UNCHANGED <<found, stage>>

\* ProtectedSpanTranslator.translate() on the masked text.
Translate ==
  /\ stage = "mask" /\ todo = {}
  /\ stage' = "protect" /\ todo' = TokensIn(text)
  /\ UNCHANGED <<found, text, vault>>

\* A sentinel takes the place of a token; the order makes no difference.
ProtectNext(e) ==
  /\ stage = "protect" /\ e \in todo
  /\ text' = Replaced(text, VaultToken(e), Sentinel(e))
  /\ todo' = todo \ {e}
  /\ UNCHANGED <<found, vault, stage>>

\* The provider's answer arrives; it may have lost any one item.
ProviderReturns(k) ==
  /\ stage = "protect" /\ todo = {}
  /\ text' = IF k = 0 THEN text ELSE Splice(text, k - 1, k, <<>>)
  /\ stage' = "restore" /\ todo' = {e \in found : Holds(text, Sentinel(e))}
  /\ UNCHANGED <<found, vault>>

\* A sentinel becomes its token again; a lost one is an error.
RestoreNext(e) ==
  /\ stage = "restore" /\ e \in todo
  /\ IF Holds(text, Sentinel(e))
     THEN /\ text' = Replaced(text, Sentinel(e), VaultToken(e))
          /\ todo' = todo \ {e} /\ UNCHANGED stage
     ELSE stage' = "lost" /\ todo' = {} /\ UNCHANGED text
  /\ UNCHANGED <<found, vault>>

\* resolve_for_tool() on an argument that holds the text.
ResolveForTool ==
  /\ stage \in {"mask", "restore"} /\ todo = {}
  /\ stage' = "resolve" /\ todo' = TokensIn(text)
  /\ UNCHANGED <<found, text, vault>>

\* TokenVault.resolve(); a token it does not know stays.
ResolveNext(e) ==
  /\ stage = "resolve" /\ e \in todo
  /\ text' = IF e \in vault
             THEN Replaced(text, VaultToken(e), Slice(Original, e.start, e.end))
             ELSE text
  /\ todo' = todo \ {e}
  /\ UNCHANGED <<found, vault, stage>>

\* TokenVault.destroy_all() while tokens are still about, between two of those
\* calls or while the provider is translating: the loops do not await.
DestroyAll ==
  /\ stage \in {"mask", "protect", "restore"} /\ todo = {}
  /\ vault' = {}
  /\ UNCHANGED <<found, text, stage, todo>>

PiiNext ==
  \/ \E E \in Analyses : Mask(E)
  \/ Translate
  \/ \E e \in todo : MaskNext(e)
  \/ \E e \in todo : ProtectNext(e)
  \/ \E k \in 0..Len(text) : ProviderReturns(k)
  \/ \E e \in todo : RestoreNext(e)
  \/ ResolveForTool
  \/ \E e \in todo : ResolveNext(e)
  \/ DestroyAll

-----------------------------------------------------------------------------
Leaked == {n \in 1..TextLength : /\ <<Raw, n>> \in ToSet(text)
                                 /\ \E e \in found : e.start < n /\ n <= e.end}

\* Each token, and each sentinel, stands in one place: that is what Replaced()
\* takes for granted, and why no loop treats an entity's value twice.
TokensOnce ==
  \A e \in found, i, j \in DOMAIN text :
    \/ Occurs(text, i, VaultToken(e)) /\ Occurs(text, j, VaultToken(e))
    \/ Occurs(text, i, Sentinel(e)) /\ Occurs(text, j, Sentinel(e))
    => i = j

\* From the end of the loop of _mask() to the beginning of that of
\* resolve_for_tool().
AsMasked ==
  \/ stage = "mask" /\ todo = {}
  \/ stage \in {"protect", "restore", "lost"}

\* Entities that do not overlap are masked whole and come back whole: before
\* the tool nothing of them is readable; the tokens the pattern knows are intact
\* after any translation that is not refused, and resolve to exactly the
\* characters they stood for.  The vault knows them all, unless it was shredded,
\* after which nothing ever brings them back.  Tokens of other types (ICD10,
\* whose name has digits) are masked too, but stay masked.
ComesBackWhole ==
  /\ AsMasked => Leaked = {}
  /\ todo = {} => vault \in {{}, found}
  /\ stage \in {"mask", "restore"} /\ todo = {} =>
       \A e \in found : e.type \in Matched => Holds(text, VaultToken(e))
  /\ stage = "resolve" /\ todo = {} =>
       /\ Leaked = UNION {e.start + 1 .. e.end : e \in {f \in vault : f.type \in Matched}}
       /\ \A e \in vault : e.type \in Matched => Holds(text, Slice(Original, e.start, e.end))

\* The same with each token in one place; that also when entities overlap.
MaskingIsReversible == TokensOnce /\ (Disjoint(found) => ComesBackWhole)

\* pii.py:1 and 12-14: the model only ever sees placeholders, for whatever
\* the recognizers found.
DetectedNeverReadable == AsMasked => Leaked = {}
=============================================================================
