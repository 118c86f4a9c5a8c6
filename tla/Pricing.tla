------------------------------ MODULE Pricing ------------------------------
(***************************************************************************)
(* What tokens and searches cost, and what a text is estimated to use      *)
(* before it is analysed (pricing/pricing.go, usage/billing.go             *)
(* EstimateAuxCosts).  Money is counted in the price of one embedding      *)
(* token; the code's floats are taken as exact and truncated as it does.   *)
(***************************************************************************)
EXTENDS Integers

CONSTANTS
    InputPrice,     \* of one Haiku input token: 50
    OutputPrice,    \* of one Haiku output token: 250
    SearchPrice     \* of one OpenAlex search: 50,000

\* Half of the price of a token pair must be a whole number.
ASSUME PricingAssumption ==
    /\ InputPrice \in Nat /\ OutputPrice \in Nat /\ SearchPrice \in Nat
    /\ InputPrice % 2 = 0 /\ OutputPrice % 2 = 0

AtLeast(n, least) == IF n < least THEN least ELSE n
AtMost(n, most) == IF n > most THEN most ELSE n

CalcExact(in, out) == in * InputPrice + out * OutputPrice

\* The batch discount is on the scoring calls only.
CalcAnthropic(extract, score, batch) ==
    LET scoreCost == CalcExact(score.in, score.out)
    IN  CalcExact(extract.in, extract.out)
            + IF batch THEN scoreCost \div 2 ELSE scoreCost

Tokens(in, out) == [in |-> in, out |-> out]

EstClaims(words) == AtLeast((5 * words) \div 100, 1)

\* 1.4 tokens per word; 1200 and 150 tokens for scoring a claim.
EstimateFromText(words, batch) ==
    LET claims == EstClaims(words)
    IN  CalcAnthropic(Tokens((14 * words) \div 10 + 400, 80 * claims),
                      Tokens(1200 * claims, 150 * claims), batch)

EstSearches(claims) ==
    AtLeast((6 * claims) \div 10, IF claims >= 2 THEN 1 ELSE 0)

\* 14 chunks of 180 tokens per source, 60% of them not cached, and 51 tokens
\* per query.
EstEmbedTokens(claims) ==
    51 * claims + (6 * AtLeast(AtMost(2 * claims, 15), 2) * 14 * 180) \div 10

\* The arguments of the bill that EstimateFull makes for a text.
Estimate(words, batch, voyageEnabled) ==
    LET claims == EstClaims(words)
    IN  [anthropic |-> EstimateFromText(words, batch),
         embed     |-> IF voyageEnabled THEN EstEmbedTokens(claims) ELSE 0,
         openAlex  |-> SearchPrice * EstSearches(claims)]
=============================================================================
