----------------------------- MODULE PriceHistory -----------------------------
(***************************************************************************)
(* The price series the models see: what the AWS client makes of the spot  *)
(* price history it fetches (buildPriceHistory of                          *)
(* internal/cloudapi/aws/aws.go), the series the controller keeps itself   *)
(* when its provider gives none, and normalizePriceHistory of              *)
(* internal/controller/controller.go with the padding of BuildTFTInput     *)
(* (internal/inference/features.go).                                       *)
(*                                                                         *)
(* A price is the time it was quoted at; 0 is a price that is missing.     *)
(***************************************************************************)
EXTENDS Integers, SequencesExt

CONSTANTS
    HistorySteps,      \* steps the price client keeps (24)
    TFTHistorySteps    \* steps the forecasting model takes (12)

ASSUME PriceHistoryAssumption == HistorySteps \in Nat \ {0} /\ TFTHistorySteps \in Nat \ {0}

(* The last k entries. *)
Latest(s, k) == IF Len(s) > k THEN SubSeq(s, Len(s) - k + 1, Len(s)) ELSE s

(* buildPriceHistory: AWS lists the newest price first; a short series is  *)
(* padded with its oldest price.                                           *)
BuildPriceHistory(quotes) ==
    LET prices  == Reverse(quotes)
        padding == [i \in 1..(HistorySteps - Len(prices)) |-> prices[1]]
    IN  IF Len(prices) < HistorySteps THEN padding \o prices ELSE Latest(prices, HistorySteps)

(* The controller's own series: a price that is not there is not added. *)
Remember(history, price) ==
    IF price > 0 THEN Latest(Append(history, price), 2 * TFTHistorySteps) ELSE history

(* normalizePriceHistory: a long series gives every other entry. *)
NormalizePriceHistoryFromFirst(history, price) ==
    IF history = <<>> THEN IF price > 0 THEN <<price>> ELSE <<>>
    ELSE IF Len(history) >= 2 * TFTHistorySteps
    THEN LET recent == Latest(history, 2 * TFTHistorySteps)
         IN  [i \in 1..TFTHistorySteps |-> recent[2 * i - 1]]
    ELSE Latest(history, TFTHistorySteps)

NormalizePriceHistory(history, price) ==
    IF history = <<>> THEN IF price > 0 THEN <<price>> ELSE <<>>
    ELSE IF Len(history) >= 2 * TFTHistorySteps
    THEN LET recent == Latest(history, 2 * TFTHistorySteps)
         IN  [i \in 1..TFTHistorySteps |-> recent[2 * i]]
    ELSE Latest(history, TFTHistorySteps)

(* The rows BuildTFTInput feeds the model: a short series is padded in     *)
(* front with the current price.                                           *)
BuildTFTInput(history, price) ==
    [i \in 1..(TFTHistorySteps - Len(history)) |-> price] \o Latest(history, TFTHistorySteps)
=============================================================================
