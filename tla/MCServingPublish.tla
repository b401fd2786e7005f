---------------------------- MODULE MCServingPublish ----------------------------
(* Two dimensions and two serving definitions, one of which joins a dimension. *)
EXTENDS ServingPublish

QuantitiesAndUnits == <<"quantity", "unit">>
HourlyAndWide == <<"hourly", "wide">>
WideJoinsQuantity == [o \in {"hourly", "wide"} |-> IF o = "wide" THEN {"quantity"} ELSE {}]
TheSecond == {2}
TheThird == {3}
=============================================================================
