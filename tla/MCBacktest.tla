----------------------------- MODULE MCBacktest -----------------------------
(***************************************************************************)
(* A rising and a falling impulse up to wave 4, each with a second wave of *)
(* either depth, and bars of two minutes whose closes lie in their zones,  *)
(* between the zone and the stop, and beyond the stop.                     *)
(***************************************************************************)
EXTENDS Backtest

PivotsFrom(kind, prices) ==
    [j \in DOMAIN prices |->
        [price |-> prices[j],
         kind |-> IF j % 2 = 1 THEN kind ELSE IF kind = "LOW" THEN "HIGH" ELSE "LOW"]]

ScriptsValue ==
    {PivotsFrom("LOW", <<100, 140, 115, 160, 141>>), PivotsFrom("HIGH", <<160, 120, 145, 98, 119>>)}

Flat(c) == [high |-> c + 1, low |-> c - 1, close |-> c]
Minute(h, l, c) == [high |-> h, low |-> l, close |-> c]
MinutesValue ==
    {<<Flat(118), Flat(118)>>, <<Flat(142), Flat(142)>>, <<Flat(135), Flat(134)>>,
     <<Flat(118), Minute(190, 117, 118)>>, <<Minute(143, 80, 142), Minute(190, 141, 142)>>,
     <<Minute(200, 117, 118), Minute(142, 70, 118)>>}

QuietValue == {<<Flat(118), Flat(118)>>}
=============================================================================
