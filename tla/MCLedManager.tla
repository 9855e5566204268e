---------------------------- MODULE MCLedManager ----------------------------
(* The modes as main.c configures them, with a shorter period of the hue.  *)
EXTENDS LedManager

Hue(degrees, l) ==
    [h |-> SFP_11_20_ONE * degrees, s |-> SFP_11_20_ONE, l |-> l]

MCConfig ==
    [hsl |-> [mode \in Modes |->
                IF mode = "ALWAYS_ON" THEN Hue(0, SFP_11_20_ONE)
                ELSE Hue(240, SFP_11_20_ONE \div 2)],
     time_on |-> 2000, time_off |-> 1000, period |-> 5000,
     led_1 |-> Hue(120, SFP_11_20_ONE \div 2)]
=============================================================================
