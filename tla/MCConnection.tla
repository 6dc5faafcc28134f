---------------------------- MODULE MCConnection ----------------------------
(* Two serial sensors on one port and on two, a Ping360 over UDP, a          *)
(* simulation, and what a command line may ask for in vain.                  *)
EXTENDS Connection

Of(t, a, d) == [type |-> t, args |-> a, device |-> d]

MCConfigurations ==
    {Of("Serial", <<"ttyUSB0", "115200">>, "PING1D"),
     Of("Serial", <<"ttyUSB0", "115200">>, "PING360"),
     Of("Udp", <<"192.168.2.2", "9092">>, "PING360"),
     Of("Udp", <<"10.0.0.1", "9092">>, "PING1D"),
     Of("Ping1DSimulation", <<>>, "PING1D")}

MCLogNames == <<"log1", "log2", "log3">>
=============================================================================
