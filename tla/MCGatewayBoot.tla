---------------------------- MODULE MCGatewayBoot ----------------------------
(* A small instance of GatewayBoot for TLC: the factory image and updates  *)
(* that differ from it in one respect each.                                *)
EXTENDS GatewayBoot

MCFactory == [project |-> "gateway", version |-> Version(1, 2, 0, <<Text(1)>>), secure |-> 1,
              kind |-> "good"]

Update(pre, kind) == [MCFactory EXCEPT !.version = Version(1, 2, 0, pre), !.kind = kind]

MCImages ==
    {MCFactory,
     Update(<<>>, "early"),
     Update(<<Text(1), Numeric(1)>>, "modem"),
     Update(<<Text(2)>>, "display"),
     Update(<<Numeric(9)>>, "good"),
     [MCFactory EXCEPT !.version = Version(2, 0, 0, <<>>), !.secure = 2],
     [MCFactory EXCEPT !.version = Version(1, 1, 9, <<>>)],
     [MCFactory EXCEPT !.version = Version(2, 0, 1, <<>>), !.secure = 0],
     [MCFactory EXCEPT !.version = Malformed],
     [MCFactory EXCEPT !.version = Version(3, 0, 0, <<>>), !.project = "other"]}
=============================================================================
