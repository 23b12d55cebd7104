------------------------------ MODULE MCLoader ------------------------------
(***************************************************************************)
(* Device trees of up to seven nodes, three levels deep, with old and new  *)
(* numbers of devices, and the drivers of this repository in two orders.   *)
(***************************************************************************)
EXTENDS Loader

Net     == 4096
Disk    == 4097
NineP   == 4105
Console == 4163
Tablet  == 4178

MCDeviceTrees ==
  {[kids |-> <<<<2, 5, 7>>, <<3, 4>>, <<>>, <<>>, <<6>>, <<>>, <<>>>>,
    id   |-> <<0, 0, Disk, Tablet, 0, NineP, NineP>>],
   [kids |-> <<<<2, 7>>, <<3, 4>>, <<>>, <<5, 6>>, <<>>, <<>>, <<>>>>,
    id   |-> <<0, 0, Net, 0, Console, Disk, 0>>],
   [kids |-> <<<<2, 4>>, <<3>>, <<>>, <<5>>, <<6>>, <<>>>>,
    id   |-> <<0, Net, Tablet, 0, 0, Disk>>],
   [kids |-> <<<<>>>>, id |-> <<0>>]}

MCBlobs == {<<<<1, 0, 0, 1>>, <<1, 0, 0, 9>>, <<1, 0, 5, 2>>>>,
            <<<<>>, <<1, 0, 5, 2>>, <<1, 0, 0, 9>>, <<1, 0, 0, 1>>>>}
=============================================================================
