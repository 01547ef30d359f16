---------------------------- MODULE MCSayMessage ----------------------------
(***************************************************************************)
(* SayMessage for TLC: the numbers tried for each kind of field, in rising *)
(* order, in mm, mm per cycle, tenths of a degree, thousandths, cycles.    *)
(***************************************************************************)
EXTENDS SayMessage

\* Inside and outside the pitch, on its bounds, and next to the codec's rounding points.
MCSamples ==
    [x       |-> <<-54000, -52500, -26247, -52, 0, 12345, 52490, 53100>>,
     y       |-> <<-35000, -34000, -17067, -34, 0, 9876, 33990, 34700>>,
     speed   |-> <<-3100, -2820, -48, 0, 47, 1500, 2700, 3000>>,
     body    |-> <<-1800, -1799, -905, -1, 0, 875, 1795, 1800>>,
     goalieX |-> <<37000, 37050, 40001, 44444, 45000, 50050, 52450, 52900>>,
     goalieY |-> <<-19900, -19850, -9990, -50, 0, 10010, 19850, 19900>>,
     number  |-> <<1, 2, 5, 10, 11, 12, 21, 22>>,
     player  |-> <<1, 2, 5, 10, 11, 12, 21, 22>>,
     unum    |-> <<1, 2, 3, 5, 6, 9, 10, 11>>,
     line    |-> <<8000, 10000, 10287, 10288, 30000, 41000, 52000, 53000>>,
     rate    |-> <<0, 6, 7, 440, 500, 693, 999, 1000>>,
     count   |-> <<0, 1, 2, 3, 5, 9, 10, 12>>,
     cycle   |-> <<0, 1, 2, 10, 36, 72, 73, 74>>]
=============================================================================
