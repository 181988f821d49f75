---------------------------- MODULE MCMemorySync ----------------------------
(* Two devices and one memory file.  With copies, the names 1 and 2 are     *)
(* those of the copies that device 1 and device 2 make of the file 3; with  *)
(* none, the file is 1 and a text in conflict waits in its file.            *)
EXTENDS MemorySync

TwoDevices == {1, 2}
FourNames == 1 .. 4
FileFour == {4}
FewCopies ==
  [d \in {1, 2} |-> [n \in 1 .. 4 |->
    IF n < 4 THEN <<>> ELSE IF d = 1 THEN <<1>> ELSE <<3, 2>>]]
FiveNames == 1 .. 5
FileFive == {5}
TwoCopiesEach ==
  [d \in {1, 2} |-> [n \in 1 .. 5 |-> IF n = 5 THEN <<2 * d, 2 * d - 1>> ELSE <<>>]]
OneName == {1}
NoCopies == [d \in {1, 2} |-> [n \in {1} |-> <<>>]]

Once(these) == [what \in Rare |-> IF what \in these THEN 1 ELSE 0]
NoFaults == {Once({})}
Faults ==
  {Once({"crash"}), Once({"command"}), Once({"removal", "away"}), Once({"away", "gap"})}
LateFaults == {Once({"again", "removal", "command"})}
=============================================================================
