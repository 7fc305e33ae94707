------------------------------ MODULE MCFraming ------------------------------
(* Instances of Framing: the messages that are sent.                       *)
EXTENDS Framing

(* Bytes that matter to the binary format, in a tail of up to two.         *)
Special == {0, 190, ESC, END}
Tails == BoundedSeq(Special, 2)
Ids == {0, END, ESC + 256 * END}

Short == {[name |-> <<49>>, id |-> i, rid |-> r, tail |-> t] :
             i \in Ids, r \in {0, 1}, t \in Tails}
             \cup {[name |-> <<ESC>>, id |-> 0, rid |-> 1, tail |-> t] : t \in Tails}
Unknown == [name |-> <<50>>, id |-> 7, rid |-> 0, tail |-> <<ESC>>]
Final == [name |-> <<49>>, id |-> 0, rid |-> 5, tail |-> <<END>>]

(* A name that makes the header n bytes long.                              *)
LongName(n) == [i \in 1..(n - MinLength) |-> 49]
Long(n) == [name |-> LongName(n), id |-> 0, rid |-> 0, tail |-> <<1>>]

(* Tails with line ends, which must not make a marker.                     *)
XmlTails == {<<>>, <<CR, LF>>, <<CR, LF, CR>>, <<LF, CR, LF, LF>>}
XmlShort == {[name |-> <<49>>, id |-> 1, rid |-> r, tail |-> t] : r \in {0, 2}, t \in XmlTails}

SomePlans ==
    {[format |-> "bin", messages |-> <<m, Final>>, atOnce |-> FALSE] : m \in Short \cup {Unknown}}
        \cup {[format |-> "bin", messages |-> <<Long(n), Final>>, atOnce |-> TRUE] :
                 n \in {127, 128, 255, 256}}
        \cup {[format |-> "xml", messages |-> <<m, n>>, atOnce |-> FALSE] :
                 m \in XmlShort, n \in XmlShort}
SomeNames == {<<49>>, <<ESC>>} \cup {LongName(n) : n \in {127, 128, 255, 256}}
=============================================================================
