------------------------------ MODULE MCWebPage ------------------------------
(* Instances of WebPage. max_uint32 is 4, so that times need both halves.    *)
EXTENDS WebPage

Group(kind, members) == [kind |-> kind, members |-> members, type |-> "none", size |-> 0]
Value(type, size) == [kind |-> "value", members |-> 0, type |-> type, size |-> size]
Modifiable(type, size) == [Value(type, size) EXCEPT !.kind = "modifiable"]
Timestamp == Value("signed_integer", 8)

Flat(v, w) == <<Group("device", 1), Group("system", 3), Timestamp, v, w>>
Nest(v, w) == <<Group("device", 1), Group("system", 3), Timestamp, Group("group", 1), v, w>>
Pair(v, w) == <<Group("device", 2), Group("system", 2), Timestamp, v,
                Group("system", 3), Timestamp, Group("group", 1), Group("empty", 0), w>>
Single(v) == <<Group("device", 1), Group("system", 2), Timestamp, v>>

Long_ == Value("signed_integer", 8)
Int_ == Modifiable("signed_integer", 4)
Float == Value("floating_point", 4)
Double == Value("floating_point", 8)
Bool == Value("bool", 1)

Alone(descriptions) == {<<[index |-> 0, description |-> d]>> : d \in descriptions}

MCPlans ==
  Alone({Flat(Float, Bool), Flat(Double, Int_), Flat(Long_, Float), Nest(Int_, Double),
         Nest(Bool, Long_), Pair(Float, Int_)})
    \cup {<<[index |-> 0, description |-> Single(Float)],
            [index |-> 1, description |-> Single(Double)]>>,
          <<[index |-> -1, description |-> Flat(Int_, Float)],
            [index |-> -1, description |-> Single(Float)]>>}

Row(time, end_of_epoch) == [time |-> time, end_of_epoch |-> end_of_epoch]

MCRowSets == {<<>>,
              <<Row(2, FALSE), Row(5, TRUE)>>,
              <<Row(1, TRUE), Row(7, FALSE)>>}

MCZooms == {[min |-> -5, max |-> 6]}
=============================================================================
