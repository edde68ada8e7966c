--------------------------- MODULE MCReportWriter ---------------------------
EXTENDS ReportWriter

(* Two frames, and a chain that has lost its way; the program's own image,   *)
(* one without a header and a stripped one.                                  *)
MCFrameMemory ==
    (100 :> [previous |-> 108, return |-> 12]) @@ (108 :> [previous |-> 100, return |-> 40])

MCImages ==
    << [name |-> "gone", header |-> FALSE, first |-> 8, size |-> 8, linkEdit |-> TRUE,
        symbols |-> {}, stripped |-> FALSE],
       [name |-> "app", header |-> TRUE, first |-> 8, size |-> 12, linkEdit |-> TRUE,
        symbols |-> {[base |-> 8, name |-> "main"], [base |-> 14, name |-> "run"]},
        stripped |-> FALSE],
       [name |-> "lib", header |-> TRUE, first |-> 20, size |-> 8, linkEdit |-> TRUE,
        symbols |-> {[base |-> 20, name |-> "f"]}, stripped |-> TRUE] >>

(* Classes, and words that can be read as an object and as a class: two that *)
(* refer to each other, an array of one of them, a block, and a string.      *)
Ivar(n, pointer, valid) == [name |-> n, pointer |-> pointer, valid |-> valid]
AClass(n, meta, root, superclass, ivars) ==
    [name |-> n, named |-> TRUE, meta |-> meta, root |-> root, superclass |-> superclass,
     ivars |-> ivars]
Cell(isa, class, text, items, ivars) ==
    [isa |-> isa, class |-> class, text |-> text, items |-> items, ivars |-> ivars]
Instance(isa, items, ivars) ==
    Cell(isa, AClass("Words", FALSE, FALSE, "NSObject", <<>>), FALSE, items, ivars)

MCHeap ==
    [ NSObject |-> Cell("Meta", AClass("NSObject", FALSE, TRUE, Null, <<>>), FALSE, <<>>, <<>>),
      Meta |-> Cell("Meta", AClass("Meta", TRUE, FALSE, "NSObject", <<>>), FALSE, <<>>, <<>>),
      NSBlock |-> Cell("Meta", AClass("NSBlock", FALSE, FALSE, "NSObject", <<>>), FALSE, <<>>, <<>>),
      K |-> Cell("Meta", AClass("K", FALSE, FALSE, "NSObject",
                                <<Ivar("next", TRUE, TRUE), Ivar("size", FALSE, TRUE)>>),
                 FALSE, <<>>, <<>>),
      Bad |-> Cell("Meta", AClass("Bad", FALSE, FALSE, "NSObject", <<Ivar("x", TRUE, FALSE)>>),
                   FALSE, <<>>, <<>>),
      List |-> Cell("Meta", AClass("__NSArrayI", FALSE, FALSE, "NSObject", <<>>),
                    FALSE, <<>>, <<>>),
      k1 |-> Instance("K", <<>>, <<"k2", "5">>),
      k2 |-> Instance("K", <<>>, <<"array", "5">>),
      bad |-> Instance("Bad", <<>>, <<"k1">>),
      array |-> Instance("List", <<"array">>, <<>>),
      block |-> Instance("NSBlock", <<>>, <<>>),
      text |-> Cell(Null, NoClass, TRUE, <<>>, <<>>) ]

MCTagged == [number |-> 3, unused |-> 7]

Thread(crashed, registers, stack, readable) ==
    [crashed |-> crashed, current |-> crashed, signalContext |-> crashed,
     cpu |-> [pc |-> 16, lr |-> 13, fp |-> 100], registers |-> registers, stack |-> stack,
     stackPointer |-> TRUE, stackReadable |-> readable, name |-> Null]
Other == [Thread(FALSE, <<>>, <<>>, TRUE) EXCEPT !.name = "worker"]

Event(type, codeNamed, sigCodeNamed, threads) ==
    [type |-> type, exceptionNamed |-> TRUE, codeNamed |-> codeNamed,
     signalNamed |-> TRUE, sigCodeNamed |-> sigCodeNamed, nulls |-> {}, large |-> {}, reason |-> Null, zombie |-> Null, stackTrace |-> "NULL",
     backtrace |-> <<>>, skipped |-> 0, callback |-> FALSE, snapshot |-> FALSE,
     consoleLog |-> FALSE, suspended |-> TRUE, threads |-> threads]

(* What of a context no structure requires may be NULL.                      *)
Mach == [Event("mach", TRUE, TRUE,
               <<Thread(TRUE, <<"k1", "text", "5">>, <<"number", "block">>, TRUE)>>)
            EXCEPT !.nulls = {<<"System", "boot_time">>}]
SignalEvent == [Event("signal", FALSE, TRUE, <<Other, Thread(TRUE, <<"K">>, <<>>, FALSE)>>)
                   EXCEPT !.consoleLog = TRUE, !.large = {<<"ErrorCrash", "address">>}]
NSException == [Event("nsexception", FALSE, FALSE,
                      <<[Thread(TRUE, <<>>, <<"k1">>, TRUE) EXCEPT !.stackPointer = FALSE]>>)
                   EXCEPT !.reason = "bad", !.zombie = "unused", !.backtrace = <<12, 24, 1, 12>>,
                          !.skipped = 1]
CPPException == [Event("cpp", FALSE, FALSE, <<Thread(TRUE, <<"k2">>, <<>>, TRUE)>>)
                    EXCEPT !.callback = TRUE, !.nulls = {<<"BinaryImage", "uuid">>}]
User == [Event("user", FALSE, FALSE, <<Thread(TRUE, <<>>, <<"k1">>, TRUE)>>)
            EXCEPT !.suspended = FALSE, !.stackTrace = "broken", !.callback = TRUE,
                   !.snapshot = TRUE]

MCCrashes == {Mach, SignalEvent, NSException, CPPException, User}
MCClassLists == {<<>>, <<"K">>}
MCLongerLists == {<<"K">>, <<"List", "K">>}
=============================================================================
