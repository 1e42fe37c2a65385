\* The init.cpp daemon and Qt: does the exit status say whether start-up succeeded?
CONSTANT Variants = {"daemon", "qt"}
CONSTANT ModalStyles = {FALSE}
SPECIFICATION Spec
INVARIANT ExitStatusReflectsInit
