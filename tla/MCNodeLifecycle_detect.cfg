\* The init.cpp entry point alone: DetectShutdownThread interrupts the group, then joins it.
CONSTANT Variants = {"daemon"}
CONSTANT ModalStyles = {FALSE}
SPECIFICATION Spec
PROPERTY ShutdownCompletes
