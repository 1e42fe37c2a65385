\* The Qt entry point with modal messages from workers: does shutdown still finish?
CONSTANT Variants = {"qt"}
CONSTANT ModalStyles = {TRUE, FALSE}
SPECIFICATION Spec
PROPERTY ShutdownCompletes
CHECK_DEADLOCK FALSE
